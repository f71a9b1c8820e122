--------------------------------- MODULE ALaw ---------------------------------
(***************************************************************************)
(* The A-law codec of the voice path.  A recorded sample is a signed 16-bit *)
(* integer; PCMA.linear2alaw looks up its octet in the 4096-entry table     *)
(* s2a of G711Base.java, indexed by the sample without its four low bits;   *)
(* alaw2linear of ag711.cpp (and the table a2s of G711Base.java, which      *)
(* holds the same 256 numbers) turns an octet back into a sample.           *)
(*                                                                         *)
(* The tables are given by the piecewise linear curve that they tabulate:   *)
(* the magnitude falls into one of eight segments, is divided there into    *)
(* sixteen equal steps, and sign, segment and step make up the octet.       *)
(***************************************************************************)
EXTENDS Integers, Sequences

MinShort == -32768
MaxShort == 32767
Sample == MinShort .. MaxShort
Octet == 0 .. 255

\* First table index of each segment, and one past the last segment.
Start == <<0, 16, 32, 64, 128, 256, 512, 1024, 2048>>

\* How many neighbouring table entries share an octet, per segment.
Width == <<1, 1, 2, 4, 8, 16, 32, 64>>

Abs(x) == IF x >= 0 THEN x ELSE -x

\* The exclusive or with 5 of a number below 16.  The octet is masked with
\* 0x55, which is a 5 in the segment's bits and a 5 in the step's bits.
Xor5(n) ==
    n + (IF n % 2 = 0 THEN 1 ELSE -1)
      + (IF (n \div 4) % 2 = 0 THEN 4 ELSE -4)

\* The distance from the middle of the table, the four low bits dropped.
Magnitude(x) == IF x >= 0 THEN x \div 16 ELSE -(x \div 16) - 1

Segment(m) == CHOOSE s \in 1 .. 8 : Start[s] <= m /\ m < Start[s + 1]

StepOf(m) == (m - Start[Segment(m)]) \div Width[Segment(m)]

linear2alaw(x) ==
    LET m == Magnitude(x)
    IN  (IF x >= 0 THEN 128 ELSE 0) + 16 * Xor5(Segment(m) - 1) + Xor5(StepOf(m))

\* Mutant of Level: not moved to the middle of its step.
LevelLow(s, q) == IF s = 1 THEN 16 * q ELSE (16 * q + 256) * Width[s]

\* The middle of step q of segment s, as alaw2linear computes it with shifts.
Level(s, q) == IF s = 1 THEN 16 * q + 8 ELSE (16 * q + 264) * Width[s]

alaw2linear(a) ==
    LET t == Level(Xor5((a \div 16) % 8) + 1, Xor5(a % 16))
    IN  IF a >= 128 THEN t ELSE -t

\* The sample y stands for the sample x: it is off by at most 8 near zero, and
\* by at most a thirty-second part of the sample elsewhere.
Near(y, x) == 32 * Abs(y - x) <= 256 \/ 32 * Abs(y - x) <= Abs(x)
=============================================================================
