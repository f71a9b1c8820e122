---------------------------- MODULE VoiceTalkProofs ----------------------------
(***************************************************************************)
(* The intercom for every number of talks, every queue bound and every set  *)
(* of samples and devices: its types however the talks overlap, and its     *)
(* safety provided that they do not.                                        *)
(***************************************************************************)
EXTENDS VoiceTalk, SequenceTheorems, FiniteSetTheorems, TLAPS

\* A leaf that names no prover is tried with the SMT solver, a second time when its
\* translation does not finish, and then with Zenon.
USE SMTT(30), Z3T(30), ZenonT(30)

-----------------------------------------------------------------------------
(* What the A-law codec does to every sample and to every octet. *)

\* Masking twice gives back what was masked, within the bits of a segment and
\* within the bits of a step.
LEMMA Xor5Twice ==
    /\ \A n \in 0 .. 15 : Xor5(n) \in 0 .. 15 /\ Xor5(Xor5(n)) = n
    /\ \A n \in 0 .. 7 : Xor5(n) \in 0 .. 7
<1>1. ASSUME NEW n \in 0 .. 15
      PROVE  Xor5(n) \in 0 .. 15 /\ Xor5(Xor5(n)) = n /\ (n < 8 => Xor5(n) \in 0 .. 7)
  <2>1. \/ n = 0 \/ n = 1 \/ n = 2 \/ n = 3 \/ n = 4 \/ n = 5 \/ n = 6 \/ n = 7
        \/ n = 8 \/ n = 9 \/ n = 10 \/ n = 11 \/ n = 12 \/ n = 13 \/ n = 14 \/ n = 15
    OBVIOUS
  <2>. QED
    BY <2>1 DEF Xor5
<1>. QED
  BY <1>1

\* A sample is a 16-bit two's complement integer.
LEMMA SampleBounds ==
    ASSUME NEW x \in Sample
    PROVE  x \in Int /\ -32768 <= x /\ x <= 32767
<1>1. MinShort \in Int /\ MaxShort \in Int
  BY DEF MinShort, MaxShort
<1>2. x \in Int /\ MinShort <= x /\ x <= MaxShort
  BY <1>1 DEF Sample
<1>. QED
  BY <1>2 DEF MinShort, MaxShort

\* A magnitude lies in a segment.
LEMMA SegmentOf ==
    ASSUME NEW m \in Nat, m < 2048
    PROVE  Segment(m) \in 1 .. 8 /\ Start[Segment(m)] <= m /\ m < Start[Segment(m) + 1]
<1>1. \E s \in 1 .. 8 : Start[s] <= m /\ m < Start[s + 1]
  BY DEF Start
<1>. QED
  BY <1>1 DEF Segment

\* Within its segment, a magnitude lies in one of sixteen equal steps.
LEMMA StepOfSegment ==
    ASSUME NEW m \in Nat, NEW s \in 1 .. 8, Start[s] <= m, m < Start[s + 1],
           NEW q, q = (m - Start[s]) \div Width[s]
    PROVE  /\ q \in 0 .. 15
           /\ Start[s] + q * Width[s] <= m
           /\ m < Start[s] + q * Width[s] + Width[s]
<1>1. CASE s = 1 BY <1>1 DEF Start, Width
<1>2. CASE s = 2 BY <1>2 DEF Start, Width
<1>3. CASE s = 3 BY <1>3 DEF Start, Width
<1>4. CASE s = 4 BY <1>4 DEF Start, Width
<1>5. CASE s = 5 BY <1>5 DEF Start, Width
<1>6. CASE s = 6 BY <1>6 DEF Start, Width
<1>7. CASE s = 7 BY <1>7 DEF Start, Width
<1>8. CASE s = 8 BY <1>8 DEF Start, Width
<1>9. s = 1 \/ s = 2 \/ s = 3 \/ s = 4 \/ s = 5 \/ s = 6 \/ s = 7 \/ s = 8
  OBVIOUS
<1>. QED
  BY <1>1, <1>2, <1>3, <1>4, <1>5, <1>6, <1>7, <1>8, <1>9, ZenonT(30)

\* The level of a step is the middle of the samples whose magnitude is in it.
LEMMA LevelInStep ==
    ASSUME NEW s \in 1 .. 8, NEW q \in 0 .. 15
    PROVE  /\ Level(s, q) \in Nat
           /\ Level(s, q) = 16 * (Start[s] + q * Width[s]) + 8 * Width[s]
           /\ s # 1 => 16 * Width[s] <= Start[s]
           /\ Width[s] \in Nat /\ Start[s] \in Nat /\ q * Width[s] \in Nat
           /\ s = 1 => Width[s] = 1
<1>1. CASE s = 1 BY <1>1 DEF Start, Width, Level
<1>2. CASE s = 2 BY <1>2 DEF Start, Width, Level
<1>3. CASE s = 3 BY <1>3 DEF Start, Width, Level
<1>4. CASE s = 4 BY <1>4 DEF Start, Width, Level
<1>5. CASE s = 5 BY <1>5 DEF Start, Width, Level
<1>6. CASE s = 6 BY <1>6 DEF Start, Width, Level
<1>7. CASE s = 7 BY <1>7 DEF Start, Width, Level
<1>8. CASE s = 8 BY <1>8 DEF Start, Width, Level
<1>. QED
  BY <1>1, <1>2, <1>3, <1>4, <1>5, <1>6, <1>7, <1>8

\* The magnitude of a sample is an index of half the table, and bounds it.
LEMMA MagnitudeOf ==
    ASSUME NEW x \in Sample
    PROVE  /\ Magnitude(x) \in Nat /\ Magnitude(x) < 2048
           /\ x >= 0 => 16 * Magnitude(x) <= x /\ x <= 16 * Magnitude(x) + 15
           /\ x < 0 => 16 * Magnitude(x) < -x /\ -x <= 16 * Magnitude(x) + 16
<1>1. x \in Int /\ -32768 <= x /\ x <= 32767
  BY SampleBounds
<1>2. CASE x >= 0
  BY <1>1, <1>2 DEF Magnitude
<1>3. CASE x < 0
  <2>1. Magnitude(x) = -(x \div 16) - 1
    BY <1>1, <1>3 DEF Magnitude
  <2>2. x \div 16 \in Int /\ -2048 <= x \div 16 /\ x \div 16 <= -1
    BY <1>1, <1>3
  <2>3. 16 * (x \div 16) <= x /\ x <= 16 * (x \div 16) + 15
    BY <1>1
  <2>. QED
    BY <1>1, <1>3, <2>1, <2>2, <2>3
<1>. QED
  BY <1>1, <1>2, <1>3

\* The fields of the octet of a sample, and the sample they stand for.
LEMMA OctetOf ==
    ASSUME NEW x \in Sample
    PROVE  LET m == Magnitude(x)
           IN  /\ linear2alaw(x) \in Octet
               /\ alaw2linear(linear2alaw(x)) =
                    IF x >= 0 THEN Level(Segment(m), StepOf(m)) ELSE -Level(Segment(m), StepOf(m))
<1>1. PICK m \in Nat : m = Magnitude(x) /\ m < 2048
  BY MagnitudeOf
<1>2. PICK s \in 1 .. 8 : s = Segment(m) /\ Start[s] <= m /\ m < Start[s + 1]
  BY <1>1, SegmentOf
<1>3. PICK q \in 0 .. 15 : q = StepOf(m)
  BY <1>2, StepOfSegment DEF StepOf
<1>4. PICK h \in 0 .. 7 : h = Xor5(s - 1) /\ Xor5(h) = s - 1
  BY Xor5Twice, s - 1 \in 0 .. 7, s - 1 \in 0 .. 15
<1>5. PICK l \in 0 .. 15 : l = Xor5(q) /\ Xor5(l) = q
  BY Xor5Twice
<1>6. PICK a \in Int : a = linear2alaw(x) /\ a = (IF x >= 0 THEN 128 ELSE 0) + 16 * h + l
  BY <1>1, <1>2, <1>3, <1>4, <1>5, SampleBounds DEF linear2alaw
<1>7. a \in Octet /\ (a >= 128 <=> x >= 0) /\ (a \div 16) % 8 = h /\ a % 16 = l
  BY <1>6, SampleBounds DEF Octet
<1>8. alaw2linear(a) = IF x >= 0 THEN Level(s, q) ELSE -Level(s, q)
  BY <1>4, <1>5, <1>7 DEF alaw2linear
<1>. QED
  BY <1>1, <1>2, <1>3, <1>6, <1>7, <1>8

\* A sample that is coded by PCMA.linear2alaw and decoded by alaw2linear comes
\* back within 8 of what it was, or within a thirty-second part of it, whatever
\* the sample, the ends of the 16-bit range and the samples round zero included.
THEOREM RoundTrip ==
    ASSUME NEW x \in Sample
    PROVE  linear2alaw(x) \in Octet /\ Near(alaw2linear(linear2alaw(x)), x)
<1>1. PICK m \in Nat : m = Magnitude(x) /\ m < 2048
  BY MagnitudeOf
<1>2. PICK s \in 1 .. 8 : s = Segment(m) /\ Start[s] <= m /\ m < Start[s + 1]
  BY <1>1, SegmentOf
<1>3. PICK q \in 0 .. 15 : /\ q = StepOf(m)
                           /\ Start[s] + q * Width[s] <= m
                           /\ m < Start[s] + q * Width[s] + Width[s]
  BY <1>2, StepOfSegment, ZenonT(30) DEF StepOf
<1>4. PICK w \in Nat, b \in Nat, p \in Nat :
        w = Width[s] /\ b = Start[s] /\ p = q * Width[s]
  BY LevelInStep, ZenonT(30)
<1>5. Level(s, q) = 16 * (b + p) + 8 * w /\ (w = 1 \/ 16 * w <= b)
  BY <1>4, LevelInStep, ZenonT(30)
<1>6. b + p <= m /\ m < b + p + w
  BY <1>3, <1>4
<1>7. PICK y \in Int : /\ y = alaw2linear(linear2alaw(x))
                       /\ y = IF x >= 0 THEN 16 * (b + p) + 8 * w ELSE -(16 * (b + p) + 8 * w)
  BY <1>1, <1>2, <1>3, <1>5, OctetOf
<1>8. Abs(y - x) <= 8 * w /\ 16 * m <= Abs(x)
  BY <1>1, <1>6, <1>7, MagnitudeOf, SampleBounds DEF Abs
<1>9. Abs(y - x) \in Int /\ Abs(x) \in Int
  BY SampleBounds DEF Abs
<1>10. Near(y, x)
  BY <1>2, <1>4, <1>5, <1>8, <1>9 DEF Near
<1>. QED
  BY <1>7, <1>10, OctetOf

-----------------------------------------------------------------------------
(* The inductive invariant. *)

Starting == {"ready", "init", "new", "start", "clear"}
Live == Starting \cup {"check", "read", "add"}
InCall == {"set", "loop", "send", "last", "exit", "hang"}

\* The part of the types that the argument needs.
Types ==
    /\ rec \in [Talks -> RecSteps] /\ snd \in [Talks -> SndSteps]
    /\ got \in [Talks -> Sample] /\ pkt \in [Talks -> Seq(Packets)]
    /\ pcm \in Sample /\ audioQueue \in Seq(Packets)
    /\ mRecorder \in Recorders \cup {0} /\ recorder \in [Recorders -> RecorderStates]
    /\ ui \in {"idle", "stop", "drop", "failed"}

\* What the audio rests on: one record thread at a time, so that the buffer
\* still holds what the thread read when it codes it.
AudioInv ==
    /\ \A t, u \in Talks : rec[t] \in Live /\ rec[u] \in Live => t = u
    /\ \A t \in Talks : rec[t] = "add" => got[t] = pcm
    /\ \A i \in 1 .. Len(audioQueue) : Faithful(audioQueue[i])
    /\ \A t \in Talks : snd[t] = "send" => Faithful(pkt[t][1])
    /\ \A t \in Talks : Recording(t) => \A i \in 1 .. Len(audioQueue) : audioQueue[i].talk = t

\* What the microphone rests on: endTalking does not run while a record thread
\* is being started, so a new recorder is made only when there is none.
MicInv ==
    /\ ui # "idle" => \A t \in Talks : rec[t] \notin Starting
    /\ \A t \in Talks : rec[t] = "new" => mRecorder = 0
    /\ ui = "stop" => mRecorder # 0
    /\ ui \in {"drop", "failed"} => \A o \in Recorders : recorder[o] # "recording"
    /\ \A o \in Recorders : recorder[o] = "recording" => mRecorder = o

\* What the call rests on: a sender hangs up the device that it called.
CallInv ==
    /\ calls \subseteq {mCurrentIndex}
    /\ calls # {} => \E t \in Talks : snd[t] \in InCall

CalmInv == AudioInv /\ MicInv /\ CallInv
IInv == Types /\ (app = "unhurried" => CalmInv)
-----------------------------------------------------------------------------
\* What a coded sample becomes on the way is what the codec's theorem says.
LEMMA CodedIsFaithful ==
    ASSUME NEW t \in Talks, NEW x \in Sample
    PROVE  /\ [talk |-> t, lin |-> x, alaw |-> linear2alaw(x)] \in Packets
           /\ Faithful([talk |-> t, lin |-> x, alaw |-> linear2alaw(x)])
BY RoundTrip DEF Packets, Faithful

\* Silence is a sample.
LEMMA SilenceIsSample == 0 \in Sample
<1>1. MinShort \in Int /\ MaxShort \in Int /\ MinShort <= 0 /\ 0 <= MaxShort
  BY DEF MinShort, MaxShort
<1>. QED
  BY <1>1 DEF Sample

\* The packets of a longer or a shorter queue are the ones it had, and the new one.
LEMMA QueueFacts ==
    ASSUME NEW q \in Seq(Packets)
    PROVE  /\ \A p \in Packets :
                /\ Append(q, p) \in Seq(Packets)
                /\ \A i \in 1 .. Len(Append(q, p)) :
                     \/ Append(q, p)[i] = p
                     \/ i \in 1 .. Len(q) /\ Append(q, p)[i] = q[i]
           /\ q # <<>> =>
                /\ Head(q) \in Packets /\ Head(q) = q[1] /\ 1 \in 1 .. Len(q)
                /\ Tail(q) \in Seq(Packets)
                /\ \A i \in 1 .. Len(Tail(q)) :
                     i + 1 \in 1 .. Len(q) /\ Tail(q)[i] = q[i + 1]
<1>1. ASSUME NEW p \in Packets
      PROVE  /\ Append(q, p) \in Seq(Packets)
             /\ \A i \in 1 .. Len(Append(q, p)) :
                  \/ Append(q, p)[i] = p
                  \/ i \in 1 .. Len(q) /\ Append(q, p)[i] = q[i]
  BY AppendProperties
<1>2. ASSUME q # <<>>
      PROVE  /\ Head(q) \in Packets /\ Head(q) = q[1] /\ 1 \in 1 .. Len(q)
             /\ Tail(q) \in Seq(Packets)
             /\ \A i \in 1 .. Len(Tail(q)) :
                  i + 1 \in 1 .. Len(q) /\ Tail(q)[i] = q[i + 1]
  BY <1>2, HeadTailProperties
<1>. QED
  BY <1>1, <1>2
\* A thread that goes from one step to another is at a step afterwards.
LEMMA ThreadsTyped ==
    ASSUME Types, NEW t \in Talks, NEW from
    PROVE  /\ \A to \in RecSteps : RecGoes(t, from, to) => rec' \in [Talks -> RecSteps]
           /\ \A to \in SndSteps : SndGoes(t, from, to) => snd' \in [Talks -> SndSteps]
BY ZenonT(30) DEF Types, RecGoes, SndGoes

\* Every step keeps the types.
LEMMA TypesStep ==
    ASSUME Types, Next
    PROVE  Types'
<1>. USE VoiceAssumption DEF Talks, Recorders, RecSteps, SndSteps, RecorderStates
<1>1. CASE StartTalking
  BY <1>1 DEF Types, StartTalking, threads, fields, Calm
<1>2. CASE SetTalkChannel
  BY <1>2 DEF Types, SetTalkChannel, threads, fields, Calm
<1>3. CASE EndTalking
  BY <1>3 DEF Types, EndTalking, threads, fields, Calm
<1>4. CASE StopRecorder
  BY <1>4, ZenonT(30) DEF Types, StopRecorder, threads, fields, Calm
<1>5. CASE DropRecorder
  BY <1>5 DEF Types, DropRecorder, threads, fields, Calm
<1>6. ASSUME NEW t \in Talks, BeginRecord(t) PROVE Types'
  BY <1>6 DEF Types, BeginRecord, RecGoes, RecKeeps
<1>7. ASSUME NEW t \in Talks, HaveRecorder(t) PROVE Types'
  BY <1>7 DEF Types, HaveRecorder, RecGoes, RecKeeps
<1>8. ASSUME NEW t \in Talks, initRecorder(t) PROVE Types'
  BY <1>8, SilenceIsSample DEF Types, initRecorder, RecGoes, RecKeeps
<1>9. ASSUME NEW t \in Talks, StartRecording(t) PROVE Types'
  <2>1. rec' \in [Talks -> RecSteps]
    <3>1. RecGoes(t, "start", "clear") \/ RecGoes(t, "start", "done")
      BY <1>9, ZenonT(30) DEF StartRecording
    <3>. QED
      BY <3>1, ThreadsTyped
  <2>2. recorder' \in [Recorders -> RecorderStates]
    BY <1>9, ZenonT(30) DEF Types, StartRecording, Startable
  <2>3. UNCHANGED <<snd, got, pkt, pcm, audioQueue, mRecorder, ui>>
    BY <1>9 DEF StartRecording, RecKeeps
  <2>. QED
    BY <2>1, <2>2, <2>3 DEF Types
<1>10. ASSUME NEW t \in Talks, ClearOld(t) PROVE Types'
  BY <1>10 DEF Types, ClearOld, RecGoes, RecKeeps
<1>11. ASSUME NEW t \in Talks, CheckRecord(t) PROVE Types'
  BY <1>11 DEF Types, CheckRecord, RecGoes, RecKeeps
<1>12. ASSUME NEW t \in Talks, Read(t) PROVE Types'
  <2>1. rec' \in [Talks -> RecSteps]
    <3>1. RecGoes(t, "read", "add") \/ RecGoes(t, "read", "check")
      BY <1>12, ZenonT(30) DEF Read
    <3>. QED
      BY <3>1, ThreadsTyped
  <2>2. pcm' \in Sample /\ got' \in [Talks -> Sample]
    BY <1>12 DEF Types, Read
  <2>3. UNCHANGED <<snd, pkt, audioQueue, mRecorder, recorder, ui>>
    BY <1>12 DEF Read, RecKeeps
  <2>. QED
    BY <2>1, <2>2, <2>3 DEF Types
<1>13. ASSUME NEW t \in Talks, ReadNull(t) PROVE Types'
  BY <1>13 DEF Types, ReadNull, fields, threads
<1>14. ASSUME NEW t \in Talks, Add(t) PROVE Types'
  <2>1. [talk |-> t, lin |-> got[t], alaw |-> linear2alaw(pcm)] \in Packets
    BY RoundTrip DEF Types, Packets
  <2>2. audioQueue' \in Seq(Packets)
    BY <1>14, <2>1, QueueFacts DEF Types, Add
  <2>. QED
    BY <1>14, <2>2, SilenceIsSample DEF Types, Add, RecGoes, RecKeeps
<1>15. ASSUME NEW t \in Talks, CallDevice(t) PROVE Types'
  BY <1>15, ZenonT(30) DEF Types, CallDevice, SndGoes, SndKeeps
<1>16. ASSUME NEW t \in Talks, BeginSend(t) PROVE Types'
  BY <1>16 DEF Types, BeginSend, SndGoes, SndKeeps
<1>17. ASSUME NEW t \in Talks, Poll(t) PROVE Types'
  <2>1. CASE audioQueue = <<>> \/ ~isSendAudio
    <3>1. UNCHANGED <<audioQueue, pkt, rec, got, pcm, mRecorder, recorder, ui>>
      BY <1>17, <2>1 DEF Poll, SndKeeps
    <3>2. snd' \in [Talks -> SndSteps]
      <4>1. SndGoes(t, "loop", "exit") \/ SndGoes(t, "loop", "send") \/ SndGoes(t, "loop", "last")
        BY <1>17, ZenonT(30) DEF Poll
      <4>. QED
        BY <4>1, ThreadsTyped
    <3>. QED
      BY <3>1, <3>2 DEF Types
  <2>2. CASE audioQueue # <<>> /\ isSendAudio
    <3>1. Head(audioQueue) \in Packets /\ Tail(audioQueue) \in Seq(Packets)
      BY <2>2, QueueFacts DEF Types
    <3>2. <<Head(audioQueue)>> \in Seq(Packets)
      BY <3>1
    <3>3. /\ snd' = [snd EXCEPT ![t] = "send"]
          /\ pkt' = [pkt EXCEPT ![t] = <<Head(audioQueue)>>]
          /\ audioQueue' = Tail(audioQueue)
          /\ UNCHANGED <<rec, got, pcm, mRecorder, recorder, ui>>
      BY <1>17, <2>2 DEF Poll, SndGoes, SndKeeps
    <3>. QED
      BY <3>1, <3>2, <3>3 DEF Types
  <2>. QED
    BY <2>1, <2>2
<1>18. ASSUME NEW t \in Talks, SendPacket(t) PROVE Types'
  BY <1>18 DEF Types, SendPacket, SndGoes, SndKeeps
<1>19. ASSUME NEW t \in Talks, CheckLast(t) PROVE Types'
  BY <1>19 DEF Types, CheckLast, SndGoes, SndKeeps
<1>20. ASSUME NEW t \in Talks, ExitSend(t) PROVE Types'
  BY <1>20 DEF Types, ExitSend, SndGoes, SndKeeps
<1>21. ASSUME NEW t \in Talks, HandUp(t) PROVE Types'
  BY <1>21 DEF Types, HandUp, SndGoes, SndKeeps
<1>22. ASSUME NEW t \in Talks, ClearSent(t) PROVE Types'
  BY <1>22 DEF Types, ClearSent, SndGoes, SndKeeps
<1>. QED
  BY <1>1, <1>2, <1>3, <1>4, <1>5, <1>6, <1>7, <1>8, <1>9, <1>10, <1>11, <1>12, <1>13, <1>14, <1>15, <1>16, <1>17, <1>18, <1>19, <1>20, <1>21, <1>22 DEF Next, UI, Record, Transmit
\* A send thread touches neither the microphone nor the UI thread.
LEMMA TransmitKeeps ==
    ASSUME NEW t \in Talks, Transmit(t)
    PROVE  UNCHANGED <<rec, got, pcm, mRecorder, recorder, ui, mCurrentIndex>>
BY DEF SndKeeps, Transmit, CallDevice, BeginSend, Poll, SendPacket,
         CheckLast, ExitSend, HandUp, ClearSent

\* A record thread touches neither the call nor the send threads.
LEMMA RecordKeeps ==
    ASSUME NEW t \in Talks, Record(t)
    PROVE  UNCHANGED <<snd, pkt, calls, mCurrentIndex, ui>>
BY ZenonT(30) DEF RecKeeps, threads, fields, Record, BeginRecord, HaveRecorder, initRecorder,
         StartRecording, ClearOld, CheckRecord, Read, ReadNull, Add

\* Every step of an unhurried application keeps what the microphone rests on.
LEMMA MicStep ==
    ASSUME Types, AudioInv, MicInv, app = "unhurried", Next
    PROVE  MicInv'
<1>. USE VoiceAssumption DEF Talks, Recorders, RecSteps, RecorderStates, Starting, Live
<1>1. CASE StartTalking
  BY <1>1 DEF Types, AudioInv, MicInv, StartTalking, threads, fields, Calm, Ended
<1>2. CASE SetTalkChannel
  BY <1>2 DEF Types, AudioInv, MicInv, SetTalkChannel, threads, fields, Calm, Ended
<1>3. CASE EndTalking
  <2>1. \A t \in Talks : rec[t] \in {"none", "check", "read", "add", "done"}
    BY <1>3 DEF EndTalking, Calm
  <2>2. mRecorder = 0 => \A o \in Recorders : recorder[o] # "recording"
    BY DEF MicInv
  <2>3. /\ UNCHANGED <<rec, recorder, mRecorder>>
        /\ ui' = IF mRecorder # 0 THEN "stop" ELSE "drop"
    BY <1>3 DEF EndTalking, threads
  <2>. QED
    BY <2>1, <2>2, <2>3 DEF MicInv
<1>4. CASE StopRecorder
  BY <1>4 DEF Types, AudioInv, MicInv, StopRecorder, threads, fields, Calm, Ended
<1>5. CASE DropRecorder
  BY <1>5 DEF Types, AudioInv, MicInv, DropRecorder, threads, fields, Calm, Ended
<1>6. ASSUME NEW t \in Talks, BeginRecord(t) PROVE MicInv'
  BY <1>6 DEF Types, AudioInv, MicInv, BeginRecord, RecGoes, RecKeeps
<1>7. ASSUME NEW t \in Talks, HaveRecorder(t) PROVE MicInv'
  BY <1>7 DEF Types, AudioInv, MicInv, HaveRecorder, RecGoes, RecKeeps
<1>8. ASSUME NEW t \in Talks, initRecorder(t) PROVE MicInv'
  BY <1>8 DEF Types, AudioInv, MicInv, initRecorder, RecGoes, RecKeeps
<1>9. ASSUME NEW t \in Talks, StartRecording(t) PROVE MicInv'
  <2>1. ui = "idle" /\ UNCHANGED <<ui, mRecorder>>
    BY <1>9 DEF Types, MicInv, StartRecording, RecGoes, RecKeeps
  <2>2. /\ rec' \in {[rec EXCEPT ![t] = "clear"], [rec EXCEPT ![t] = "done"]}
        /\ \A u \in Talks : rec'[u] = "new" => rec[u] = "new"
    BY <1>9 DEF Types, StartRecording, RecGoes
  <2>3. \A o \in Recorders : recorder'[o] = "recording" => recorder[o] = "recording" \/ o = mRecorder
    BY <1>9, ZenonT(30) DEF Types, StartRecording, Startable
  <2>. QED
    BY <2>1, <2>2, <2>3 DEF MicInv
<1>10. ASSUME NEW t \in Talks, ClearOld(t) PROVE MicInv'
  BY <1>10 DEF Types, AudioInv, MicInv, ClearOld, RecGoes, RecKeeps
<1>11. ASSUME NEW t \in Talks, CheckRecord(t) PROVE MicInv'
  BY <1>11 DEF Types, AudioInv, MicInv, CheckRecord, RecGoes, RecKeeps
<1>12. ASSUME NEW t \in Talks, Read(t) PROVE MicInv'
  <2>1. UNCHANGED <<ui, mRecorder, recorder>>
    BY <1>12 DEF Read, RecKeeps
  <2>2. \A u \in Talks : rec'[u] \in Starting => rec[u] = rec'[u]
    BY <1>12 DEF Types, Read, RecGoes
  <2>. QED
    BY <2>1, <2>2 DEF MicInv
<1>13. ASSUME NEW t \in Talks, ReadNull(t) PROVE MicInv'
  BY <1>13 DEF Types, AudioInv, MicInv, ReadNull, threads, fields
<1>14. ASSUME NEW t \in Talks, Add(t) PROVE MicInv'
  BY <1>14 DEF Types, AudioInv, MicInv, Add, RecGoes, RecKeeps
<1>15. ASSUME NEW t \in Talks, Transmit(t) PROVE MicInv'
  BY <1>15, TransmitKeeps DEF MicInv
<1>. QED
  BY <1>1, <1>2, <1>3, <1>4, <1>5, <1>6, <1>7, <1>8, <1>9, <1>10, <1>11, <1>12, <1>13, <1>14, <1>15 DEF Next, UI, Record
\* Every step of an unhurried application keeps what the call rests on.
LEMMA CallStep ==
    ASSUME Types, CallInv, app = "unhurried", Next
    PROVE  CallInv'
<1>. USE DEF InCall
<1>1. CASE StartTalking
  BY <1>1 DEF CallInv, StartTalking, Calm, Ended
<1>2. CASE SetTalkChannel
  BY <1>2 DEF CallInv, SetTalkChannel, Calm, Ended, threads
<1>3. CASE EndTalking \/ DropRecorder
  BY <1>3, ZenonT(30) DEF CallInv, EndTalking, DropRecorder, threads
<1>4. CASE StopRecorder
  <2>1. UNCHANGED <<snd, mCurrentIndex>> /\ calls' \subseteq calls
    BY <1>4 DEF StopRecorder, fields, threads
  <2>. QED
    BY <2>1 DEF CallInv
<1>5. ASSUME NEW t \in Talks, Record(t) PROVE CallInv'
  BY <1>5, RecordKeeps DEF CallInv
<1>6. ASSUME NEW t \in Talks, Transmit(t) PROVE CallInv'
  <2>1. CASE CallDevice(t) \/ HandUp(t)
    BY <1>6, <2>1, TransmitKeeps DEF Types, CallInv, CallDevice, HandUp, SndGoes
  <2>2. CASE BeginSend(t) \/ Poll(t) \/ SendPacket(t) \/ CheckLast(t) \/ ExitSend(t)
    BY <1>6, <2>2, TransmitKeeps
    DEF Types, CallInv, BeginSend, Poll, SendPacket, CheckLast, ExitSend, SndGoes
  <2>3. CASE ClearSent(t)
    BY <1>6, <2>3, TransmitKeeps DEF Types, CallInv, ClearSent, SndGoes
  <2>. QED
    BY <1>6, <2>1, <2>2, <2>3 DEF Transmit
<1>. QED
  BY <1>1, <1>2, <1>3, <1>4, <1>5, <1>6 DEF Next, UI

\* Every step of an unhurried application keeps what the audio rests on.
LEMMA AudioStep ==
    ASSUME Types, AudioInv, app = "unhurried", Next
    PROVE  AudioInv'
<1>. USE DEF Live, Starting, Recording
<1>1. CASE StartTalking
  <2>1. \A t \in Talks : rec[t] \in {"none", "done"} /\ snd[t] \in {"none", "done"}
    BY <1>1 DEF StartTalking, Calm, Ended
  <2>2. UNCHANGED <<got, pcm, audioQueue, pkt>>
    BY <1>1 DEF StartTalking
  <2>3. PICK t \in Talks : /\ rec' = [rec EXCEPT ![t] = "ready"]
                           /\ snd' = [snd EXCEPT ![t] = "ready"]
    BY <1>1, ZenonT(30) DEF StartTalking
  <2>4. \A u \in Talks : /\ rec'[u] \in Live => u = t
                         /\ rec'[u] \notin {"check", "read", "add"} /\ snd'[u] # "send"
    BY <2>1, <2>3, ZenonT(30) DEF Types
  <2>. QED
    BY <2>2, <2>4, ZenonT(30) DEF AudioInv
<1>2. CASE SetTalkChannel \/ EndTalking \/ StopRecorder \/ DropRecorder
  <2>1. UNCHANGED <<rec, got, snd, pkt, pcm, audioQueue>>
    BY <1>2, ZenonT(30) DEF SetTalkChannel, EndTalking, StopRecorder, DropRecorder, threads
  <2>. QED
    BY <2>1 DEF AudioInv
<1>3. ASSUME NEW t \in Talks, BeginRecord(t) \/ HaveRecorder(t) \/ StartRecording(t) \/ CheckRecord(t)
      PROVE  AudioInv'
  <2>1. UNCHANGED <<pcm, got, audioQueue, snd, pkt>>
    BY <1>3 DEF BeginRecord, HaveRecorder, StartRecording, CheckRecord, RecKeeps
  <2>2. /\ rec[t] \in Live
        /\ \A u \in Talks : /\ rec'[u] \in Live => rec[u] \in Live
                            /\ rec'[u] = "add" => rec[u] = "add"
                            /\ rec'[u] \in {"check", "read", "add"} => rec[u] \in {"check", "read", "add"}
    BY <1>3 DEF Types, BeginRecord, HaveRecorder, StartRecording, CheckRecord, RecGoes
  <2>. QED
    BY <2>1, <2>2 DEF AudioInv
<1>4. ASSUME NEW t \in Talks, initRecorder(t) PROVE AudioInv'
  BY <1>4 DEF Types, AudioInv, initRecorder, RecGoes, RecKeeps
<1>5. ASSUME NEW t \in Talks, ClearOld(t) PROVE AudioInv'
  BY <1>5 DEF Types, AudioInv, ClearOld, RecGoes, RecKeeps
<1>6. ASSUME NEW t \in Talks, Read(t) PROVE AudioInv'
  <2>1. UNCHANGED <<audioQueue, snd, pkt>> /\ rec[t] = "read"
    BY <1>6 DEF Read, RecGoes, RecKeeps
  <2>2. \A u \in Talks : u # t => rec[u] \notin Live /\ rec'[u] = rec[u]
    BY <1>6, <2>1, ZenonT(60) DEF Types, AudioInv, Read, RecGoes
  <2>3. (rec'[t] = "add" /\ got'[t] = pcm') \/ rec'[t] = "check"
    BY <1>6 DEF Types, Read, RecGoes
  <2>. QED
    BY <2>1, <2>2, <2>3 DEF AudioInv
<1>7. ASSUME NEW t \in Talks, ReadNull(t) PROVE AudioInv'
  BY <1>7, ZenonT(30) DEF AudioInv, ReadNull, threads
<1>8. ASSUME NEW t \in Talks, Add(t) PROVE AudioInv'
  <2>. DEFINE p == [talk |-> t, lin |-> got[t], alaw |-> linear2alaw(pcm)]
  <2>1. got[t] = pcm /\ rec[t] = "add"
    BY <1>8 DEF AudioInv, Add, RecGoes
  <2>2. p \in Packets /\ Faithful(p) /\ p.talk = t
    BY <2>1, CodedIsFaithful DEF Types
  <2>. HIDE DEF p
  <2>3. audioQueue' = Append(audioQueue, p)
    BY <1>8 DEF Add, p
  <2>4. \A i \in 1 .. Len(audioQueue') :
          \/ audioQueue'[i] = p
          \/ i \in 1 .. Len(audioQueue) /\ audioQueue'[i] = audioQueue[i]
    BY <2>2, <2>3, QueueFacts, ZenonT(30) DEF Types
  <2>5. /\ rec' = [rec EXCEPT ![t] = "check"]
        /\ UNCHANGED <<pcm, snd, pkt>>
        /\ \A u \in Talks : u # t => got'[u] = got[u]
    BY <1>8 DEF Types, Add, RecGoes, RecKeeps
  <2>6. \A i \in 1 .. Len(audioQueue') : Faithful(audioQueue'[i]) /\ audioQueue'[i].talk = t
    <3>1. \A i \in 1 .. Len(audioQueue) : Faithful(audioQueue[i]) /\ audioQueue[i].talk = t
      BY <2>1 DEF AudioInv
    <3>. QED
      BY <2>2, <2>4, <3>1, ZenonT(30)
  <2>7. \A u \in Talks : u # t => rec'[u] \notin Live
    BY <2>1, <2>5 DEF Types, AudioInv
  <2>. QED
    <3>1. rec'[t] = "check"
      BY <2>5 DEF Types
    <3>. QED
      BY <2>5, <2>6, <2>7, <3>1, ZenonT(30) DEF AudioInv
<1>9. ASSUME NEW t \in Talks, CallDevice(t) \/ BeginSend(t) \/ SendPacket(t) \/ CheckLast(t)
                               \/ ExitSend(t) \/ HandUp(t)
      PROVE  AudioInv'
  <2>1. UNCHANGED <<rec, got, pcm, audioQueue>>
    BY <1>9 DEF CallDevice, BeginSend, SendPacket, CheckLast, ExitSend, HandUp, SndKeeps
  <2>2. \A u \in Talks : snd'[u] = "send" => snd[u] = "send" /\ pkt'[u] = pkt[u]
    BY <1>9 DEF Types, CallDevice, BeginSend, SendPacket, CheckLast, ExitSend, HandUp, SndGoes
  <2>. QED
    BY <2>1, <2>2 DEF AudioInv
<1>10. ASSUME NEW t \in Talks, Poll(t) PROVE AudioInv'
  <2>1. UNCHANGED <<rec, got, pcm>>
    BY <1>10 DEF Poll, SndKeeps
  <2>2. CASE audioQueue # <<>> /\ isSendAudio
    <3>1. /\ snd' = [snd EXCEPT ![t] = "send"]
          /\ pkt' = [pkt EXCEPT ![t] = <<Head(audioQueue)>>]
          /\ audioQueue' = Tail(audioQueue)
      BY <1>10, <2>2 DEF Poll, SndGoes
    <3>2. Head(audioQueue) = audioQueue[1] /\ 1 \in 1 .. Len(audioQueue)
      BY <2>2, QueueFacts DEF Types
    <3>3. \A i \in 1 .. Len(audioQueue') :
            i + 1 \in 1 .. Len(audioQueue) /\ audioQueue'[i] = audioQueue[i + 1]
      BY <2>2, <3>1, QueueFacts DEF Types
    <3>4. \A u \in Talks : snd'[u] = "send" => Faithful(pkt'[u][1])
      BY <3>1, <3>2 DEF Types, AudioInv
    <3>5. \A i \in 1 .. Len(audioQueue') : Faithful(audioQueue'[i])
      BY <3>3 DEF AudioInv
    <3>6. ASSUME NEW u \in Talks, Recording(u)', NEW i \in 1 .. Len(audioQueue')
          PROVE  audioQueue'[i].talk = u
      BY <2>1, <3>3, <3>6 DEF AudioInv
    <3>. QED
      BY <2>1, <3>4, <3>5, <3>6, ZenonT(30) DEF AudioInv
  <2>3. CASE ~(audioQueue # <<>> /\ isSendAudio)
    <3>1. UNCHANGED <<audioQueue, pkt>> /\ snd' \in {[snd EXCEPT ![t] = "exit"], [snd EXCEPT ![t] = "last"]}
      BY <1>10, <2>3 DEF Poll, SndGoes
    <3>2. \A u \in Talks : snd'[u] = "send" => snd[u] = "send"
      BY <3>1 DEF Types
    <3>. QED
      BY <2>1, <3>1, <3>2, ZenonT(30) DEF AudioInv
  <2>. QED
    BY <2>2, <2>3
<1>11. ASSUME NEW t \in Talks, ClearSent(t) PROVE AudioInv'
  <2>1. UNCHANGED <<rec, got, pcm, pkt>> /\ audioQueue' = <<>>
    BY <1>11, ZenonT(30) DEF ClearSent, SndKeeps
  <2>2. \A u \in Talks : snd'[u] = "send" => snd[u] = "send"
    BY <1>11 DEF Types, ClearSent, SndGoes
  <2>3. 1 .. Len(audioQueue') = {}
    BY <2>1
  <2>. QED
    BY <2>1, <2>2, <2>3, ZenonT(30) DEF AudioInv
<1>. QED
  BY <1>1, <1>2, <1>3, <1>4, <1>5, <1>6, <1>7, <1>8, <1>9, <1>10, <1>11
  DEF Next, UI, Record, Transmit

\* The inductive invariant holds in every reachable state.
LEMMA Invariance == Spec => []IInv
<1>1. Init => IInv
  <2>. SUFFICES ASSUME Init PROVE IInv
    OBVIOUS
  <2>1. Types
    BY VoiceAssumption, SilenceIsSample
    DEF Init, Types, Talks, Recorders, RecSteps, SndSteps, RecorderStates
  <2>2. AudioInv
    BY DEF Init, AudioInv, Live, Starting, Recording
  <2>3. MicInv
    BY DEF Init, MicInv, Starting
  <2>4. CallInv
    BY DEF Init, CallInv
  <2>. QED
    BY <2>1, <2>2, <2>3, <2>4 DEF IInv, CalmInv
<1>2. ASSUME IInv, [Next]_vars PROVE IInv'
  <2>1. CASE Next
    <3>1. Types'
      BY <1>2, <2>1, TypesStep DEF IInv
    <3>2. app' = app
      BY <2>1, ZenonT(30) DEF Next, UI, StartTalking, SetTalkChannel, EndTalking, StopRecorder, DropRecorder,
         RecKeeps, Record, BeginRecord, HaveRecorder, initRecorder, StartRecording, ClearOld,
         CheckRecord, Read, ReadNull, Add, SndKeeps, Transmit, CallDevice, BeginSend, Poll,
         SendPacket, CheckLast, ExitSend, HandUp, ClearSent
    <3>3. ASSUME app = "unhurried" PROVE CalmInv'
      BY <1>2, <2>1, <3>3, AudioStep, MicStep, CallStep DEF IInv, CalmInv
    <3>. QED
      BY <3>1, <3>2, <3>3 DEF IInv
  <2>2. CASE UNCHANGED vars
    BY <1>2, <2>2, ZenonT(30) DEF vars, fields, threads, IInv, Types, CalmInv, AudioInv, MicInv, CallInv, Recording
  <2>. QED
    BY <1>2, <2>1, <2>2
<1>. QED
  BY <1>1, <1>2, PTL DEF Spec

\* Whatever the samples, the number of talks and the queue's bound, if talks do
\* not overlap then every packet that waits to be sent or that a sender holds
\* decodes to what its own record thread read, within the error of the codec.
THEOREM AudioIsHeard == Spec => []SentIsHeard
<1>1. IInv => SentIsHeard
  BY ZenonT(30) DEF IInv, CalmInv, AudioInv, SentIsHeard
<1>. QED
  BY <1>1, Invariance, PTL

\* If talks do not overlap, the queue of a running recorder holds nothing of
\* another talk, however many talks there were and however they ended.
THEOREM NoOldAudio == Spec => []QueueIsThisTalk
<1>1. IInv => QueueIsThisTalk
  BY DEF IInv, CalmInv, AudioInv, QueueIsThisTalk
<1>. QED
  BY <1>1, Invariance, PTL

\* If talks do not overlap, a call is open only with the selected device and
\* only while a sender that will hang up is alive.
THEOREM CallIsOwned == Spec => []CallHasSender
<1>1. IInv => CallHasSender
  BY DEF IInv, CalmInv, CallInv, CallHasSender, InCall
<1>. QED
  BY <1>1, Invariance, PTL

\* If talks do not overlap, no recorder keeps the microphone after the field
\* that endTalking stops it through has been given another value.
THEOREM MicIsOwned == Spec => []MicOwned
<1>1. IInv => MicOwned
  BY DEF IInv, CalmInv, MicInv, MicOwned
<1>. QED
  BY <1>1, Invariance, PTL

-----------------------------------------------------------------------------
(* The rest of the types. *)

\* The record threads that have read and not yet queued; each of them may add to
\* a queue that was not full when it read.
Adders == {t \in Talks : rec[t] = "add"}
Room == Len(audioQueue) + Cardinality(Adders) <= MaxQueue + MaxTalks

\* The fields that are true or false, and those the application sets.
Flags ==
    /\ isDestroy \in BOOLEAN /\ isRecord \in BOOLEAN /\ isStartRecord \in BOOLEAN
    /\ isSendAudio \in BOOLEAN /\ crashed \in BOOLEAN
Setting == app \in Apps /\ mCurrentIndex \in Indexes /\ calls \subseteq Indexes

\* A sender has a packet only where it sends it, and a talk that was not begun has
\* no sender.
Taken == \A t \in Talks : pkt[t] = <<>> \/ (snd[t] = "send" /\ pkt[t][1] \in Packets)
Paired == \A t \in Talks : rec[t] = "none" => snd[t] = "none"

\* The record threads can be counted, and there are no more than talks.
LEMMA AddersFinite ==
    ASSUME NEW S \in SUBSET Talks
    PROVE  IsFiniteSet(S) /\ Cardinality(S) \in 0 .. MaxTalks
<1>1. MaxTalks \in Nat /\ IsFiniteSet(Talks) /\ Cardinality(Talks) = MaxTalks
  <2>1. MaxTalks \in Nat /\ 1 \in Int
    BY VoiceAssumption
  <2>2. IsFiniteSet(1 .. MaxTalks) /\ Cardinality(1 .. MaxTalks) = (IF 1 > MaxTalks THEN 0 ELSE MaxTalks - 1 + 1)
    BY <2>1, FS_Interval
  <2>. QED
    BY <2>1, <2>2 DEF Talks
<1>2. IsFiniteSet(S) /\ Cardinality(S) <= Cardinality(Talks)
  BY <1>1, FS_Subset, ZenonT(30)
<1>3. Cardinality(S) \in Nat
  BY <1>2, FS_CardinalityType
<1>. QED
  BY <1>1, <1>2, <1>3

\* recordThread reads only when the queue has room, so however many talks overlap
\* each of them adds at most one packet too many.
LEMMA RoomStep ==
    ASSUME Types, Room, Next
    PROVE  Room'
<1>0. /\ rec \in [Talks -> RecSteps] /\ audioQueue \in Seq(Packets) /\ Len(audioQueue) \in Nat
      /\ MaxQueue \in Nat /\ MaxTalks \in Nat
      /\ Adders \in SUBSET Talks /\ Cardinality(Adders) \in 0 .. MaxTalks
  <2>1. Adders \in SUBSET Talks
    BY DEF Adders
  <2>. QED
    BY <2>1, VoiceAssumption, AddersFinite DEF Types
<1>1. ASSUME Adders' = Adders, audioQueue' = audioQueue \/ audioQueue' = <<>> \/ (audioQueue # <<>> /\ audioQueue' = Tail(audioQueue))
      PROVE  Room'
  <2>1. Len(audioQueue') <= Len(audioQueue) /\ Len(audioQueue') \in Nat
    BY <1>0, <1>1
  <2>. QED
    BY <1>0, <1>1, <2>1 DEF Room
<1>2. ASSUME UI PROVE Room'
  <2>1. audioQueue' = audioQueue
    BY <1>2, ZenonT(30) DEF UI, StartTalking, SetTalkChannel, EndTalking, StopRecorder, DropRecorder
  <2>2. rec' = rec \/ StartTalking
    BY <1>2, ZenonT(30) DEF UI, SetTalkChannel, EndTalking, StopRecorder, DropRecorder, threads
  <2>3. ASSUME StartTalking PROVE Adders' = Adders
    BY <1>0, <2>3 DEF StartTalking, Adders
  <2>4. Adders' = Adders
    BY <2>2, <2>3 DEF Adders
  <2>. QED
    BY <1>1, <2>1, <2>4
<1>3. ASSUME NEW t \in Talks, Transmit(t) PROVE Room'
  <2>1. rec' = rec
    BY <1>3, ZenonT(30) DEF Transmit, CallDevice, BeginSend, Poll, SendPacket, CheckLast, ExitSend, HandUp, ClearSent, SndKeeps
  <2>2. audioQueue' = audioQueue \/ audioQueue' = <<>> \/ (audioQueue # <<>> /\ audioQueue' = Tail(audioQueue))
    BY <1>3, ZenonT(30) DEF Transmit, CallDevice, BeginSend, Poll, SendPacket, CheckLast, ExitSend, HandUp, ClearSent
  <2>3. Adders' = Adders
    BY <2>1 DEF Adders
  <2>. QED
    BY <1>1, <2>2, <2>3
<1>4. ASSUME NEW t \in Talks, BeginRecord(t) \/ HaveRecorder(t) \/ initRecorder(t) \/ StartRecording(t)
                              \/ ClearOld(t) \/ CheckRecord(t) \/ ReadNull(t)
      PROVE  Room'
  <2>1. audioQueue' = audioQueue \/ audioQueue' = <<>>
    BY <1>4, ZenonT(30) DEF BeginRecord, HaveRecorder, initRecorder, StartRecording, ClearOld, CheckRecord, ReadNull
  <2>2. \/ rec' = rec
        \/ \E to \in RecSteps \ {"add"} : rec[t] # "add" /\ rec' = [rec EXCEPT ![t] = to]
    BY <1>4 DEF BeginRecord, HaveRecorder, initRecorder, StartRecording, ClearOld, CheckRecord, ReadNull, RecGoes, RecSteps, threads
  <2>3. Adders' = Adders
    BY <1>0, <2>2 DEF Adders
  <2>. QED
    BY <1>1, <2>1, <2>3
<1>5. ASSUME NEW t \in Talks, Read(t) PROVE Room'
  <2>1. audioQueue' = audioQueue
    BY <1>5 DEF Read
  <2>2. CASE RecGoes(t, "read", "check")
    <3>1. Adders' = Adders
      BY <1>0, <2>2 DEF Adders, RecGoes
    <3>. QED
      BY <1>1, <2>1, <3>1
  <2>3. CASE RecGoes(t, "read", "add") /\ Len(audioQueue) < MaxQueue
    <3>1. Adders' \in SUBSET Talks
      BY DEF Adders
    <3>2. Cardinality(Adders') \in 0 .. MaxTalks
      BY <3>1, AddersFinite
    <3>. QED
      BY <1>0, <2>1, <2>3, <3>2 DEF Room
  <2>. QED
    BY <1>5, <2>2, <2>3 DEF Read
<1>6. ASSUME NEW t \in Talks, Add(t) PROVE Room'
  <2>1. rec[t] = "add" /\ rec' = [rec EXCEPT ![t] = "check"]
    BY <1>6 DEF Add, RecGoes
  <2>2. t \in Adders /\ Adders' = Adders \ {t}
    BY <1>0, <2>1 DEF Adders
  <2>3. Cardinality(Adders') = Cardinality(Adders) - 1
    BY <1>0, <2>2, AddersFinite, FS_RemoveElement
  <2>4. Len(audioQueue') = Len(audioQueue) + 1
    BY <1>0, <1>6 DEF Add
  <2>. QED
    BY <1>0, <2>3, <2>4 DEF Room
<1>. QED
  BY <1>2, <1>3, <1>4, <1>5, <1>6 DEF Next, Record

\* No step leaves the flags out of their type.
LEMMA FlagsStep ==
    ASSUME Flags, Next
    PROVE  Flags'
<1>1. ASSUME StartTalking \/ SetTalkChannel \/ EndTalking \/ StopRecorder PROVE Flags'
  BY <1>1, ZenonT(30) DEF Flags, StartTalking, SetTalkChannel, EndTalking, StopRecorder, fields
<1>2. ASSUME DropRecorder PROVE Flags'
  BY <1>2, ZenonT(30) DEF Flags, DropRecorder
<1>3. ASSUME NEW t \in Talks, Transmit(t) PROVE Flags'
  BY <1>3, ZenonT(30) DEF Flags, Transmit, CallDevice, BeginSend, Poll, SendPacket, CheckLast, ExitSend, HandUp, ClearSent, SndKeeps
<1>4. ASSUME NEW t \in Talks, Record(t) PROVE Flags'
  BY <1>4, ZenonT(30) DEF Flags, Record, BeginRecord, HaveRecorder, initRecorder, StartRecording,
     ClearOld, CheckRecord, ReadNull, Read, Add, RecKeeps, fields
<1>. QED
  BY <1>1, <1>2, <1>3, <1>4 DEF Next, UI

\* setTalkChannel takes an index of a device, and a call is on the device talked to.
LEMMA SettingStep ==
    ASSUME Setting, Next
    PROVE  Setting'
<1>1. ASSUME UI PROVE Setting'
  BY <1>1, ZenonT(30) DEF Setting, UI, StartTalking, SetTalkChannel, EndTalking, StopRecorder, DropRecorder, fields
<1>2. ASSUME NEW t \in Talks, Record(t) PROVE Setting'
  BY <1>2, ZenonT(30) DEF Setting, Record, BeginRecord, HaveRecorder, initRecorder, StartRecording,
     ClearOld, CheckRecord, ReadNull, Read, Add, RecKeeps, fields
<1>3. ASSUME NEW t \in Talks, Transmit(t) PROVE Setting'
  <2>1. app' = app /\ mCurrentIndex' = mCurrentIndex
    BY <1>3, ZenonT(30) DEF Transmit, CallDevice, BeginSend, Poll, SendPacket, CheckLast, ExitSend, HandUp, ClearSent, SndKeeps
  <2>2. calls' \in {calls, calls \cup {mCurrentIndex}, calls \ {mCurrentIndex}}
    BY <1>3, ZenonT(30) DEF Transmit, CallDevice, BeginSend, Poll, SendPacket, CheckLast, ExitSend, HandUp, ClearSent
  <2>. QED
    BY <2>1, <2>2 DEF Setting
<1>. QED
  BY <1>1, <1>2, <1>3 DEF Next

\* A sender takes a packet off the queue as it goes to send it, and lets go of it
\* as it leaves.
LEMMA TakenStep ==
    ASSUME Types, Taken, Paired, Next
    PROVE  Taken'
<1>1. ASSUME UI PROVE Taken'
  <2>1. pkt' = pkt
    BY <1>1, ZenonT(30) DEF UI, StartTalking, SetTalkChannel, EndTalking, StopRecorder, DropRecorder, threads
  <2>2. snd' = snd \/ StartTalking
    BY <1>1, ZenonT(30) DEF UI, SetTalkChannel, EndTalking, StopRecorder, DropRecorder, threads
  <2>3. \A t \in Talks : snd[t] = "send" => snd'[t] = "send"
    <3>1. ASSUME NEW t \in Talks, snd[t] = "send", StartTalking PROVE snd'[t] = "send"
      <4>1. PICK u \in Talks : rec[u] = "none" /\ snd' = [snd EXCEPT ![u] = "ready"]
        BY <3>1, ZenonT(30) DEF StartTalking
      <4>2. u # t
        BY <3>1, <4>1 DEF Paired
      <4>. QED
        BY <3>1, <4>1, <4>2 DEF Types
    <3>. QED
      BY <2>2, <3>1
  <2>. QED
    BY <2>1, <2>3 DEF Taken
<1>2. ASSUME NEW t \in Talks, Record(t) PROVE Taken'
  <2>1. UNCHANGED <<snd, pkt>>
    BY <1>2, ZenonT(30) DEF Record, BeginRecord, HaveRecorder, initRecorder, StartRecording,
       ClearOld, CheckRecord, ReadNull, Read, Add, RecKeeps, threads
  <2>. QED
    BY <2>1 DEF Taken
<1>3. ASSUME NEW t \in Talks, Transmit(t) PROVE Taken'
  <2>0. snd \in [Talks -> SndSteps] /\ pkt \in [Talks -> Seq(Packets)] /\ audioQueue \in Seq(Packets)
    BY DEF Types
  <2>1. CASE Poll(t) /\ pkt' # pkt
    <3>1. /\ audioQueue # <<>> /\ pkt' = [pkt EXCEPT ![t] = <<Head(audioQueue)>>]
          /\ snd' = [snd EXCEPT ![t] = "send"]
      BY <2>1 DEF Poll, SndGoes
    <3>2. Head(audioQueue) \in Packets
      BY <2>0, <3>1, QueueFacts
    <3>3. pkt'[t][1] \in Packets /\ snd'[t] = "send"
      BY <2>0, <3>1, <3>2
    <3>4. \A u \in Talks \ {t} : pkt'[u] = pkt[u] /\ snd'[u] = snd[u]
      BY <2>0, <3>1
    <3>. QED
      BY <3>3, <3>4 DEF Taken
  <2>2. CASE SendPacket(t)
    <3>1. pkt' = [pkt EXCEPT ![t] = <<>>] /\ snd' = [snd EXCEPT ![t] = "last"]
      BY <2>2 DEF SendPacket, SndGoes
    <3>. QED
      BY <2>0, <3>1 DEF Taken
  <2>3. CASE ~SendPacket(t) /\ pkt' = pkt
    <3>1. snd[t] # "send" /\ \E to : snd' = [snd EXCEPT ![t] = to]
      BY <1>3, <2>3 DEF Transmit, CallDevice, BeginSend, Poll, CheckLast, ExitSend, HandUp, ClearSent, SndGoes
    <3>. QED
      BY <2>0, <2>3, <3>1 DEF Taken
  <2>. QED
    BY <1>3, <2>1, <2>2, <2>3 DEF Transmit, CallDevice, BeginSend, CheckLast, ExitSend, HandUp, ClearSent
<1>. QED
  BY <1>1, <1>2, <1>3 DEF Next

\* StartTalking starts both threads of a talk, and no thread goes back.
LEMMA PairedStep ==
    ASSUME Types, Paired, Next
    PROVE  Paired'
<1>0. rec \in [Talks -> RecSteps] /\ snd \in [Talks -> SndSteps]
  BY DEF Types
<1>1. ASSUME UI PROVE Paired'
  <2>1. UNCHANGED <<rec, snd>> \/ StartTalking
    BY <1>1, ZenonT(30) DEF UI, SetTalkChannel, EndTalking, StopRecorder, DropRecorder, threads
  <2>2. ASSUME StartTalking PROVE Paired'
    <3>1. PICK u \in Talks : rec' = [rec EXCEPT ![u] = "ready"] /\ snd' = [snd EXCEPT ![u] = "ready"]
      BY <2>2, ZenonT(30) DEF StartTalking
    <3>. QED
      BY <1>0, <3>1 DEF Paired
  <2>. QED
    BY <2>1, <2>2 DEF Paired
<1>2. ASSUME NEW t \in Talks, Record(t) PROVE Paired'
  <2>1. snd' = snd
    BY <1>2, ZenonT(30) DEF Record, BeginRecord, HaveRecorder, initRecorder, StartRecording,
       ClearOld, CheckRecord, ReadNull, Read, Add, RecKeeps, threads
  <2>2. rec' = rec \/ \E to \in RecSteps \ {"none"} : rec' = [rec EXCEPT ![t] = to]
    BY <1>2, ZenonT(30) DEF Record, BeginRecord, HaveRecorder, initRecorder, StartRecording,
       ClearOld, CheckRecord, ReadNull, Read, Add, RecGoes, RecSteps, threads
  <2>. QED
    BY <1>0, <2>1, <2>2 DEF Paired
<1>3. ASSUME NEW t \in Talks, Transmit(t) PROVE Paired'
  <2>1. rec' = rec
    BY <1>3, ZenonT(30) DEF Transmit, CallDevice, BeginSend, Poll, SendPacket, CheckLast, ExitSend, HandUp, ClearSent, SndKeeps
  <2>2. snd[t] # "none" /\ \E to : snd' = [snd EXCEPT ![t] = to]
    BY <1>3 DEF Transmit, CallDevice, BeginSend, Poll, SendPacket, CheckLast, ExitSend, HandUp, ClearSent, SndGoes
  <2>. QED
    BY <1>0, <2>1, <2>2 DEF Paired
<1>. QED
  BY <1>1, <1>2, <1>3 DEF Next

\* The fields of the intercom hold values of their types, a sender holds a packet
\* only while it sends, and the queue outgrows its bound by no more than one packet
\* for each talk, however the talks overlap.
THEOREM TypeCorrect == Spec => []TypeOK
<1>1. Init => Room /\ Flags /\ Setting /\ Taken /\ Paired
  <2>. SUFFICES ASSUME Init PROVE Room /\ Flags /\ Setting /\ Taken /\ Paired
    OBVIOUS
  <2>1. Room
    <3>1. Adders = {} /\ Len(audioQueue) = 0
      BY DEF Init, Adders
    <3>2. Cardinality(Adders) = 0
      BY <3>1, FS_EmptySet
    <3>. QED
      BY <3>1, <3>2, VoiceAssumption DEF Room
  <2>2. Flags /\ Setting
    BY ZenonT(30) DEF Init, Flags, Setting
  <2>3. Taken /\ Paired
    BY DEF Init, Taken, Paired
  <2>. QED
    BY <2>1, <2>2, <2>3
<1>2. ASSUME IInv, Room, Flags, Setting, Taken, Paired, [Next]_vars
      PROVE  Room' /\ Flags' /\ Setting' /\ Taken' /\ Paired'
  <2>1. CASE Next
    BY <1>2, <2>1, RoomStep, FlagsStep, SettingStep, TakenStep, PairedStep, ZenonT(30) DEF IInv
  <2>2. CASE UNCHANGED vars
    <3>1. Adders' = Adders /\ audioQueue' = audioQueue
      BY <2>2 DEF vars, Adders, threads, fields
    <3>2. Room'
      BY <1>2, <3>1 DEF Room
    <3>3. Flags' /\ Setting' /\ Taken' /\ Paired'
      BY <1>2, <2>2, ZenonT(30) DEF vars, Flags, Setting, Taken, Paired, threads, fields
    <3>. QED
      BY <3>2, <3>3
  <2>. QED
    BY <1>2, <2>1, <2>2
<1>3. ASSUME IInv, Room, Flags, Setting, Taken, Paired PROVE TypeOK
  <2>1. Len(audioQueue) <= MaxQueue + MaxTalks
    <3>1. Adders \in SUBSET Talks
      BY DEF Adders
    <3>2. Cardinality(Adders) \in Nat /\ Len(audioQueue) \in Nat
      BY <1>3, <3>1, AddersFinite, VoiceAssumption DEF IInv, Types
    <3>. QED
      BY <1>3, <3>2, VoiceAssumption DEF Room
  <2>. QED
    BY <1>3, <2>1, ZenonT(30) DEF IInv, Types, Flags, Setting, Taken, TypeOK
<1>. QED
  BY <1>1, <1>2, <1>3, Invariance, PTL DEF Spec
=============================================================================
