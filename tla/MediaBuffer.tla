---------------------------- MODULE MediaBuffer ----------------------------
(***************************************************************************)
(* The frame ring of gles/Utils/mediabuffer.c.  One thread (the network    *)
(* callback) writes frames, every reader slot is polled by a decoder, and  *)
(* other threads reset the pointers.  The body of each operation runs      *)
(* under p->_mutex and is one action here; the emptiness test of           *)
(* ReadBuffer runs before the lock and is an action of its own.  What      *)
(* happens when the mutex itself fails is the subject of MediaBufferLock.  *)
(*                                                                         *)
(* Memory is abstracted to the set of headers a reader can still           *)
(* recognise: a header is lost as soon as one of its bytes is overwritten, *)
(* and payload bytes are never taken for the magic number 0xffefface.      *)
(***************************************************************************)
EXTENDS Integers, FiniteSets

CONSTANTS
  BufSize,     \* _bufsize: bytes in the ring (3096000 in JAConnect)
  HdrSize,     \* sizeof(_BUFHDR)
  NSlots,      \* reader slots (16 in the code)
  Sizes,       \* payload sizes the network delivers
  ReadSize,    \* *pReadsize: the largest payload the decoder accepts
  Gop,         \* the camera sends a key frame at least every Gop frames
  MaxWrites,   \* bound on the frames written
  MaxResets,   \* bound on the resets
  MaxReads     \* bound on a reader's _readcount

ASSUME BufferAssumption ==
  /\ BufSize \in Nat /\ BufSize % 4 = 0 /\ HdrSize \in Nat \ {0} /\ HdrSize % 4 = 0
  /\ NSlots \in Nat \ {0}
  /\ Sizes \subseteq Nat
  /\ \A s \in Sizes : HdrSize + s <= BufSize
  /\ ReadSize \in Nat /\ Gop \in Nat \ {0}
  /\ MaxWrites \in Nat /\ MaxResets \in Nat /\ MaxReads \in Nat

\* MB_FT_*.  The ring only tells key frames from the rest, so PFRAME also
\* stands for MB_FT_AUDIO.
IFRAME == 1
PFRAME == 2
FrameTypes == {IFRAME, PFRAME}

Slots == 0 .. NSlots - 1

VARIABLES
  ring,           \* headers in _buf with the magic number intact
  writepos, lastwritepos, writecount,
  readpos, readcount, overwriteread, isuse,
  pc,             \* where each reader is inside ReadBuffer
  hung,           \* a reader loops forever in ReadBuffer, holding the mutex
  written,        \* history: frames written since InitMediaBuffer
  resets,         \* history: number of resets
  got,            \* history: number of the last frame each reader received
  sinceKey        \* camera: frames sent since its last key frame

bufVars == <<ring, writepos, lastwritepos, writecount>>
rdVars  == <<readpos, readcount, overwriteread, isuse, pc, got>>
vars    == <<bufVars, rdVars, hung, written, resets, sinceKey>>

-----------------------------------------------------------------------------
\* (pSize/4+1)*4 when pSize is not a multiple of 4.
Pad(n) == IF n % 4 # 0 THEN (n \div 4 + 1) * 4 ELSE n

HasHdr(p) == \E f \in ring : f.pos = p
At(p)     == CHOOSE f \in ring : f.pos = p

\* Mutant of StartPos: wraps by subtracting the size of the ring.
StartPosWrapsBack(w, s) == IF w + HdrSize + s > BufSize THEN w - BufSize ELSE w

\* A frame that does not fit before the end of the ring starts at 0.  The
\* test uses the unpadded size.
StartPos(w, s) == IF w + HdrSize + s > BufSize THEN 0 ELSE w

\* The headers of which a write of n bytes at w destroys at least one byte.
Clobbered(w, n) == {f \in ring : f.pos < w + n /\ f.pos + HdrSize > w}

\* The test that tells reader i its next frame is about to be overwritten; it
\* looks at the write position before it wraps.
Overtakes(i, s) == writepos < readpos[i] /\ writepos + HdrSize + s > readpos[i]

\* Mutants of NewFrame: _nextpos forgets the header; _prevpos is the position of
\* the frame itself.
NewFrameNoHdr(w, s, t) ==
  [pos |-> w, id |-> written + 1, type |-> t, len |-> Pad(s),
   prev |-> lastwritepos, next |-> w + Pad(s)]
NewFrameOwnPrev(w, s, t) ==
  [pos |-> w, id |-> written + 1, type |-> t, len |-> Pad(s),
   prev |-> w, next |-> w + HdrSize + Pad(s)]

NewFrame(w, s, t) ==
  [pos |-> w, id |-> written + 1, type |-> t, len |-> Pad(s),
   prev |-> lastwritepos, next |-> w + HdrSize + Pad(s)]

-----------------------------------------------------------------------------
(* The backward search for a key frame: from _lastwritepos along _prevpos. *)

\* Where the search stands after k steps; -1 once it has read a _prevpos from
\* bytes that are not a header.
WalkPos[k \in Nat] ==
  IF k = 0 THEN lastwritepos
  ELSE LET p == WalkPos[k - 1]
       IN  IF HasHdr(p) THEN At(p).prev ELSE -1

IsKeyAt(p) == HasHdr(p) /\ At(p).type = IFRAME
IsEndAt(p) == p = 0 /\ HasHdr(p) /\ At(p).type # IFRAME /\ At(p).prev = 0

\* The steps at which the search can leave its loop; one that does not do so
\* within the number of headers there are has entered a cycle.
Halts(k)  == IsKeyAt(WalkPos[k]) \/ IsEndAt(WalkPos[k]) \/ ~HasHdr(WalkPos[k])
HaltSteps == {k \in 0 .. Cardinality(ring) : Halts(k)}
HaltStep  == CHOOSE k \in HaltSteps : \A j \in HaltSteps : k <= j

WalkLoops  == HaltSteps = {}
WalkFinds  == ~WalkLoops /\ IsKeyAt(WalkPos[HaltStep])
WalkEnds   == ~WalkLoops /\ IsEndAt(WalkPos[HaltStep])
WalkStrays == ~WalkLoops /\ ~HasHdr(WalkPos[HaltStep])

-----------------------------------------------------------------------------
\* InitMediaBuffer followed by the GetReadIndex of the JAConnect constructor.
Init ==
  /\ ring = {}
  /\ writepos = 0 /\ lastwritepos = 0 /\ writecount = 0
  /\ readpos = [i \in Slots |-> 0]
  /\ readcount = [i \in Slots |-> 0]
  /\ overwriteread = [i \in Slots |-> i = 0]
  /\ isuse = [i \in Slots |-> i = 0]
  /\ pc = [i \in Slots |-> "idle"]
  /\ hung = FALSE
  /\ written = 0 /\ resets = 0
  /\ got = [i \in Slots |-> 0]
  /\ sinceKey \in 0 .. Gop - 1

\* The first free slot; its _readpos is left from its previous owner.
GetReadIndex ==
  \E i \in Slots :
    /\ ~isuse[i] /\ \A j \in Slots : j < i => isuse[j]
    /\ isuse' = [isuse EXCEPT ![i] = TRUE]
    /\ overwriteread' = [overwriteread EXCEPT ![i] = TRUE]
    /\ got' = [got EXCEPT ![i] = 0]
    /\ UNCHANGED <<bufVars, readpos, readcount, pc, hung, written, resets, sinceKey>>

ReleaseReader(i) ==
  /\ isuse[i] /\ pc[i] = "idle"
  /\ isuse' = [isuse EXCEPT ![i] = FALSE]
  /\ UNCHANGED <<bufVars, readpos, readcount, overwriteread, pc, got, hung, written, resets, sinceKey>>

WrtieBuffer(s, t) ==
  LET w == StartPos(writepos, s)
      f == NewFrame(w, s, t)
  IN  /\ ~hung
      /\ overwriteread' = [i \in Slots |-> overwriteread[i] \/ Overtakes(i, s)]
      /\ ring' = (ring \ Clobbered(w, HdrSize + s)) \cup {f}
      /\ lastwritepos' = w
      /\ writecount' = writecount + 1
      /\ writepos' = f.next
      /\ written' = written + 1
      /\ UNCHANGED <<readpos, readcount, isuse, pc, got, hung, resets>>

\* The network callback: the camera interleaves audio with a video stream
\* whose key frames are never more than Gop frames apart.
Receive ==
  \E s \in Sizes, t \in FrameTypes :
    /\ written < MaxWrites
    /\ sinceKey >= Gop - 1 => t = IFRAME
    /\ sinceKey' = IF t = IFRAME THEN 0 ELSE sinceKey + 1
    /\ WrtieBuffer(s, t)

\* memset of everything but _buf, _bufsize, _isuse and the mutex.  The bytes of
\* the ring, stale headers included, stay where they are.
ResetMediaBuffer ==
  /\ ~hung /\ resets < MaxResets
  /\ writepos' = 0 /\ lastwritepos' = 0 /\ writecount' = 0
  /\ readpos' = [i \in Slots |-> 0]
  /\ readcount' = [i \in Slots |-> 0]
  /\ overwriteread' = [i \in Slots |-> FALSE]
  /\ resets' = resets + 1
  /\ UNCHANGED <<ring, isuse, pc, got, hung, written, sinceKey>>

\* ReadBuffer up to the lock: the emptiness test.
ReadCheck(i) ==
  /\ isuse[i] /\ pc[i] = "idle" /\ readcount[i] < MaxReads
  /\ readpos[i] # writepos          \* otherwise MB_NO_BUFFER
  /\ pc' = [pc EXCEPT ![i] = "checked"]
  /\ UNCHANGED <<bufVars, readpos, readcount, overwriteread, isuse, got, hung, written, resets, sinceKey>>

\* The header ReadBuffer uses once it stands at p: without the magic number it
\* falls back to the header at 0.
HeaderFrom(p) == IF HasHdr(p) THEN At(p) ELSE At(0)

\* The tail of ReadBuffer: MB_TOO_SMALL leaves _readpos alone.
Deliver(i, f, count) ==
  IF ReadSize < f.len
  THEN /\ readcount' = [readcount EXCEPT ![i] = count]
       /\ UNCHANGED <<readpos, got>>
  ELSE /\ readcount' = [readcount EXCEPT ![i] = count + 1]
       /\ readpos' = [readpos EXCEPT ![i] = f.next]
       /\ got' = [got EXCEPT ![i] = f.id]

\* ReadBuffer under the lock, reader not overtaken.
ReadNext(i) ==
  /\ pc[i] = "checked" /\ ~hung /\ ~overwriteread[i]
  /\ Deliver(i, HeaderFrom(readpos[i]), readcount[i])
  /\ pc' = [pc EXCEPT ![i] = "idle"]
  /\ UNCHANGED <<bufVars, overwriteread, isuse, hung, written, resets, sinceKey>>

\* Mutant of ReadResync: the overwritten mark is not cleared.
ReadResyncKeepsMark(i) ==
  /\ pc[i] = "checked" /\ ~hung /\ overwriteread[i] /\ WalkFinds
  /\ Deliver(i, At(WalkPos[HaltStep]), writecount - 1 - HaltStep)
  /\ pc' = [pc EXCEPT ![i] = "idle"]
  /\ UNCHANGED <<bufVars, overwriteread, isuse, hung, written, resets, sinceKey>>

\* Reader overtaken, key frame found: reading restarts there.
ReadResync(i) ==
  /\ pc[i] = "checked" /\ ~hung /\ overwriteread[i] /\ WalkFinds
  /\ overwriteread' = [overwriteread EXCEPT ![i] = FALSE]
  /\ Deliver(i, At(WalkPos[HaltStep]), writecount - 1 - HaltStep)
  /\ pc' = [pc EXCEPT ![i] = "idle"]
  /\ UNCHANGED <<bufVars, isuse, hung, written, resets, sinceKey>>

\* Reader overtaken, the search reaches the first frame: MB_NO_BUFFER.
ReadNoKey(i) ==
  /\ pc[i] = "checked" /\ ~hung /\ overwriteread[i] /\ WalkEnds
  /\ readcount' = [readcount EXCEPT ![i] = writecount - 1 - HaltStep]
  /\ pc' = [pc EXCEPT ![i] = "idle"]
  /\ UNCHANGED <<bufVars, readpos, overwriteread, isuse, got, hung, written, resets, sinceKey>>

\* Reader overtaken, the search follows a _prevpos into overwritten bytes.  What
\* it reads there is arbitrary: it may stop without a key frame, hit one by
\* accident, or never stop.
ReadStray(i) ==
  /\ pc[i] = "checked" /\ ~hung /\ overwriteread[i] /\ WalkStrays
  /\ UNCHANGED <<bufVars, isuse, written, resets, sinceKey>>
  /\ \E k \in HaltStep .. HaltStep + 1 :
       \/ /\ readcount' = [readcount EXCEPT ![i] = writecount - 1 - k]
          /\ pc' = [pc EXCEPT ![i] = "idle"]
          /\ UNCHANGED <<readpos, overwriteread, got, hung>>
       \/ \E f \in ring :
            /\ f.type = IFRAME
            /\ overwriteread' = [overwriteread EXCEPT ![i] = FALSE]
            /\ Deliver(i, f, writecount - 1 - k)
            /\ pc' = [pc EXCEPT ![i] = "idle"]
            /\ UNCHANGED hung
       \/ /\ hung' = TRUE
          /\ UNCHANGED <<readpos, readcount, overwriteread, pc, got>>

\* Reader overtaken, the headers form a cycle without a key frame: the loop
\* never ends and the mutex is never released.
ReadHang(i) ==
  /\ pc[i] = "checked" /\ ~hung /\ overwriteread[i] /\ WalkLoops
  /\ hung' = TRUE
  /\ UNCHANGED <<bufVars, rdVars, written, resets, sinceKey>>

ReadBuffer(i) ==
  ReadCheck(i) \/ ReadNext(i) \/ ReadResync(i) \/ ReadNoKey(i) \/ ReadStray(i) \/ ReadHang(i)

Next ==
  \/ Receive \/ ResetMediaBuffer \/ GetReadIndex
  \/ \E i \in Slots : ReadBuffer(i) \/ ReleaseReader(i)

Spec == Init /\ [][Next]_vars

-----------------------------------------------------------------------------
Frames == [pos : Nat, id : Nat, type : FrameTypes, len : Nat, prev : Nat, next : Nat]

TypeOK ==
  /\ ring \subseteq Frames
  /\ writepos \in Nat /\ lastwritepos \in Nat /\ writecount \in Nat
  /\ readpos \in [Slots -> Nat] /\ readcount \in [Slots -> Int]
  /\ overwriteread \in [Slots -> BOOLEAN] /\ isuse \in [Slots -> BOOLEAN]
  /\ pc \in [Slots -> {"idle", "checked"}]
  /\ hung \in BOOLEAN
  /\ written \in Nat /\ resets \in Nat /\ got \in [Slots -> Nat]
  /\ sinceKey \in 0 .. Gop - 1

\* Every header a reader can find heads an intact payload: frames whose header
\* survives lie inside the ring and share no byte, across any number of laps
\* and resets.  WrtieBuffer keeps no free list; this rests on its wrap test,
\* its padding and its write position alone.
FramesIntact ==
  \A f, g \in ring :
    /\ f.pos + HdrSize + f.len <= BufSize
    /\ f.pos = g.pos => f = g
    /\ f.pos < g.pos => f.pos + HdrSize + f.len <= g.pos

\* The newest frames that survive without a gap, since the last reset.
Suffix == {f \in ring : /\ f.id > written - writecount
                       /\ \A n \in f.id .. written : \E g \in ring : g.id = n}
Keys(S) == {f \in S : f.type = IFRAME}

\* The pointer search of ReadBuffer agrees with its purpose: when an unbroken
\* run of surviving frames leads from the newest frame back to a key frame,
\* the search stops at the newest such key frame, after as many steps as there
\* are frames written after it (the number it subtracts from _readcount).
ResyncFindsNewestKey ==
  (writecount > 0 /\ Keys(Suffix) # {}) =>
     /\ WalkFinds
     /\ At(WalkPos[HaltStep]) \in Suffix
     /\ At(WalkPos[HaltStep]).id = written - HaltStep
     /\ \A f \in Keys(Suffix) : f.id <= At(WalkPos[HaltStep]).id

\* A reader never receives a frame for the second time, nor one older than it
\* already has, except from what is left of an earlier lap at or past the
\* write position.  (That exception is real: ReadBuffer accepts a stale header
\* that happens to start where the writer wrapped, and after a reset that
\* overtakes its emptiness test it replays the old ring.)
DeliveryAdvances ==
  \A i \in Slots :
    pc[i] = "checked" =>
      /\ ~overwriteread[i] =>
           LET f == HeaderFrom(readpos[i]) IN f.id > got[i] \/ f.pos >= writepos
      /\ (overwriteread[i] /\ WalkFinds) => At(WalkPos[HaltStep]).id > got[i]
=============================================================================
