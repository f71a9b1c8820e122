------------------------- MODULE MediaBufferProofs -------------------------
(***************************************************************************)
(* The frame ring of MediaBuffer for every size of the ring, of its headers *)
(* and of the frames: the types, the integrity of the frames, the order in  *)
(* which readers receive them and the search for a key frame.               *)
(***************************************************************************)
EXTENDS MediaBuffer, FiniteSetTheorems, WellFoundedInduction, TLAPS

\* A leaf that names no prover is tried with the SMT solver, a second time when its
\* translation does not finish, and then with Zenon.
USE SMTT(30), Z3T(30), ZenonT(30)

\* Where frames may lie: positions and lengths are multiples of 4, and no frame
\* whose header survives reaches across the write position.
Geometry ==
  /\ IsFiniteSet(ring)
  /\ writepos % 4 = 0 /\ (writepos = 0 \/ writepos >= HdrSize)
  /\ \A f \in ring :
       /\ f.pos % 4 = 0 /\ f.len % 4 = 0
       /\ f.next = f.pos + HdrSize + f.len
       /\ f.next <= BufSize
       /\ f.next <= writepos \/ f.pos >= writepos

\* The header at 0, the one ReadBuffer falls back to, exists whenever a reader
\* gets past the emptiness test.
FirstHeader ==
  /\ written = 0 => writepos = 0 /\ \A i \in Slots : readpos[i] = 0
  /\ written > 0 => HasHdr(0)
  /\ \A i \in Slots : pc[i] = "checked" => written > 0

IInv == TypeOK /\ Geometry /\ FramesIntact /\ FirstHeader

-----------------------------------------------------------------------------
\* Padding rounds up to the next multiple of 4.
LEMMA PadUp ==
  ASSUME NEW n \in Nat
  PROVE  Pad(n) \in Nat /\ Pad(n) % 4 = 0 /\ n <= Pad(n) /\ Pad(n) <= n + 3
BY DEF Pad

\* A multiple of 4 that bounds n bounds n padded: the reason why the wrap test
\* of WrtieBuffer may use the unpadded size.
LEMMA PadBound ==
  ASSUME NEW n \in Nat, NEW a \in Int, NEW b \in Int,
         a % 4 = 0, b % 4 = 0, a + n <= b
  PROVE  a + Pad(n) <= b
<1>1. Pad(n) \in Nat /\ Pad(n) % 4 = 0 /\ n <= Pad(n) /\ Pad(n) <= n + 3
  BY PadUp
<1>2. \A x \in Int : x % 4 = 0 => \E q \in Int : x = 4 * q
  OBVIOUS
<1>3. PICK q \in Int, r \in Int, t \in Int : a = 4 * q /\ b = 4 * r /\ Pad(n) = 4 * t
  BY <1>1, <1>2
<1> QED
  BY <1>1, <1>3

\* The header found at a position with one is there.
LEMMA AtInRing ==
  ASSUME NEW p, HasHdr(p)
  PROVE  At(p) \in ring /\ At(p).pos = p
BY DEF HasHdr, At

\* A non-empty set of natural numbers has a least element.
LEMMA LeastNat ==
  ASSUME NEW S, S \subseteq Nat, S # {}
  PROVE  \E k \in S : \A j \in S : k <= j
<1>1. \A j, m \in Nat : j < m => <<j, m>> \in OpToRel(<, Nat)
  BY DEF OpToRel
<1>2. PICK R : IsWellFoundedOn(R, Nat) /\ \A j, m \in Nat : j < m => <<j, m>> \in R
  BY <1>1, NatLessThanWellFounded, ZenonT(30)
<1>3. PICK k \in S : \A j \in S : ~(<<j, k>> \in R)
  <2>1. IsWellFoundedOn(R, Nat)
    BY <1>2
  <2>2. \E x \in S : \A y \in S : ~(<<y, x>> \in R)
    BY <2>1, WFMin, ZenonT(30)
  <2> QED
    BY <2>2
<1>4. \A j \in S : ~(j < k)
  BY <1>2, <1>3, ZenonT(30)
<1> QED
  BY <1>4

\* A search that does not loop stops after a number of steps.
LEMMA HaltStepNat ==
  ASSUME IsFiniteSet(ring), ~WalkLoops
  PROVE  HaltStep \in HaltSteps /\ HaltStep \in Nat
<1>1. Cardinality(ring) \in Nat
  BY FS_CardinalityType
<1>2. HaltSteps \subseteq Nat
  BY <1>1 DEF HaltSteps
<1>3. \E k \in HaltSteps : \A j \in HaltSteps : k <= j
  BY <1>2, LeastNat, ZenonT(30) DEF WalkLoops
<1> QED
  BY <1>2, <1>3, ZenonT(30) DEF HaltStep
-----------------------------------------------------------------------------
\* An empty buffer satisfies the invariant.
LEMMA InitIInv == Init => IInv
<1> SUFFICES ASSUME Init PROVE IInv
  OBVIOUS
<1>1. TypeOK
  <2>1. isuse \in [Slots -> BOOLEAN] /\ overwriteread \in [Slots -> BOOLEAN]
    BY ZenonT(30) DEF Init
  <2>2. hung \in BOOLEAN /\ pc \in [Slots -> {"idle", "checked"}]
    BY ZenonT(30) DEF Init
  <2> QED
    BY <2>1, <2>2, BufferAssumption DEF Init, TypeOK
<1>2. Geometry
  BY FS_EmptySet DEF Init, Geometry
<1>3. FramesIntact /\ FirstHeader
  BY DEF Init, FramesIntact, FirstHeader
<1> QED
  BY <1>1, <1>2, <1>3 DEF IInv

\* What WrtieBuffer writes, and what is left of the frames there were: the new
\* frame n fits behind the write position or at 0, and a frame that keeps its
\* header lies clear of it.
LEMMA WriteFacts ==
  ASSUME IInv, NEW s \in Sizes, NEW t \in FrameTypes, WrtieBuffer(s, t),
         NEW w, w = StartPos(writepos, s), NEW n, n = NewFrame(w, s, t),
         NEW kept, kept = ring \ Clobbered(w, HdrSize + s)
  PROVE  /\ s \in Nat /\ HdrSize \in Nat \ {0} /\ HdrSize % 4 = 0 /\ BufSize \in Nat
         /\ Pad(s) \in Nat /\ Pad(s) % 4 = 0 /\ s <= Pad(s)
         /\ w \in Nat /\ w % 4 = 0 /\ (w = 0 \/ w = writepos) /\ (w = 0 \/ w >= HdrSize)
         /\ w + HdrSize + Pad(s) <= BufSize
         /\ n \in Frames /\ n.pos = w /\ n.len = Pad(s) /\ n.next = w + HdrSize + Pad(s)
         /\ ring' = kept \cup {n} /\ writepos' = w + HdrSize + Pad(s)
         /\ writepos' % 4 = 0 /\ writepos' >= HdrSize
         /\ \A g \in kept : g \in ring /\ (g.pos >= w + HdrSize + Pad(s) \/ g.next <= w)
<1>1. s \in Nat /\ HdrSize \in Nat \ {0} /\ HdrSize % 4 = 0 /\ BufSize \in Nat /\ BufSize % 4 = 0
      /\ HdrSize + s <= BufSize
  BY BufferAssumption
<1>2. Pad(s) \in Nat /\ Pad(s) % 4 = 0 /\ s <= Pad(s)
  BY <1>1, PadUp
<1>3. w \in Nat /\ w % 4 = 0 /\ (w = 0 \/ w = writepos) /\ (w = 0 \/ w >= HdrSize)
  BY <1>1 DEF IInv, TypeOK, Geometry, StartPos
<1>4. w + HdrSize + s <= BufSize
  BY <1>1, <1>3 DEF StartPos, IInv, TypeOK
<1>5. \A a, b \in Int : a % 4 = 0 /\ b % 4 = 0 /\ a + HdrSize + s <= b => a + HdrSize + Pad(s) <= b
  <2> SUFFICES ASSUME NEW a \in Int, NEW b \in Int, a % 4 = 0, b % 4 = 0, a + HdrSize + s <= b
               PROVE  a + HdrSize + Pad(s) <= b
    OBVIOUS
  <2> DEFINE c == a + HdrSize
  <2>1. c \in Int /\ c % 4 = 0 /\ c + s <= b
    BY <1>1
  <2> HIDE DEF c
  <2>2. c + Pad(s) <= b
    BY <1>1, <2>1, PadBound
  <2> QED
    BY <2>2 DEF c
<1>6. w + HdrSize + Pad(s) <= BufSize
  BY <1>1, <1>3, <1>4, <1>5
<1>7. n \in Frames /\ n.pos = w /\ n.len = Pad(s) /\ n.next = w + HdrSize + Pad(s)
  BY <1>1, <1>2, <1>3 DEF NewFrame, Frames, IInv, TypeOK
<1>8. ring' = kept \cup {n} /\ writepos' = w + HdrSize + Pad(s)
  BY <1>7 DEF WrtieBuffer
<1>9. writepos' % 4 = 0 /\ writepos' >= HdrSize
  BY <1>1, <1>2, <1>3, <1>8
<1>10. \A g \in kept : g \in ring /\ (g.pos >= w + HdrSize + Pad(s) \/ g.next <= w)
  <2> SUFFICES ASSUME NEW g \in kept
               PROVE  g.pos >= w + HdrSize + Pad(s) \/ g.next <= w
    BY DEF Clobbered
  <2>1. g \in ring /\ g.pos \in Nat /\ g.len \in Nat /\ g.pos % 4 = 0
        /\ g.next = g.pos + HdrSize + g.len /\ (g.next <= writepos \/ g.pos >= writepos)
    BY DEF IInv, TypeOK, Frames, Geometry
  <2>2. g.pos >= w + HdrSize + s \/ g.pos + HdrSize <= w
    BY <1>1, <1>3, <2>1 DEF Clobbered
  <2>3. CASE g.pos >= w + HdrSize + s
    <3>1. w + HdrSize + s <= g.pos
      BY <1>1, <1>3, <2>1, <2>3
    <3>2. w + HdrSize + Pad(s) <= g.pos
      BY <1>3, <1>5, <2>1, <3>1
    <3> QED
      BY <1>1, <1>2, <1>3, <2>1, <3>2
  <2>4. CASE g.pos + HdrSize <= w
    BY <1>1, <1>3, <2>1, <2>4
  <2> QED
    BY <2>2, <2>3, <2>4
<1> QED
  BY <1>1, <1>2, <1>3, <1>6, <1>7, <1>8, <1>9, <1>10

\* WrtieBuffer keeps the frames apart.
LEMMA WriteStep ==
  ASSUME IInv, NEW s \in Sizes, NEW t \in FrameTypes, WrtieBuffer(s, t),
         sinceKey' \in 0 .. Gop - 1
  PROVE  IInv'
<1>0. PICK w, f, kept : /\ w = StartPos(writepos, s) /\ f = NewFrame(w, s, t)
                        /\ kept = ring \ Clobbered(w, HdrSize + s)
  BY ZenonT(30)
<1>1. s \in Nat /\ HdrSize \in Nat \ {0} /\ HdrSize % 4 = 0 /\ BufSize \in Nat
  BY <1>0, WriteFacts
<1>2. Pad(s) \in Nat /\ Pad(s) % 4 = 0 /\ s <= Pad(s)
  BY <1>0, WriteFacts
<1>3. w \in Nat /\ w % 4 = 0 /\ (w = 0 \/ w = writepos) /\ (w = 0 \/ w >= HdrSize)
  BY <1>0, WriteFacts
<1>6. w + HdrSize + Pad(s) <= BufSize
  BY <1>0, WriteFacts
<1>7. f \in Frames /\ f.pos = w /\ f.len = Pad(s) /\ f.next = w + HdrSize + Pad(s)
  BY <1>0, WriteFacts
<1>8. ring' = kept \cup {f} /\ writepos' = w + HdrSize + Pad(s)
  BY <1>0, WriteFacts
<1>9. writepos' % 4 = 0 /\ writepos' >= HdrSize
  BY <1>0, WriteFacts
<1>10. \A g \in kept : g \in ring /\ (g.pos >= w + HdrSize + Pad(s) \/ g.next <= w)
  BY <1>0, WriteFacts
<1>11. TypeOK'
  <2>1. lastwritepos' = w /\ ring' \subseteq Frames /\ writepos' \in Nat
    BY <1>0, <1>1, <1>2, <1>3, <1>7, <1>8, <1>10 DEF IInv, TypeOK, WrtieBuffer
  <2> QED
    BY <1>3, <2>1 DEF IInv, TypeOK, WrtieBuffer
<1>12. Geometry'
  <2>1. IsFiniteSet(ring')
    <3>1. IsFiniteSet(kept)
      BY <1>0, FS_Subset DEF IInv, Geometry, Clobbered
    <3> QED
      BY <1>8, <3>1, FS_AddElement
  <2>2. ASSUME NEW g \in ring'
        PROVE  /\ g.pos % 4 = 0 /\ g.len % 4 = 0
               /\ g.next = g.pos + HdrSize + g.len
               /\ g.next <= BufSize
               /\ g.next <= writepos' \/ g.pos >= writepos'
    <3>1. CASE g = f
      BY <1>1, <1>2, <1>3, <1>6, <1>7, <1>8, <3>1
    <3>2. CASE g \in kept
      <4>1. g \in ring /\ (g.pos >= w + HdrSize + Pad(s) \/ g.next <= w)
        BY <1>10, <3>2
      <4>2. g.next \in Nat /\ g.pos \in Nat
        BY <4>1 DEF IInv, TypeOK, Frames
      <4> QED
        BY <1>1, <1>2, <1>3, <1>8, <4>1, <4>2 DEF IInv, Geometry
    <3> QED
      BY <1>8, <3>1, <3>2
  <2> QED
    BY <1>9, <2>1, <2>2 DEF Geometry
<1>13. FramesIntact'
  <2> SUFFICES ASSUME NEW g \in ring', NEW h \in ring'
               PROVE  /\ g.pos + HdrSize + g.len <= BufSize
                      /\ g.pos = h.pos => g = h
                      /\ g.pos < h.pos => g.pos + HdrSize + g.len <= h.pos
    BY DEF FramesIntact
  <2>1. CASE g \in kept /\ h \in kept
    BY <1>10, <2>1 DEF IInv, FramesIntact
  <2>2. CASE g = f /\ h = f
    BY <1>1, <1>2, <1>3, <1>6, <1>7, <2>2
  <2>3. CASE g = f /\ h \in kept
    <3>1. h \in ring /\ (h.pos >= w + HdrSize + Pad(s) \/ h.next <= w)
      BY <1>10, <2>3
    <3>2. h.pos \in Nat /\ h.len \in Nat /\ h.next = h.pos + HdrSize + h.len
      BY <3>1 DEF IInv, TypeOK, Frames, Geometry
    <3> QED
      BY <1>1, <1>2, <1>3, <1>6, <1>7, <2>3, <3>1, <3>2
  <2>4. CASE g \in kept /\ h = f
    <3>1. g \in ring /\ (g.pos >= w + HdrSize + Pad(s) \/ g.next <= w)
      BY <1>10, <2>4
    <3>2. g.pos \in Nat /\ g.len \in Nat /\ g.next = g.pos + HdrSize + g.len /\ g.next <= BufSize
      BY <3>1 DEF IInv, TypeOK, Frames, Geometry
    <3> QED
      BY <1>1, <1>2, <1>3, <1>7, <2>4, <3>1, <3>2
  <2> QED
    BY <1>8, <2>1, <2>2, <2>3, <2>4
<1>14. FirstHeader'
  <2>1. written' > 0 /\ pc' = pc
    BY DEF WrtieBuffer, IInv, TypeOK
  <2>2. HasHdr(0)'
    <3>1. CASE w = 0
      BY <1>7, <1>8, <3>1 DEF HasHdr
    <3>2. CASE w # 0
      <4>1. written # 0 /\ w >= HdrSize
        BY <1>3, <3>2 DEF IInv, FirstHeader
      <4>2. PICK g \in ring : g.pos = 0
        BY <4>1 DEF IInv, FirstHeader, HasHdr, TypeOK
      <4>3. g \in kept
        BY <1>0, <1>1, <1>3, <4>1, <4>2 DEF Clobbered
      <4> QED
        BY <1>8, <4>2, <4>3 DEF HasHdr
    <3> QED
      BY <3>1, <3>2
  <2> QED
    BY <2>1, <2>2 DEF FirstHeader, IInv, TypeOK
<1> QED
  BY <1>11, <1>12, <1>13, <1>14 DEF IInv

\* A reader that delivers a frame of the ring changes no type.
LEMMA DeliverType ==
  ASSUME TypeOK, NEW i \in Slots, NEW f \in Frames, NEW c \in Int, Deliver(i, f, c)
  PROVE  readcount' \in [Slots -> Int] /\ readpos' \in [Slots -> Nat] /\ got' \in [Slots -> Nat]
BY DEF Deliver, TypeOK, Frames

\* Steps that leave the ring and the number of frames written alone.
LEMMA ReaderStep ==
  ASSUME IInv, TypeOK', UNCHANGED <<ring, written>>,
         writepos' = writepos \/ writepos' = 0,
         written = 0 => writepos' = 0 /\ \A i \in Slots : readpos'[i] = 0,
         \A i \in Slots : pc'[i] = "checked" => written > 0
  PROVE  IInv'
<1>1. Geometry'
  <2>1. IsFiniteSet(ring')
    BY DEF IInv, Geometry
  <2>2. writepos' % 4 = 0 /\ (writepos' = 0 \/ writepos' >= HdrSize)
    BY DEF IInv, Geometry
  <2>3. \A f \in ring : f.pos >= 0
    BY DEF IInv, TypeOK, Frames
  <2>4. \A f \in ring' :
          /\ f.pos % 4 = 0 /\ f.len % 4 = 0
          /\ f.next = f.pos + HdrSize + f.len
          /\ f.next <= BufSize
          /\ f.next <= writepos' \/ f.pos >= writepos'
    BY <2>3 DEF IInv, Geometry
  <2> QED
    BY <2>1, <2>2, <2>4 DEF Geometry
<1>2. FramesIntact'
  BY DEF IInv, FramesIntact
<1>3. FirstHeader'
  BY DEF IInv, FirstHeader, HasHdr
<1> QED
  BY <1>1, <1>2, <1>3 DEF IInv

\* Every operation of the buffer keeps the invariant.
LEMMA NextIInv == IInv /\ [Next]_vars => IInv'
<1> SUFFICES ASSUME IInv, [Next]_vars PROVE IInv'
  OBVIOUS
<1> USE DEF bufVars, rdVars
<1>1. CASE Receive
  <2>1. PICK s \in Sizes, t \in FrameTypes :
          /\ sinceKey >= Gop - 1 => t = IFRAME
          /\ sinceKey' = IF t = IFRAME THEN 0 ELSE sinceKey + 1
          /\ WrtieBuffer(s, t)
    BY <1>1 DEF Receive
  <2>2. sinceKey' \in 0 .. Gop - 1
    BY <2>1, BufferAssumption DEF IInv, TypeOK
  <2> QED
    BY <2>1, <2>2, WriteStep
<1>2. CASE ResetMediaBuffer
  <2>1. overwriteread' \in [Slots -> BOOLEAN] /\ isuse' \in [Slots -> BOOLEAN] /\ hung' \in BOOLEAN
    BY <1>2, ZenonT(30) DEF ResetMediaBuffer, IInv, TypeOK
  <2>2. TypeOK'
    BY <1>2, <2>1 DEF ResetMediaBuffer, IInv, TypeOK
  <2>3. \A i \in Slots : readpos'[i] = 0 /\ (pc'[i] = "checked" => written > 0)
    BY <1>2 DEF ResetMediaBuffer, IInv, FirstHeader
  <2> QED
    BY <1>2, <2>2, <2>3, ReaderStep DEF ResetMediaBuffer
<1>3. CASE GetReadIndex
  <2>1. TypeOK'
    BY <1>3 DEF GetReadIndex, IInv, TypeOK
  <2> QED
    BY <1>3, <2>1, ReaderStep DEF GetReadIndex, IInv, FirstHeader
<1>4. ASSUME NEW i \in Slots, ReleaseReader(i) PROVE IInv'
  <2>1. TypeOK'
    BY <1>4 DEF ReleaseReader, IInv, TypeOK
  <2> QED
    BY <1>4, <2>1, ReaderStep DEF ReleaseReader, IInv, FirstHeader
<1>5. ASSUME NEW i \in Slots, ReadCheck(i) PROVE IInv'
  <2>1. TypeOK'
    BY <1>5 DEF ReadCheck, IInv, TypeOK
  <2>2. written > 0
    BY <1>5 DEF ReadCheck, IInv, FirstHeader, TypeOK
  <2> QED
    BY <1>5, <2>1, <2>2, ReaderStep DEF ReadCheck, IInv, FirstHeader
<1>6. ASSUME NEW i \in Slots, NEW f \in ring, NEW c \in Int, Deliver(i, f, c),
             pc[i] = "checked", pc' = [pc EXCEPT ![i] = "idle"],
             overwriteread' \in [Slots -> BOOLEAN], hung' \in BOOLEAN,
             UNCHANGED <<bufVars, isuse, written, resets, sinceKey>>
      PROVE  IInv'
  <2>1. readcount' \in [Slots -> Int] /\ readpos' \in [Slots -> Nat] /\ got' \in [Slots -> Nat]
    BY <1>6, DeliverType DEF IInv, TypeOK
  <2>2. TypeOK'
    BY <1>6, <2>1, ZenonT(30) DEF IInv, TypeOK
  <2>3. written > 0
    BY <1>6 DEF IInv, FirstHeader
  <2>4. \A j \in Slots : pc'[j] = "checked" => written > 0
    BY <2>3
  <2>5. written # 0
    BY <2>3
  <2> QED
    BY <1>6, <2>2, <2>4, <2>5, ReaderStep
<1>7. ASSUME NEW i \in Slots, ReadNext(i) PROVE IInv'
  <2>1. HeaderFrom(readpos[i]) \in ring
    BY <1>7, AtInRing DEF ReadNext, HeaderFrom, IInv, FirstHeader
  <2>2. readcount[i] \in Int /\ overwriteread' \in [Slots -> BOOLEAN] /\ hung' \in BOOLEAN
    BY <1>7 DEF ReadNext, IInv, TypeOK
  <2> QED
    BY <1>6, <1>7, <2>1, <2>2, ZenonT(30) DEF ReadNext
<1>8. ASSUME NEW i \in Slots, ReadResync(i) PROVE IInv'
  <2>1. At(WalkPos[HaltStep]) \in ring
    BY <1>8, AtInRing DEF ReadResync, WalkFinds, IsKeyAt
  <2>2. HaltStep \in Nat
    BY <1>8, HaltStepNat DEF ReadResync, WalkFinds, IInv, Geometry
  <2>3. writecount - 1 - HaltStep \in Int
    BY <2>2 DEF IInv, TypeOK
  <2>4. overwriteread' \in [Slots -> BOOLEAN] /\ hung' \in BOOLEAN
    BY <1>8 DEF ReadResync, IInv, TypeOK
  <2> QED
    BY <1>6, <1>8, <2>1, <2>3, <2>4, ZenonT(30) DEF ReadResync
<1>9. ASSUME NEW i \in Slots, NEW c \in Int, pc[i] = "checked",
             readcount' = [readcount EXCEPT ![i] = c], pc' = [pc EXCEPT ![i] = "idle"],
             UNCHANGED <<bufVars, readpos, overwriteread, isuse, got, hung, written, resets, sinceKey>>
      PROVE  IInv'
  <2>1. TypeOK'
    BY <1>9 DEF IInv, TypeOK
  <2>2. written > 0
    BY <1>9 DEF IInv, FirstHeader
  <2> QED
    BY <1>9, <2>1, <2>2, ReaderStep
<1>10. ASSUME NEW i \in Slots, ReadNoKey(i) PROVE IInv'
  <2>1. HaltStep \in Nat
    BY <1>10, HaltStepNat DEF ReadNoKey, WalkEnds, IInv, Geometry
  <2>2. writecount - 1 - HaltStep \in Int
    BY <2>1 DEF IInv, TypeOK
  <2> QED
    BY <1>9, <1>10, <2>2, ZenonT(30) DEF ReadNoKey
<1>11. ASSUME NEW i \in Slots, pc[i] = "checked", hung' = TRUE,
              UNCHANGED <<bufVars, rdVars, written, resets, sinceKey>>
       PROVE  IInv'
  <2>1. TypeOK'
    BY <1>11 DEF IInv, TypeOK
  <2> QED
    BY <1>11, <2>1, ReaderStep, ZenonT(30) DEF IInv, FirstHeader
<1>12. ASSUME NEW i \in Slots, ReadStray(i) PROVE IInv'
  <2>1. HaltStep \in Nat
    BY <1>12, HaltStepNat DEF ReadStray, WalkStrays, IInv, Geometry
  <2>2. PICK k \in HaltStep .. HaltStep + 1 :
          \/ /\ readcount' = [readcount EXCEPT ![i] = writecount - 1 - k]
             /\ pc' = [pc EXCEPT ![i] = "idle"]
             /\ UNCHANGED <<readpos, overwriteread, got, hung>>
          \/ \E f \in ring :
               /\ overwriteread' = [overwriteread EXCEPT ![i] = FALSE]
               /\ Deliver(i, f, writecount - 1 - k)
               /\ pc' = [pc EXCEPT ![i] = "idle"]
               /\ UNCHANGED hung
          \/ /\ hung' = TRUE
             /\ UNCHANGED <<readpos, readcount, overwriteread, pc, got>>
    BY <1>12 DEF ReadStray
  <2>3. writecount - 1 - k \in Int
    BY <2>1 DEF IInv, TypeOK
  <2>4. pc[i] = "checked" /\ UNCHANGED <<bufVars, isuse, written, resets, sinceKey>>
    BY <1>12 DEF ReadStray
  <2>5. CASE /\ readcount' = [readcount EXCEPT ![i] = writecount - 1 - k]
             /\ pc' = [pc EXCEPT ![i] = "idle"]
             /\ UNCHANGED <<readpos, overwriteread, got, hung>>
    BY <1>9, <2>3, <2>4, <2>5, ZenonT(30)
  <2>6. CASE \E f \in ring :
               /\ overwriteread' = [overwriteread EXCEPT ![i] = FALSE]
               /\ Deliver(i, f, writecount - 1 - k)
               /\ pc' = [pc EXCEPT ![i] = "idle"]
               /\ UNCHANGED hung
    <3>1. overwriteread' \in [Slots -> BOOLEAN] /\ hung' \in BOOLEAN
      BY <2>6 DEF IInv, TypeOK
    <3> QED
      BY <1>6, <2>3, <2>4, <2>6, <3>1, ZenonT(30)
  <2>7. CASE hung' = TRUE /\ UNCHANGED <<readpos, readcount, overwriteread, pc, got>>
    BY <1>11, <2>4, <2>7
  <2> QED
    BY <2>2, <2>5, <2>6, <2>7, ZenonT(30)
<1>13. ASSUME NEW i \in Slots, ReadHang(i) PROVE IInv'
  BY <1>11, <1>13 DEF ReadHang
<1>14. CASE UNCHANGED vars
  BY <1>14 DEF vars, IInv, TypeOK, Geometry, FramesIntact, FirstHeader, HasHdr
<1> QED
  BY <1>1, <1>2, <1>3, <1>4, <1>5, <1>7, <1>8, <1>10, <1>12, <1>13, <1>14 DEF Next, ReadBuffer

\* Every variable keeps its type; in particular the key-frame search of
\* ReadBuffer never leaves a reader at a negative position.
THEOREM TypeCorrect == Spec => []TypeOK
<1>1. IInv => TypeOK
  BY DEF IInv
<1> QED
  BY <1>1, InitIInv, NextIInv, PTL DEF Spec

\* WrtieBuffer never leaves a readable header in front of a damaged payload, for
\* every ring size, header size and sequence of frame sizes the assumption on
\* the constants allows, and across resets.
THEOREM RingIntact == Spec => []FramesIntact
<1>1. IInv => FramesIntact
  BY DEF IInv
<1> QED
  BY <1>1, InitIInv, NextIInv, PTL DEF Spec
-----------------------------------------------------------------------------
(* The search for a key frame, step by step. *)

\* Where the search goes from p.
PrevOf(p) == IF HasHdr(p) THEN At(p).prev ELSE -1

\* g says where the search stands for the first n steps.
Traces(n, g) ==
  /\ g = [k \in 0 .. n |-> g[k]]
  /\ g[0] = lastwritepos
  /\ \A k \in 1 .. n : g[k] = PrevOf(g[k - 1])

\* However many steps are asked for, there is such a record of them.
LEMMA TraceExists == \A n \in Nat : \E g : Traces(n, g)
<1> DEFINE S == {n \in Nat : ~\E g : Traces(n, g)}
<1> SUFFICES ASSUME S # {} PROVE FALSE
  OBVIOUS
<1>1. PICK n \in S : \A j \in S : n <= j
  BY LeastNat, ZenonT(30)
<1>2. CASE n = 0
  <2> DEFINE g == [k \in 0 .. 0 |-> lastwritepos]
  <2>1. Traces(0, g)
    BY DEF Traces
  <2> QED
    BY <1>1, <1>2, <2>1
<1>3. CASE n # 0
  <2>1. n - 1 \in Nat /\ n - 1 \notin S
    BY <1>1, <1>3
  <2>2. PICK h : Traces(n - 1, h)
    BY <2>1
  <2> DEFINE g == [k \in 0 .. n |-> IF k = n THEN PrevOf(h[n - 1]) ELSE h[k]]
  <2>3. g[0] = lastwritepos
    BY <2>1, <2>2 DEF Traces
  <2>4. ASSUME NEW k \in 1 .. n PROVE g[k] = PrevOf(g[k - 1])
    <3>1. CASE k = n
      BY <2>1, <3>1
    <3>2. CASE k # n
      <4>1. k \in 1 .. n - 1 /\ k - 1 \in 0 .. n /\ k - 1 # n /\ k \in 0 .. n
        BY <2>1, <3>2
      <4>2. g[k] = h[k] /\ g[k - 1] = h[k - 1]
        BY <3>2, <4>1
      <4>3. h[k] = PrevOf(h[k - 1])
        BY <2>2, <4>1, ZenonT(30) DEF Traces
      <4> QED
        BY <4>2, <4>3
    <3> QED
      BY <3>1, <3>2
  <2>5. Traces(n, g)
    BY <2>3, <2>4, ZenonT(30) DEF Traces
  <2> QED
    BY <1>1, <2>5
<1> QED
  BY <1>2, <1>3

\* Two records agree for as long as both last.
LEMMA TraceUnique ==
  ASSUME NEW m \in Nat, NEW n \in Nat, NEW g, NEW h, Traces(m, g), Traces(n, h),
         NEW k \in Nat, k <= m, k <= n
  PROVE  g[k] = h[k]
<1> DEFINE S == {j \in 0 .. k : g[j] # h[j]}
<1> SUFFICES ASSUME S # {} PROVE FALSE
  OBVIOUS
<1>1. PICK j \in S : \A i \in S : j <= i
  <2>1. S \subseteq Nat
    OBVIOUS
  <2> QED
    BY <2>1, LeastNat, ZenonT(30)
<1>2. j # 0
  BY <1>1 DEF Traces
<1>3. j - 1 \in 0 .. k /\ j - 1 \notin S /\ j \in 1 .. m /\ j \in 1 .. n
  BY <1>1, <1>2
<1>4. g[j - 1] = h[j - 1]
  BY <1>3
<1>5. g[j] = PrevOf(g[j - 1]) /\ h[j] = PrevOf(h[j - 1])
  BY <1>3, ZenonT(30) DEF Traces
<1> QED
  BY <1>1, <1>4, <1>5

\* The search begins at _lastwritepos and goes on along _prevpos.
LEMMA WalkStep ==
  /\ WalkPos[0] = lastwritepos
  /\ \A k \in Nat : WalkPos[k + 1] = PrevOf(WalkPos[k])
<1> DEFINE T(n) == CHOOSE g : Traces(n, g)
           F == [n \in Nat |-> T(n)[n]]
<1>1. \A n \in Nat : Traces(n, T(n))
  BY TraceExists
<1>2. F[0] = lastwritepos
  BY <1>1, ZenonT(30) DEF Traces
<1>3. ASSUME NEW k \in Nat \ {0} PROVE F[k] = PrevOf(F[k - 1])
  <2>1. k - 1 \in Nat /\ k \in 1 .. k
    OBVIOUS
  <2>2. T(k)[k] = PrevOf(T(k)[k - 1])
    BY <1>1, <2>1, ZenonT(30) DEF Traces
  <2>3. T(k)[k - 1] = T(k - 1)[k - 1]
    BY <1>1, <2>1, TraceUnique
  <2> QED
    BY <2>1, <2>2, <2>3
<1> HIDE DEF F
<1>4. F = [k \in Nat |-> IF k = 0 THEN lastwritepos ELSE PrevOf(F[k - 1])]
  <2>1. F = [k \in Nat |-> F[k]]
    BY DEF F
  <2>2. \A k \in Nat : F[k] = IF k = 0 THEN lastwritepos ELSE PrevOf(F[k - 1])
    BY <1>2, <1>3
  <2> QED
    BY <2>1, <2>2, ZenonT(30)
<1>5. WalkPos = [k \in Nat |-> IF k = 0 THEN lastwritepos ELSE PrevOf(WalkPos[k - 1])]
  BY <1>4, ZenonT(30) DEF WalkPos, PrevOf
<1>6. ASSUME NEW k \in Nat PROVE WalkPos[k + 1] = PrevOf(WalkPos[k])
  BY <1>5
<1> QED
  BY <1>5, <1>6

-----------------------------------------------------------------------------
(* The order of the frames. *)

\* The frames written before the last reset have these numbers and below.
Before == written - writecount

\* The numbers of the frames, and the newest of them: WrtieBuffer leaves
\* _lastwritepos at its header and _writepos behind it.
Numbered ==
  /\ writecount <= written
  /\ \A f \in ring : f.id \in 1 .. written
  /\ \A f, g \in ring : f.id = g.id => f = g
  /\ writecount = 0 => writepos = 0 /\ lastwritepos = 0
  /\ writecount > 0 =>
       \E f \in ring : f.id = written /\ f.pos = lastwritepos /\ f.next = writepos

\* The lap being written is below the write position, and its frames follow each
\* other up to it; what is left of the lap before is above and older.
Laps ==
  /\ \A f, g \in ring : f.pos < writepos /\ writepos <= g.pos => g.id < f.id
  /\ \A f, g \in ring : f.pos < g.pos /\ g.pos < writepos => f.id < g.id
  /\ \A f \in ring : f.pos < writepos =>
       /\ f.id > Before
       /\ \A n \in f.id .. written : \E g \in ring : g.id = n /\ g.pos < writepos
       /\ f.next # writepos => HasHdr(f.next)

\* _prevpos leads to the frame written before, or to a newer one written over it.
Linked ==
  \A f, g \in ring :
    /\ g.id > Before /\ f.id = g.id + 1 => f.prev = g.pos
    /\ f.id > Before /\ g.pos = f.prev => g.id > Before /\ g.id >= f.id - 1

\* A reader stands behind the frame that it received last, for as long as that
\* frame lasts, and the header where it stands is a newer one unless it is left
\* from an earlier lap.
Follows ==
  \A i \in Slots :
    /\ got[i] <= written
    /\ \A f \in ring : f.id = got[i] /\ f.id > Before => readpos[i] = f.next
    /\ \A f \in ring : f.pos = readpos[i] => f.id > got[i] \/ f.pos >= writepos
    /\ pc[i] = "checked" => got[i] < written \/ writecount = 0

\* A reader that is marked lost a frame that it has not gone beyond, or starts anew.
Lost(i) ==
  \/ got[i] = 0
  \/ /\ writecount > 0
     /\ got[i] <= Before \/ \E b \in got[i] .. written : \A f \in ring : f.id # b
Marked == \A i \in Slots : overwriteread[i] => Lost(i)

OrderInv == Numbered /\ Laps /\ Linked /\ Follows /\ Marked

-----------------------------------------------------------------------------
\* Two numbers compare.
LEMMA Compare ==
  ASSUME NEW a \in Nat, NEW c \in Nat
  PROVE  (a < c \/ a >= c) /\ (a > c \/ a <= c)
  OBVIOUS

\* The header number that is at least one below a greater one, and not the bound
\* itself, is still above the bound.
LEMMA OneBelow ==
  ASSUME NEW x \in Nat, NEW y \in Nat, NEW b \in Nat, x > b, y >= x - 1, y # b
  PROVE  y > b
  OBVIOUS

\* What a frame of the ring is, in the terms the argument uses.
LEMMA FrameFacts ==
  ASSUME IInv
  PROVE  /\ HdrSize \in Nat \ {0} /\ writepos \in Nat /\ lastwritepos \in Nat
         /\ written \in Nat /\ writecount \in Nat /\ Before \in Int
         /\ \A f \in ring : /\ f.pos \in Nat /\ f.id \in Nat /\ f.prev \in Nat /\ f.next \in Nat
                            /\ f.pos + HdrSize <= f.next
                            /\ f.next <= writepos \/ f.pos >= writepos
         /\ \A f, g \in ring : f.pos < g.pos => f.next <= g.pos
         /\ \A f, g \in ring : f.pos = g.pos => f = g
<1>1. HdrSize \in Nat \ {0} /\ writepos \in Nat /\ lastwritepos \in Nat
      /\ written \in Nat /\ writecount \in Nat /\ Before \in Int
  BY BufferAssumption DEF IInv, TypeOK, Before
<1>2. ASSUME NEW f \in ring
      PROVE  /\ f.pos \in Nat /\ f.id \in Nat /\ f.prev \in Nat /\ f.next \in Nat
             /\ f.len \in Nat /\ f.next = f.pos + HdrSize + f.len
             /\ f.next <= writepos \/ f.pos >= writepos
  BY DEF IInv, TypeOK, Frames, Geometry
<1>3. \A f, g \in ring : f.pos < g.pos => f.next <= g.pos
  BY <1>2 DEF IInv, FramesIntact
<1>4. \A f, g \in ring : f.pos = g.pos => f = g
  BY DEF IInv, FramesIntact
<1>5. \A f \in ring : f.pos + HdrSize <= f.next
  BY <1>1, <1>2
<1> QED
  BY <1>1, <1>2, <1>3, <1>4, <1>5

\* The next frame of the ring is behind the frame's own header.
LEMMA FrameSpan ==
  ASSUME IInv
  PROVE  \A f \in ring : f.pos < f.next
<1>1. ASSUME NEW a \in Nat, NEW c \in Nat, NEW h \in Nat \ {0}, a + h <= c PROVE a < c
  BY <1>1
<1> QED
  BY <1>1, FrameFacts, ZenonT(30)

\* WrtieBuffer seen from the frames: the new one carries the next number and the
\* old _lastwritepos; a frame that stays is below it or beyond the new write
\* position, and every frame of the lap being continued stays.
LEMMA NewestFrame ==
  ASSUME IInv, Numbered, NEW s \in Sizes, NEW t \in FrameTypes, WrtieBuffer(s, t)
  PROVE  \E n \in ring' :
           /\ n.pos \in Nat /\ n.id = written + 1 /\ n.prev = lastwritepos
           /\ n.pos = lastwritepos' /\ n.next = writepos' /\ n.pos < writepos' /\ writepos' \in Nat
           /\ n.pos = writepos \/ (n.pos = 0 /\ writepos > 0)
           /\ \A g \in ring' \ {n} :
                /\ g \in ring
                /\ g.pos >= writepos' \/ (g.pos < n.pos /\ g.next <= n.pos)
           /\ \A g \in ring : g.next <= n.pos => g \in ring' \ {n}
           /\ \A g \in ring :
                g.pos < n.pos + HdrSize + s /\ g.pos + HdrSize > n.pos => g \notin ring'
<1>0. PICK w, n, kept : /\ w = StartPos(writepos, s) /\ n = NewFrame(w, s, t)
                        /\ kept = ring \ Clobbered(w, HdrSize + s)
  BY ZenonT(30)
<1>1. /\ HdrSize \in Nat \ {0} /\ Pad(s) \in Nat /\ s \in Nat
      /\ w \in Nat /\ (w = 0 \/ w = writepos)
      /\ n.pos = w /\ n.next = w + HdrSize + Pad(s)
      /\ ring' = kept \cup {n} /\ writepos' = w + HdrSize + Pad(s)
  BY <1>0, WriteFacts
<1>2. \A g \in kept : g \in ring /\ (g.pos >= w + HdrSize + Pad(s) \/ g.next <= w)
  BY <1>0, WriteFacts
<1>3. n.id = written + 1 /\ n.prev = lastwritepos
  BY <1>0 DEF NewFrame
<1>4. lastwritepos' = w
  BY <1>0 DEF WrtieBuffer
<1>5. n \notin ring
  BY <1>3, FrameFacts DEF Numbered
<1>6. ASSUME NEW g \in ring' \ {n}
      PROVE  g \in ring /\ (g.pos >= writepos' \/ (g.pos < n.pos /\ g.next <= n.pos))
  <2>1. g \in ring /\ (g.pos >= w + HdrSize + Pad(s) \/ g.next <= w)
    BY <1>1, <1>2
  <2>2. g.pos \in Nat /\ g.next \in Nat /\ g.pos + HdrSize <= g.next
    BY <2>1, FrameFacts
  <2> QED
    BY <1>1, <2>1, <2>2
<1>7. ASSUME NEW g \in ring, g.next <= n.pos PROVE g \in ring' \ {n}
  <2>1. g.pos \in Nat /\ g.next \in Nat /\ g.pos + HdrSize <= g.next
    BY FrameFacts
  <2>2. g \notin Clobbered(w, HdrSize + s)
    BY <1>1, <1>7, <2>1 DEF Clobbered
  <2> QED
    BY <1>0, <1>1, <1>5, <2>2
<1>8. ASSUME NEW g \in ring, g.pos < n.pos + HdrSize + s, g.pos + HdrSize > n.pos
      PROVE  g \notin ring'
  <2>1. g.pos \in Nat
    BY FrameFacts
  <2>2. g \in Clobbered(w, HdrSize + s)
    BY <1>1, <1>8, <2>1 DEF Clobbered
  <2> QED
    BY <1>0, <1>1, <1>5, <2>2
<1>9. n.pos < writepos' /\ writepos' \in Nat /\ (n.pos = writepos \/ (n.pos = 0 /\ writepos > 0))
  BY <1>1, FrameFacts
<1> QED
  BY <1>1, <1>3, <1>4, <1>6, <1>7, <1>8, <1>9

\* WrtieBuffer makes the new frame the newest.
LEMMA WriteNumbered ==
  ASSUME IInv, Numbered, NEW s \in Sizes, NEW t \in FrameTypes, WrtieBuffer(s, t)
  PROVE  Numbered' /\ Before' = Before
<1>0. written' = written + 1 /\ writecount' = writecount + 1
  BY DEF WrtieBuffer
<1>1. PICK n \in ring' :
        /\ n.id = written + 1 /\ n.pos = lastwritepos' /\ n.next = writepos'
        /\ \A g \in ring' \ {n} : g \in ring
  BY NewestFrame
<1>2. \A g \in ring' : g = n \/ (g \in ring /\ g.id \in 1 .. written)
  BY <1>1 DEF Numbered
<1>3. \A g \in ring' : g.id \in 1 .. written'
  BY <1>0, <1>1, <1>2, FrameFacts
<1>4. \A g, h \in ring' : g.id = h.id => g = h
  BY <1>1, <1>2, FrameFacts DEF Numbered
<1>5. writecount' # 0 /\ writecount' <= written' /\ Before' = Before
  BY <1>0, FrameFacts DEF Numbered, Before
<1> QED
  BY <1>0, <1>1, <1>3, <1>4, <1>5 DEF Numbered

\* WrtieBuffer goes on with the lap, or begins one at 0.
LEMMA WriteLaps ==
  ASSUME IInv, Numbered, Laps, NEW s \in Sizes, NEW t \in FrameTypes, WrtieBuffer(s, t)
  PROVE  Laps'
<1>0. written' = written + 1 /\ Before' = Before
  BY WriteNumbered DEF WrtieBuffer
<1>1. PICK n \in ring' :
        /\ n.pos \in Nat /\ n.id = written + 1 /\ n.next = writepos' /\ n.pos < writepos' /\ writepos' \in Nat
        /\ n.pos = writepos \/ (n.pos = 0 /\ writepos > 0)
        /\ \A g \in ring' \ {n} :
             g \in ring /\ (g.pos >= writepos' \/ (g.pos < n.pos /\ g.next <= n.pos))
        /\ \A g \in ring : g.next <= n.pos => g \in ring' \ {n}
  BY NewestFrame
<1>2. \A g \in ring : g.id \in 1 .. written
  BY DEF Numbered
<1>3. ASSUME NEW f \in ring' \ {n}, f.pos < writepos'
      PROVE  f \in ring /\ n.pos = writepos /\ f.pos < writepos /\ f.next <= writepos
  <2>1. f \in ring /\ f.pos < n.pos /\ f.next <= n.pos
    <3>1. f \in ring /\ (f.pos >= writepos' \/ (f.pos < n.pos /\ f.next <= n.pos))
      BY <1>1
    <3>2. f.pos \in Nat
      BY <3>1, FrameFacts
    <3> QED
      BY <1>1, <1>3, <3>1, <3>2
  <2>2. f.pos \in Nat
    BY <2>1, FrameFacts
  <2> QED
    BY <1>1, <2>1, <2>2
<1>4. ASSUME NEW f \in ring', NEW g \in ring', f.pos < writepos', writepos' <= g.pos
      PROVE  g.id < f.id
  <2>1. g # n /\ g \in ring
    BY <1>1, <1>4
  <2>2. CASE f = n
    BY <1>1, <1>2, <2>1, <2>2, FrameFacts
  <2>3. CASE f # n
    <3>1. f \in ring /\ n.pos = writepos /\ f.pos < writepos
      BY <1>3, <1>4, <2>3
    <3>2. writepos <= g.pos
      BY <1>1, <1>4, <2>1, <3>1, FrameFacts
    <3> QED
      BY <2>1, <3>1, <3>2 DEF Laps
  <2> QED
    BY <2>2, <2>3
<1>5. ASSUME NEW f \in ring', NEW g \in ring', f.pos < g.pos, g.pos < writepos'
      PROVE  f.id < g.id
  <2>1. f # n
    <3> SUFFICES ASSUME f = n PROVE FALSE
      OBVIOUS
    <3>1. g \in ring /\ g.pos < n.pos
      <4>1. g # n
        BY <1>1, <1>5
      <4>2. g \in ring /\ (g.pos >= writepos' \/ g.pos < n.pos)
        BY <1>1, <4>1
      <4> QED
        BY <1>1, <1>5, <4>2, FrameFacts
    <3> QED
      BY <1>1, <1>5, <3>1, FrameFacts
  <2>2. f \in ring
    BY <1>1, <2>1
  <2>3. CASE g = n
    BY <1>1, <1>2, <2>2, <2>3, FrameFacts
  <2>4. CASE g # n
    <3>1. g \in ring /\ g.pos < writepos
      BY <1>3, <1>5, <2>4
    <3> QED
      BY <1>5, <2>2, <3>1 DEF Laps
  <2> QED
    BY <2>3, <2>4
<1>6. ASSUME NEW f \in ring', f.pos < writepos'
      PROVE  /\ f.id > Before
             /\ \A m \in f.id .. written' : \E g \in ring' : g.id = m /\ g.pos < writepos'
             /\ f.next # writepos' => \E g \in ring' : g.pos = f.next
  <2>1. CASE f = n
    <3>1. f.id > Before
      BY <1>1, <2>1, FrameFacts DEF Before
    <3>2. \A m \in f.id .. written' : m = n.id
      BY <1>0, <1>1, <2>1, FrameFacts
    <3> QED
      BY <1>1, <2>1, <3>1, <3>2
  <2>2. CASE f # n
    <3>1. f \in ring /\ n.pos = writepos /\ f.pos < writepos
      BY <1>3, <1>6, <2>2
    <3>2. ASSUME NEW g \in ring, g.pos < writepos PROVE g \in ring' /\ g.pos < writepos'
      <4>1. g.pos \in Nat /\ g.next <= writepos
        BY <3>2, FrameFacts
      <4> QED
        BY <1>1, <3>1, <3>2, <4>1, FrameFacts
    <3>3. f.id > Before
      BY <3>1 DEF Laps
    <3>4. ASSUME NEW m \in f.id .. written' PROVE \E g \in ring' : g.id = m /\ g.pos < writepos'
      <4>1. CASE m = written'
        BY <1>0, <1>1, <4>1
      <4>2. CASE m # written'
        <5>1. m \in f.id .. written
          BY <1>0, <3>1, <3>4, <4>2, FrameFacts
        <5>2. PICK g \in ring : g.id = m /\ g.pos < writepos
          BY <3>1, <5>1 DEF Laps
        <5> QED
          BY <3>2, <5>2
      <4> QED
        BY <4>1, <4>2
    <3>5. ASSUME f.next # writepos' PROVE \E g \in ring' : g.pos = f.next
      <4>1. CASE f.next = writepos
        BY <1>1, <3>1, <4>1
      <4>2. CASE f.next # writepos
        <5>1. PICK g \in ring : g.pos = f.next
          BY <3>1, <4>2 DEF Laps, HasHdr
        <5>2. g.pos < writepos
          BY <3>1, <4>2, <5>1, FrameFacts
        <5> QED
          BY <3>2, <5>1, <5>2
      <4> QED
        BY <4>1, <4>2
    <3> QED
      BY <3>3, <3>4, <3>5
  <2> QED
    BY <2>1, <2>2
<1> QED
  BY <1>0, <1>4, <1>5, <1>6 DEF Laps, HasHdr

\* The new frame points to the one written before it, or to itself after a reset.
LEMMA WriteLinked ==
  ASSUME IInv, Numbered, Linked, NEW s \in Sizes, NEW t \in FrameTypes, WrtieBuffer(s, t)
  PROVE  Linked'
<1>0. Before' = Before
  BY WriteNumbered
<1>1. PICK n \in ring' :
        /\ n.id = written + 1 /\ n.prev = lastwritepos
        /\ n.pos = writepos \/ (n.pos = 0 /\ writepos > 0)
        /\ n.pos < writepos' /\ writepos' \in Nat
        /\ \A g \in ring' \ {n} : g \in ring /\ (g.pos >= writepos' \/ g.pos < n.pos)
  BY NewestFrame
<1>2. \A g \in ring : g.id \in 1 .. written
  BY DEF Numbered
<1>3. n.id > Before
  BY <1>1, FrameFacts DEF Before
<1>4. ASSUME NEW f \in ring', NEW g \in ring', g.id > Before, f.id = g.id + 1
      PROVE  f.prev = g.pos
  <2>1. g \in ring
    BY <1>1, <1>2, <1>4, FrameFacts
  <2>2. CASE f = n
    <3>1. g.id = written /\ writecount > 0
      BY <1>1, <1>4, <2>1, <2>2, FrameFacts DEF Before
    <3>2. PICK h \in ring : h.id = written /\ h.pos = lastwritepos
      BY <3>1 DEF Numbered
    <3>3. h = g
      BY <2>1, <3>1, <3>2 DEF Numbered
    <3> QED
      BY <1>1, <2>2, <3>2, <3>3
  <2>3. CASE f # n
    BY <1>1, <1>4, <2>1, <2>3 DEF Linked
  <2> QED
    BY <2>2, <2>3
<1>5. ASSUME NEW f \in ring', NEW g \in ring', f.id > Before, g.pos = f.prev
      PROVE  g.id > Before /\ g.id >= f.id - 1
  <2>1. f.id \in Nat /\ f.id <= n.id
    BY <1>1, <1>2, FrameFacts
  <2>2. CASE g = n
    BY <1>1, <1>3, <2>1, <2>2, FrameFacts
  <2>3. CASE g # n /\ f # n
    BY <1>1, <1>5, <2>3 DEF Linked
  <2>4. CASE g # n /\ f = n
    <3>1. g \in ring /\ g.pos = lastwritepos
      BY <1>1, <1>5, <2>4
    <3>2. writecount # 0
      <4> SUFFICES ASSUME writecount = 0 PROVE FALSE
        OBVIOUS
      <4>1. writepos = 0 /\ lastwritepos = 0
        BY DEF Numbered
      <4>2. n.pos = 0 /\ g.pos = 0 /\ n.pos < writepos'
        BY <1>1, <3>1, <4>1, FrameFacts
      <4>3. g.pos >= writepos' \/ g.pos < n.pos
        BY <1>1, <2>4
      <4> QED
        BY <1>1, <4>2, <4>3
    <3>3. PICK h \in ring : h.id = written /\ h.pos = lastwritepos
      BY <3>2, FrameFacts DEF Numbered
    <3>4. h = g
      BY <3>1, <3>3, FrameFacts
    <3> QED
      BY <1>1, <2>4, <3>2, <3>3, <3>4, FrameFacts DEF Before
  <2> QED
    BY <2>2, <2>3, <2>4
<1> QED
  BY <1>0, <1>4, <1>5 DEF Linked

\* The readers' positions stay good: a frame that stays keeps its place relative
\* to them, and the new one is newer than what they have.
LEMMA WriteFollows ==
  ASSUME IInv, Numbered, Follows, NEW s \in Sizes, NEW t \in FrameTypes, WrtieBuffer(s, t)
  PROVE  Follows'
<1>0. written' = written + 1 /\ UNCHANGED <<readpos, pc, got>> /\ Before' = Before
  BY WriteNumbered DEF WrtieBuffer
<1>1. PICK n \in ring' :
        /\ n.pos \in Nat /\ n.id = written + 1 /\ n.pos < writepos' /\ writepos' \in Nat
        /\ n.pos = writepos \/ (n.pos = 0 /\ writepos > 0)
        /\ \A g \in ring' \ {n} : g \in ring /\ (g.pos >= writepos' \/ g.pos < n.pos)
  BY NewestFrame
<1>2. ASSUME NEW i \in Slots
      PROVE  /\ got[i] <= written'
             /\ \A f \in ring' : f.id = got[i] /\ f.id > Before => readpos[i] = f.next
             /\ \A f \in ring' : f.pos = readpos[i] => f.id > got[i] \/ f.pos >= writepos'
             /\ got[i] < written'
  <2>1. got[i] \in Nat /\ got[i] <= written
    BY DEF IInv, TypeOK, Follows
  <2>2. got[i] < written' /\ got[i] <= written' /\ got[i] < n.id
    BY <1>0, <1>1, <2>1, FrameFacts
  <2>3. ASSUME NEW f \in ring', f.id = got[i], f.id > Before PROVE readpos[i] = f.next
    <3>1. f # n
      BY <2>1, <2>2, <2>3
    <3>2. f \in ring
      BY <1>1, <3>1
    <3> QED
      BY <2>3, <3>2 DEF Follows
  <2>4. ASSUME NEW f \in ring', f.pos = readpos[i] PROVE f.id > got[i] \/ f.pos >= writepos'
    <3>1. CASE f = n
      BY <2>2, <3>1, <1>1, FrameFacts
    <3>2. CASE f # n
      <4>1. f \in ring /\ (f.pos >= writepos' \/ f.pos < n.pos)
        BY <1>1, <3>2
      <4>2. f.id > got[i] \/ f.pos >= writepos
        BY <2>4, <4>1, ZenonT(30) DEF Follows
      <4> QED
        BY <1>1, <4>1, <4>2, FrameFacts
    <3> QED
      BY <3>1, <3>2
  <2> QED
    BY <2>2, <2>3, <2>4
<1> QED
  BY <1>0, <1>2 DEF Follows

\* Overtakes tells the reader that it lost a frame: the one it received last when
\* the writer goes on behind the write position, and the first of the lap, which
\* is newer, when the writer starts again at 0.
LEMMA WriteMarked ==
  ASSUME IInv, Numbered, Laps, Follows, Marked, NEW s \in Sizes, NEW t \in FrameTypes, WrtieBuffer(s, t)
  PROVE  Marked'
<1>0. /\ written' = written + 1 /\ writecount' > 0 /\ got' = got /\ Before' = Before
      /\ s \in Nat /\ written \in Nat
  BY WriteNumbered, BufferAssumption, FrameFacts DEF WrtieBuffer
<1>1. PICK n \in ring' :
        /\ n.pos \in Nat /\ n.id = written + 1
        /\ n.pos = writepos \/ (n.pos = 0 /\ writepos > 0)
        /\ \A g \in ring' \ {n} : g \in ring
        /\ \A g \in ring : g.pos < n.pos + HdrSize + s /\ g.pos + HdrSize > n.pos => g \notin ring'
  BY NewestFrame
<1>2. ASSUME NEW b \in Nat, b <= written, \A f \in ring : f.id = b => f \notin ring'
      PROVE  \A f \in ring' : f.id # b
  <2>1. n.id # b
    BY <1>0, <1>1, <1>2
  <2> QED
    BY <1>1, <1>2, <2>1, ZenonT(30)
<1>3. ASSUME NEW i \in Slots, NEW b \in got[i] .. written, \A f \in ring' : f.id # b
      PROVE  Lost(i)'
  <2>1. got[i] \in Nat
    BY DEF IInv, TypeOK
  <2>2. b \in got'[i] .. written'
    BY <1>0, <2>1
  <2> QED
    BY <1>0, <1>3, <2>2 DEF Lost
<1>4. ASSUME NEW i \in Slots, Lost(i) PROVE Lost(i)'
  <2>1. CASE got[i] = 0 \/ got[i] <= Before
    BY <1>0, <2>1 DEF Lost
  <2>2. CASE \E b \in got[i] .. written : \A f \in ring : f.id # b
    <3>1. PICK b \in got[i] .. written : \A f \in ring : f.id # b
      BY <2>2
    <3>2. b \in Nat /\ b <= written
      BY <1>0 DEF IInv, TypeOK
    <3> QED
      BY <1>2, <1>3, <3>1, <3>2
  <2> QED
    BY <1>4, <2>1, <2>2 DEF Lost
<1>5. ASSUME NEW i \in Slots, Overtakes(i, s), ~Lost(i) PROVE Lost(i)'
  <2>0. got[i] \in Nat /\ got[i] <= written /\ readpos[i] \in Nat
    BY DEF IInv, TypeOK, Follows
  <2>1. CASE got[i] <= Before
    BY <1>0, <2>1 DEF Lost
  <2>2. CASE got[i] > Before /\ \A f \in ring : f.id = got[i] => f \notin ring'
    <3>1. \A f \in ring' : f.id # got[i]
      BY <1>2, <2>0, <2>2, ZenonT(30)
    <3>2. got[i] \in got[i] .. written
      BY <1>0, <2>0
    <3> QED
      BY <1>3, <3>1, <3>2, ZenonT(30)
  <2>3. CASE got[i] > Before /\ \E f \in ring : f.id = got[i] /\ f \in ring'
    <3>1. PICK f \in ring : f.id = got[i] /\ f \in ring'
      BY <2>3
    <3>2. readpos[i] = f.next
      BY <2>3, <3>1 DEF Follows
    <3>3. writepos < f.next /\ writepos + HdrSize + s > f.next
      BY <1>5, <3>2 DEF Overtakes
    <3>4. f.pos \in Nat /\ f.next \in Nat /\ f.pos + HdrSize <= f.next /\ f.pos >= writepos
      BY <3>3, FrameFacts
    <3>5. n.pos # writepos
      BY <1>0, <1>1, <3>1, <3>3, <3>4, FrameFacts
    <3>6. n.pos = 0 /\ writepos > 0
      BY <1>1, <3>5
    <3>7. written # 0
      BY <3>6, FrameFacts DEF Numbered
    <3>8. PICK z \in ring : z.pos = 0
      BY <3>7, FrameFacts DEF IInv, FirstHeader, HasHdr
    <3>9. z \notin ring'
      BY <1>0, <1>1, <3>6, <3>8, FrameFacts
    <3>10. z.id > got[i] /\ z.id <= written /\ z.id \in Nat
      BY <3>1, <3>4, <3>6, <3>8, FrameFacts DEF Laps, Numbered
    <3>11. \A h \in ring : h.id = z.id => h \notin ring'
      BY <3>8, <3>9 DEF Numbered
    <3>12. \A h \in ring' : h.id # z.id
      BY <1>2, <3>10, <3>11
    <3>13. z.id \in got[i] .. written
      BY <1>0, <2>0, <3>10
    <3> QED
      BY <1>3, <3>12, <3>13
  <2> QED
    BY <2>0, <2>1, <2>2, <2>3, FrameFacts
<1>6. \A i \in Slots : overwriteread'[i] => overwriteread[i] \/ Overtakes(i, s)
  BY ZenonT(30) DEF WrtieBuffer
<1> QED
  BY <1>4, <1>5, <1>6, ZenonT(30) DEF Marked

\* What concerns the ring alone does not change while nothing is written.
LEMMA RingOrderKept ==
  ASSUME Numbered, Laps, Linked, UNCHANGED <<bufVars, written>>
  PROVE  Numbered' /\ Laps' /\ Linked' /\ Before' = Before
<1>1. UNCHANGED <<ring, writepos, lastwritepos, writecount, written>>
  BY DEF bufVars
<1>2. Before' = Before
  BY <1>1 DEF Before
<1>3. Numbered'
  BY <1>1 DEF Numbered
<1>4. Laps'
  BY <1>1, <1>2 DEF Laps, HasHdr
<1>5. Linked'
  BY <1>1, <1>2 DEF Linked
<1> QED
  BY <1>2, <1>3, <1>4, <1>5

\* A step at which no reader receives a frame or passes the emptiness test.
LEMMA QuietOrder ==
  ASSUME OrderInv, UNCHANGED <<bufVars, written, readpos, got>>,
         \A i \in Slots : overwriteread'[i] => overwriteread[i],
         \A i \in Slots : pc'[i] = "checked" => pc[i] = "checked"
  PROVE  OrderInv'
<1>1. Numbered' /\ Laps' /\ Linked' /\ Before' = Before
  BY RingOrderKept DEF OrderInv
<1>2. UNCHANGED <<ring, writepos, writecount, written, readpos, got>>
  BY DEF bufVars
<1>3. Follows'
  BY <1>1, <1>2 DEF Follows, OrderInv
<1>4. \A i \in Slots : Lost(i)' <=> Lost(i)
  BY <1>1, <1>2, ZenonT(30) DEF Lost
<1>5. Marked'
  BY <1>4, ZenonT(30) DEF Marked, OrderInv
<1> QED
  BY <1>1, <1>3, <1>5 DEF OrderInv

\* A reader that received the frame f stands behind it: what it finds there was
\* written later, or is left from an earlier lap.
LEMMA DeliverOrder ==
  ASSUME IInv, OrderInv, NEW i \in Slots, NEW f \in ring, NEW c, Deliver(i, f, c),
         UNCHANGED <<bufVars, written>>, pc' = [pc EXCEPT ![i] = "idle"],
         ~overwriteread'[i], \A j \in Slots \ {i} : overwriteread'[j] = overwriteread[j]
  PROVE  OrderInv'
<1>1. Numbered' /\ Laps' /\ Linked' /\ Before' = Before
  BY RingOrderKept DEF OrderInv
<1>2. UNCHANGED <<ring, writepos, writecount, written>>
  BY DEF bufVars
<1>3. \A j \in Slots \ {i} : readpos'[j] = readpos[j] /\ got'[j] = got[j] /\ pc'[j] = pc[j]
  BY DEF Deliver, IInv, TypeOK
<1>4. /\ pc'[i] = "idle"
      /\ \/ readpos'[i] = readpos[i] /\ got'[i] = got[i]
         \/ readpos'[i] = f.next /\ got'[i] = f.id
  BY DEF Deliver, IInv, TypeOK
<1>5. ASSUME NEW j \in Slots, readpos'[j] = readpos[j], got'[j] = got[j], pc'[j] = "checked" => pc[j] = "checked"
      PROVE  /\ got'[j] <= written
             /\ \A g \in ring : g.id = got'[j] /\ g.id > Before => readpos'[j] = g.next
             /\ \A g \in ring : g.pos = readpos'[j] => g.id > got'[j] \/ g.pos >= writepos
             /\ pc'[j] = "checked" => got'[j] < written \/ writecount = 0
  BY <1>5, ZenonT(30) DEF Follows, OrderInv
<1>6. ASSUME readpos'[i] = f.next, got'[i] = f.id
      PROVE  /\ got'[i] <= written
             /\ \A g \in ring : g.id = got'[i] /\ g.id > Before => readpos'[i] = g.next
             /\ \A g \in ring : g.pos = readpos'[i] => g.id > got'[i] \/ g.pos >= writepos
  <2>1. f.id <= written /\ \A g \in ring : g.id = f.id => g = f
    <3>1. f.id \in 1 .. written /\ \A g \in ring : g.id = f.id => g = f
      BY ZenonT(30) DEF Numbered, OrderInv
    <3> QED
      BY <3>1
  <2>2. ASSUME NEW g \in ring, g.pos = f.next PROVE g.id > f.id \/ g.pos >= writepos
    <3>1. f.pos < g.pos /\ g.pos \in Nat /\ writepos \in Nat
      BY <2>2, FrameFacts, FrameSpan, ZenonT(30)
    <3>2. CASE g.pos < writepos
      BY <3>1, <3>2, ZenonT(30) DEF OrderInv, Laps
    <3> QED
      BY <3>1, <3>2, Compare, ZenonT(30)
  <2> QED
    BY <1>6, <2>1, <2>2, ZenonT(30)
<1>7. ASSUME NEW j \in Slots
      PROVE  /\ got'[j] <= written
             /\ \A g \in ring : g.id = got'[j] /\ g.id > Before => readpos'[j] = g.next
             /\ \A g \in ring : g.pos = readpos'[j] => g.id > got'[j] \/ g.pos >= writepos
             /\ pc'[j] = "checked" => got'[j] < written \/ writecount = 0
  <2>1. CASE j # i
    BY <1>3, <1>5, <2>1, ZenonT(30)
  <2>2. CASE j = i
    <3>1. CASE readpos'[i] = readpos[i] /\ got'[i] = got[i]
      BY <1>4, <1>5, <2>2, <3>1, ZenonT(30)
    <3>2. CASE readpos'[i] = f.next /\ got'[i] = f.id
      BY <1>4, <1>6, <2>2, <3>2, ZenonT(30)
    <3> QED
      BY <1>4, <3>1, <3>2, ZenonT(30)
  <2> QED
    BY <2>1, <2>2, ZenonT(30)
<1>8. Follows'
  BY <1>1, <1>2, <1>7, ZenonT(30) DEF Follows
<1>9. \A j \in Slots \ {i} : Lost(j)' <=> Lost(j)
  BY <1>1, <1>2, <1>3, ZenonT(30) DEF Lost
<1>10. Marked'
  BY <1>9, ZenonT(30) DEF Marked, OrderInv
<1> QED
  BY <1>1, <1>8, <1>10 DEF OrderInv

\* A reader that passes the emptiness test does not have the newest frame: it
\* would stand at the write position.
LEMMA CheckOrder ==
  ASSUME IInv, OrderInv, NEW i \in Slots, ReadCheck(i)
  PROVE  OrderInv'
<1>1. Numbered' /\ Laps' /\ Linked' /\ Before' = Before
  BY RingOrderKept, ZenonT(30) DEF OrderInv, ReadCheck
<1>2. UNCHANGED <<ring, writepos, writecount, written, readpos, got>>
  BY ZenonT(30) DEF bufVars, ReadCheck
<1>3. got[i] < written \/ writecount = 0
  <2> SUFFICES ASSUME ~(got[i] < written), writecount # 0 PROVE FALSE
    OBVIOUS
  <2>1. got[i] = written
    BY FrameFacts DEF OrderInv, Follows, IInv, TypeOK
  <2>2. PICK f \in ring : f.id = written /\ f.next = writepos
    BY FrameFacts DEF OrderInv, Numbered
  <2>3. f.id > Before
    BY <2>2, FrameFacts DEF Before
  <2>4. readpos[i] = writepos
    BY <2>1, <2>2, <2>3 DEF OrderInv, Follows
  <2> QED
    BY <2>4 DEF ReadCheck
<1>4. \A j \in Slots : pc'[j] = "checked" => pc[j] = "checked" \/ j = i
  BY DEF ReadCheck, IInv, TypeOK
<1>5. Follows'
  BY <1>1, <1>2, <1>3, <1>4 DEF Follows, OrderInv
<1>6. \A j \in Slots : Lost(j)' <=> Lost(j)
  BY <1>1, <1>2 DEF Lost
<1>7. overwriteread' = overwriteread
  BY DEF ReadCheck
<1>8. Marked'
  BY <1>6, <1>7, ZenonT(30) DEF Marked, OrderInv
<1> QED
  BY <1>1, <1>5, <1>8 DEF OrderInv

\* A new reader has received nothing; that it takes over the position of the one
\* before it does no harm.
LEMMA IndexOrder ==
  ASSUME IInv, OrderInv, GetReadIndex
  PROVE  OrderInv'
<1>1. Numbered' /\ Laps' /\ Linked' /\ Before' = Before
  BY RingOrderKept DEF OrderInv, GetReadIndex
<1>2. PICK i \in Slots : /\ got' = [got EXCEPT ![i] = 0]
                         /\ overwriteread' = [overwriteread EXCEPT ![i] = TRUE]
  BY ZenonT(30) DEF GetReadIndex
<1>3. UNCHANGED <<ring, writepos, writecount, written, readpos, pc>>
  BY DEF bufVars, GetReadIndex
<1>4. got'[i] = 0 /\ \A j \in Slots \ {i} : got'[j] = got[j]
  BY <1>2 DEF IInv, TypeOK
<1>5. \A j \in Slots \ {i} : overwriteread'[j] = overwriteread[j]
  BY <1>2, ZenonT(30) DEF IInv, TypeOK
<1>6. \A f \in ring : f.id > 0
  BY DEF OrderInv, Numbered
<1>7. pc[i] = "checked" => 0 < written
  BY DEF IInv, FirstHeader
<1>8. Follows'
  <2> SUFFICES ASSUME NEW j \in Slots
               PROVE  /\ got'[j] <= written
                      /\ \A f \in ring : f.id = got'[j] /\ f.id > Before => readpos[j] = f.next
                      /\ \A f \in ring : f.pos = readpos[j] => f.id > got'[j] \/ f.pos >= writepos
                      /\ pc[j] = "checked" => got'[j] < written \/ writecount = 0
    BY <1>1, <1>3, ZenonT(30) DEF Follows
  <2>1. CASE j = i
    BY <1>4, <1>6, <1>7, <2>1, FrameFacts
  <2>2. CASE j # i
    BY <1>4, <2>2 DEF OrderInv, Follows
  <2> QED
    BY <2>1, <2>2
<1>9. Lost(i)'
  BY <1>4 DEF Lost
<1>10. \A j \in Slots \ {i} : Lost(j)' <=> Lost(j)
  BY <1>1, <1>3, <1>4 DEF Lost
<1>11. Marked'
  BY <1>5, <1>9, <1>10, ZenonT(30) DEF Marked, OrderInv
<1> QED
  BY <1>1, <1>8, <1>11 DEF OrderInv

\* After a reset every frame is an old one.
LEMMA ResetOrder ==
  ASSUME IInv, OrderInv, ResetMediaBuffer
  PROVE  OrderInv'
<1>1. /\ writepos' = 0 /\ lastwritepos' = 0 /\ writecount' = 0
      /\ UNCHANGED <<ring, pc, got, written>>
  BY DEF ResetMediaBuffer
<1>2. Before' = written
  BY <1>1, FrameFacts DEF Before
<1>3. \A f \in ring : f.pos >= 0 /\ ~(f.pos < 0) /\ f.id <= written /\ ~(f.id > written)
  BY FrameFacts DEF OrderInv, Numbered
<1>4. Numbered'
  BY <1>1, FrameFacts DEF OrderInv, Numbered
<1>5. Laps'
  BY <1>1, <1>3 DEF Laps
<1>6. Linked'
  <2> SUFFICES ASSUME NEW f \in ring, NEW g \in ring
               PROVE  /\ g.id > written /\ f.id = g.id + 1 => f.prev = g.pos
                      /\ f.id > written /\ g.pos = f.prev => g.id > written /\ g.id >= f.id - 1
    BY <1>1, <1>2 DEF Linked
  <2> QED
    BY <1>3
<1>7. Follows'
  BY <1>1, <1>2, <1>3 DEF Follows, OrderInv
<1>8. \A i \in Slots : ~overwriteread'[i]
  BY ZenonT(30) DEF ResetMediaBuffer
<1>9. Marked'
  BY <1>8, ZenonT(30) DEF Marked
<1> QED
  BY <1>4, <1>5, <1>6, <1>7, <1>9 DEF OrderInv

\* Every operation keeps the order.
LEMMA NextOrder == IInv /\ OrderInv /\ [Next]_vars => OrderInv'
<1> SUFFICES ASSUME IInv, OrderInv, [Next]_vars PROVE OrderInv'
  OBVIOUS
<1>1. CASE Receive
  <2>1. PICK s \in Sizes, t \in FrameTypes : WrtieBuffer(s, t)
    BY <1>1 DEF Receive
  <2>2. Numbered /\ Laps /\ Linked /\ Follows /\ Marked
    BY DEF OrderInv
  <2>3. Numbered' /\ Laps' /\ Linked' /\ Follows' /\ Marked'
    BY <2>1, <2>2, WriteNumbered, WriteLaps, WriteLinked, WriteFollows, WriteMarked, ZenonT(30)
  <2> QED
    BY <2>3 DEF OrderInv
<1>2. CASE ResetMediaBuffer
  BY <1>2, ResetOrder
<1>3. CASE GetReadIndex
  BY <1>3, IndexOrder
<1>4. ASSUME NEW i \in Slots, ReleaseReader(i) PROVE OrderInv'
  <2>1. UNCHANGED <<bufVars, written, readpos, got>> /\ UNCHANGED <<overwriteread, pc>>
    BY <1>4 DEF ReleaseReader
  <2> QED
    BY <2>1, QuietOrder
<1>5. ASSUME NEW i \in Slots, ReadCheck(i) PROVE OrderInv'
  BY <1>5, CheckOrder
<1>6. ASSUME NEW i \in Slots, ReadNext(i) PROVE OrderInv'
  <2>1. HeaderFrom(readpos[i]) \in ring
    BY <1>6, AtInRing, ZenonT(30) DEF ReadNext, HeaderFrom, IInv, FirstHeader
  <2>2. /\ Deliver(i, HeaderFrom(readpos[i]), readcount[i]) /\ pc' = [pc EXCEPT ![i] = "idle"]
        /\ UNCHANGED <<bufVars, written>>
    BY <1>6, ZenonT(30) DEF ReadNext
  <2>3. ~overwriteread'[i] /\ \A j \in Slots \ {i} : overwriteread'[j] = overwriteread[j]
    BY <1>6, ZenonT(30) DEF ReadNext
  <2> QED
    BY <2>1, <2>2, <2>3, DeliverOrder, ZenonT(30)
<1>7. ASSUME NEW i \in Slots, overwriteread' = [overwriteread EXCEPT ![i] = FALSE]
      PROVE  ~overwriteread'[i] /\ \A j \in Slots \ {i} : overwriteread'[j] = overwriteread[j]
  BY <1>7, ZenonT(30) DEF IInv, TypeOK
<1>8. ASSUME NEW i \in Slots, ReadResync(i) PROVE OrderInv'
  <2>1. At(WalkPos[HaltStep]) \in ring
    BY <1>8, AtInRing, ZenonT(30) DEF ReadResync, WalkFinds, IsKeyAt
  <2>2. /\ Deliver(i, At(WalkPos[HaltStep]), writecount - 1 - HaltStep)
        /\ pc' = [pc EXCEPT ![i] = "idle"] /\ UNCHANGED <<bufVars, written>>
    BY <1>8 DEF ReadResync
  <2>3. ~overwriteread'[i] /\ \A j \in Slots \ {i} : overwriteread'[j] = overwriteread[j]
    BY <1>7, <1>8, ZenonT(30) DEF ReadResync
  <2> QED
    BY <2>1, <2>2, <2>3, DeliverOrder, ZenonT(30)
<1>9. ASSUME NEW i \in Slots, pc' = [pc EXCEPT ![i] = "idle"] \/ UNCHANGED pc
      PROVE  \A j \in Slots : pc'[j] = "checked" => pc[j] = "checked"
  BY <1>9 DEF IInv, TypeOK
<1>10. ASSUME NEW i \in Slots, ReadNoKey(i) PROVE OrderInv'
  <2>1. UNCHANGED <<bufVars, written, readpos, got>> /\ UNCHANGED overwriteread
    BY <1>10 DEF ReadNoKey
  <2>2. \A j \in Slots : pc'[j] = "checked" => pc[j] = "checked"
    BY <1>9, <1>10 DEF ReadNoKey
  <2> QED
    BY <2>1, <2>2, QuietOrder
<1>11. ASSUME NEW i \in Slots, ReadStray(i) PROVE OrderInv'
  <2>1. UNCHANGED <<bufVars, written>>
    BY <1>11 DEF ReadStray
  <2>2. \/ /\ pc' = [pc EXCEPT ![i] = "idle"] \/ UNCHANGED pc
           /\ UNCHANGED <<readpos, overwriteread, got>>
        \/ \E f \in ring : /\ overwriteread' = [overwriteread EXCEPT ![i] = FALSE]
                           /\ \E c : Deliver(i, f, c)
                           /\ pc' = [pc EXCEPT ![i] = "idle"]
    BY <1>11, ZenonT(30) DEF ReadStray
  <2>3. CASE /\ pc' = [pc EXCEPT ![i] = "idle"] \/ UNCHANGED pc
             /\ UNCHANGED <<readpos, overwriteread, got>>
    <3>1. \A j \in Slots : pc'[j] = "checked" => pc[j] = "checked"
      BY <1>9, <2>3
    <3> QED
      BY <2>1, <2>3, <3>1, QuietOrder
  <2>4. CASE \E f \in ring : /\ overwriteread' = [overwriteread EXCEPT ![i] = FALSE]
                             /\ \E c : Deliver(i, f, c)
                             /\ pc' = [pc EXCEPT ![i] = "idle"]
    <3>1. PICK f \in ring : \E c : Deliver(i, f, c)
      BY <2>4
    <3>2. PICK c : Deliver(i, f, c)
      BY <3>1
    <3>3. ~overwriteread'[i] /\ \A j \in Slots \ {i} : overwriteread'[j] = overwriteread[j]
      BY <1>7, <2>4, ZenonT(30)
    <3>4. pc' = [pc EXCEPT ![i] = "idle"]
      BY <2>4
    <3> QED
      BY <2>1, <3>2, <3>3, <3>4, DeliverOrder, ZenonT(30)
  <2> QED
    BY <2>2, <2>3, <2>4
<1>12. ASSUME NEW i \in Slots, ReadHang(i) PROVE OrderInv'
  <2>1. UNCHANGED <<bufVars, written, readpos, got>> /\ UNCHANGED <<overwriteread, pc>>
    BY <1>12 DEF ReadHang, rdVars
  <2> QED
    BY <2>1, QuietOrder
<1>13. CASE UNCHANGED vars
  <2>1. UNCHANGED <<bufVars, written, readpos, got>> /\ UNCHANGED <<overwriteread, pc>>
    BY <1>13 DEF vars, rdVars
  <2> QED
    BY <2>1, QuietOrder
<1> QED
  BY <1>1, <1>2, <1>3, <1>4, <1>5, <1>6, <1>8, <1>10, <1>11, <1>12, <1>13 DEF Next, ReadBuffer

\* The order of the frames and of what the readers have received, in every state.
LEMMA Ordered == Spec => [](IInv /\ OrderInv)
<1>1. Init => OrderInv
  <2> SUFFICES ASSUME Init PROVE OrderInv
    OBVIOUS
  <2>1. Numbered /\ Laps /\ Linked
    BY DEF Init, Numbered, Laps, Linked
  <2>2. Follows
    BY DEF Init, Follows
  <2>3. \A i \in Slots : Lost(i)
    BY DEF Init, Lost
  <2> QED
    BY <2>1, <2>2, <2>3 DEF OrderInv, Marked
<1> QED
  BY <1>1, InitIInv, NextIInv, NextOrder, PTL DEF Spec

-----------------------------------------------------------------------------
(* What ReadBuffer delivers, and where its search ends. *)

\* The frame that a reader takes from its position, or from 0 when there is no
\* header at its position, is newer than the last one.
LEMMA NextAdvances ==
  ASSUME IInv, OrderInv, NEW i \in Slots, pc[i] = "checked", NEW f, f = HeaderFrom(readpos[i])
  PROVE  f.id > got[i] \/ f.pos >= writepos
<1>1. CASE HasHdr(readpos[i])
  <2>1. f \in ring /\ f.pos = readpos[i]
    BY <1>1, AtInRing DEF HeaderFrom
  <2> QED
    BY <2>1 DEF OrderInv, Follows
<1>2. CASE ~HasHdr(readpos[i])
  <2>1. f \in ring /\ f.pos = 0
    BY <1>2, AtInRing DEF HeaderFrom, IInv, FirstHeader
  <2>2. f.id \in Nat /\ got[i] \in Nat /\ got[i] <= written
    BY <2>1, FrameFacts DEF IInv, TypeOK, OrderInv, Follows
  <2> SUFFICES ASSUME f.id <= got[i], f.pos < writepos PROVE FALSE
    BY <2>1, <2>2, FrameFacts, Compare, ZenonT(30)
  <2>3. got[i] \in f.id .. written
    BY <2>2, FrameFacts
  <2>4. PICK g \in ring : g.id = got[i] /\ g.pos < writepos
    BY <2>1, <2>3 DEF OrderInv, Laps
  <2>5. g.id > Before /\ (g.next # writepos => HasHdr(g.next))
    BY <2>4 DEF OrderInv, Laps
  <2>6. readpos[i] = g.next
    BY <2>4, <2>5 DEF OrderInv, Follows
  <2>7. g.next = writepos
    BY <1>2, <2>5, <2>6
  <2>8. writecount # 0
    BY <2>1, FrameFacts DEF OrderInv, Numbered
  <2>9. PICK h \in ring : h.id = written /\ h.next = writepos
    BY <2>8, FrameFacts DEF OrderInv, Numbered
  <2>10. g = h
    <3>1. g.pos \in Nat /\ h.pos \in Nat /\ g.next \in Nat /\ h.next \in Nat
          /\ g.pos + HdrSize <= g.next /\ h.pos + HdrSize <= h.next
      BY FrameFacts
    <3>2. ~(g.pos < h.pos) /\ ~(h.pos < g.pos)
      BY <2>7, <2>9, <3>1, FrameFacts
    <3> QED
      BY <3>1, <3>2, FrameFacts
  <2> QED
    BY <2>2, <2>4, <2>8, <2>9, <2>10, FrameFacts DEF OrderInv, Follows
<1> QED
  BY <1>1, <1>2

\* The search goes back one frame at a time or jumps forward, so it does not pass a
\* number that no frame has.
LEMMA WalkAbove ==
  ASSUME IInv, OrderInv, writecount > 0, NEW b \in Nat, b <= written, NEW m \in Nat, HasHdr(WalkPos[m])
  PROVE  /\ At(WalkPos[m]).id > Before
         /\ (\A f \in ring : f.id # b) => At(WalkPos[m]).id > b
<1> DEFINE P(k) == /\ At(WalkPos[k]).id > Before
                   /\ (\A f \in ring : f.id # b) => At(WalkPos[k]).id > b
           S == {k \in Nat : HasHdr(WalkPos[k]) /\ ~P(k)}
<1> SUFFICES ASSUME S # {} PROVE FALSE
  OBVIOUS
<1>1. PICK k \in S : \A j \in S : k <= j
  <2>1. S \subseteq Nat
    OBVIOUS
  <2> QED
    BY <2>1, LeastNat, ZenonT(30)
<1>2. k \in Nat /\ HasHdr(WalkPos[k]) /\ ~P(k)
  BY <1>1
<1> DEFINE g == At(WalkPos[k])
<1>3. g \in ring /\ g.pos = WalkPos[k] /\ g.id \in Nat
  BY <1>2, AtInRing, FrameFacts, ZenonT(30)
<1>4. CASE k = 0
  <2>1. PICK h \in ring : h.id = written /\ h.pos = lastwritepos
    BY DEF OrderInv, Numbered
  <2>2. g = h
    BY <1>3, <1>4, <2>1, WalkStep, FrameFacts
  <2>3. g.id > Before
    BY <2>1, <2>2, FrameFacts DEF Before
  <2>4. (\A f \in ring : f.id # b) => g.id > b
    BY <1>3, <2>1, <2>2, FrameFacts
  <2> QED
    BY <1>2, <2>3, <2>4
<1>5. CASE k # 0
  <2>1. k - 1 \in Nat /\ k - 1 \notin S
    BY <1>1, <1>2, <1>5
  <2>2. WalkPos[k] = PrevOf(WalkPos[k - 1])
    <3>1. (k - 1) + 1 = k
      BY <1>2
    <3> QED
      BY <2>1, <3>1, WalkStep
  <2>3. HasHdr(WalkPos[k - 1])
    <3> SUFFICES ASSUME ~HasHdr(WalkPos[k - 1]) PROVE FALSE
      OBVIOUS
    <3>1. WalkPos[k] = -1
      BY <2>2 DEF PrevOf
    <3> QED
      BY <1>3, <3>1, FrameFacts
  <2> DEFINE f == At(WalkPos[k - 1])
  <2>4. P(k - 1)
    BY <2>1, <2>3, ZenonT(30)
  <2>5. f \in ring /\ f.prev = g.pos /\ f.id \in Nat
    BY <1>3, <2>2, <2>3, AtInRing, FrameFacts, ZenonT(30) DEF PrevOf
  <2>6. g.id > Before /\ g.id >= f.id - 1
    BY <1>3, <2>4, <2>5, ZenonT(30) DEF OrderInv, Linked
  <2>7. ASSUME \A h \in ring : h.id # b PROVE g.id > b
    <3>1. f.id > b /\ g.id # b
      BY <1>3, <2>4, <2>7, ZenonT(30)
    <3> QED
      BY <1>3, <2>5, <2>6, <3>1, OneBelow, ZenonT(30)
  <2> QED
    BY <1>2, <2>6, <2>7
<1> QED
  BY <1>4, <1>5

\* ReadBuffer never hands a reader a frame that it already had or one older than
\* that, except from what is left of an earlier lap.
THEOREM ReadersAdvance == Spec => []DeliveryAdvances
<1>1. ASSUME IInv, OrderInv PROVE DeliveryAdvances
  <2>1. ASSUME NEW i \in Slots, pc[i] = "checked", overwriteread[i], WalkFinds
        PROVE  At(WalkPos[HaltStep]).id > got[i]
    <3> DEFINE g == At(WalkPos[HaltStep])
    <3>1. HaltStep \in Nat
      BY <1>1, <2>1, HaltStepNat DEF WalkFinds, IInv, Geometry
    <3>2. HasHdr(WalkPos[HaltStep])
      BY <2>1 DEF WalkFinds, IsKeyAt
    <3>3. g \in ring /\ g.id \in Nat /\ g.id > 0
      BY <1>1, <3>2, AtInRing DEF OrderInv, Numbered
    <3>4. Lost(i) /\ got[i] \in Nat /\ got[i] <= written
      BY <1>1, <2>1 DEF OrderInv, Marked, Follows, IInv, TypeOK
    <3>5. CASE got[i] = 0
      BY <3>3, <3>5
    <3>6. CASE writecount > 0 /\ got[i] <= Before
      <4>1. g.id > Before
        BY <1>1, <3>1, <3>2, <3>4, <3>6, WalkAbove
      <4> QED
        BY <1>1, <3>3, <3>4, <3>6, <4>1, FrameFacts
    <3>7. CASE writecount > 0 /\ \E b \in got[i] .. written : \A f \in ring : f.id # b
      <4>1. PICK b \in got[i] .. written : \A f \in ring : f.id # b
        BY <3>7
      <4>2. b \in Nat /\ b <= written /\ got[i] <= b
        BY <1>1, <3>4, FrameFacts
      <4>3. g.id > b
        BY <1>1, <3>1, <3>2, <3>7, <4>1, <4>2, WalkAbove
      <4> QED
        BY <3>3, <3>4, <4>2, <4>3
    <3> QED
      BY <3>4, <3>5, <3>6, <3>7 DEF Lost
  <2> QED
    BY <1>1, <2>1, NextAdvances, ZenonT(30) DEF DeliveryAdvances
<1> QED
  BY <1>1, Ordered, PTL

\* As many frames as there are numbers in a row, if each number has its frame.
LEMMA RunIsShort ==
  ASSUME IInv, NEW a \in Nat, NEW b \in Nat, a <= b,
         \A n \in a .. b : \E g \in ring : g.id = n
  PROVE  b - a <= Cardinality(ring)
<1> DEFINE frame == [n \in a .. b |-> CHOOSE g \in ring : g.id = n]
<1>1. \A n \in a .. b : frame[n] \in ring /\ frame[n].id = n
  OBVIOUS
<1>2. frame \in Injection(a .. b, ring)
  <2>1. frame \in [a .. b -> ring]
    BY <1>1
  <2>2. \A m, n \in a .. b : frame[m] = frame[n] => m = n
    BY <1>1
  <2> HIDE DEF frame
  <2> QED
    BY <2>1, <2>2 DEF Injection, IsInjective
<1>3. IsFiniteSet(ring)
  BY DEF IInv, Geometry
<1>4. Cardinality(a .. b) <= Cardinality(ring)
  BY <1>2, <1>3, FS_Injection, ZenonT(30)
<1>5. Cardinality(a .. b) = b - a + 1 /\ Cardinality(ring) \in Nat
  <2>1. Cardinality(a .. b) = IF a > b THEN 0 ELSE b - a + 1
    BY FS_Interval
  <2> QED
    BY <1>3, <2>1, FS_CardinalityType
<1> QED
  BY <1>4, <1>5

\* Along frames that survive without a gap the search stands, after k steps, at the
\* frame with the k-th number before the newest.
LEMMA WalkBack ==
  ASSUME IInv, OrderInv, writecount > 0, NEW a \in Nat, a > Before,
         \A n \in a .. written : \E g \in ring : g.id = n,
         NEW m \in Nat, m <= written - a
  PROVE  \E f \in ring : f.id = written - m /\ f.pos = WalkPos[m]
<1> DEFINE P(k) == \E f \in ring : f.id = written - k /\ f.pos = WalkPos[k]
           S == {k \in 0 .. m : ~P(k)}
<1> SUFFICES ASSUME S # {} PROVE FALSE
  OBVIOUS
<1>0. written \in Nat
  BY FrameFacts
<1>1. PICK k \in S : \A j \in S : k <= j
  <2>1. S \subseteq Nat
    OBVIOUS
  <2> QED
    BY <2>1, LeastNat, ZenonT(30)
<1>2. k \in 0 .. m /\ k \in Nat /\ ~P(k)
  BY <1>1
<1>3. k # 0
  <2>1. PICK h \in ring : h.id = written /\ h.pos = lastwritepos
    BY DEF OrderInv, Numbered
  <2>2. WalkPos[0] = lastwritepos /\ written - 0 = written
    BY <1>0, WalkStep
  <2>3. P(0)
    BY <2>1, <2>2
  <2> QED
    BY <1>2, <2>3
<1>4. k - 1 \in Nat /\ k - 1 \in 0 .. m /\ k - 1 \notin S /\ (k - 1) + 1 = k
  BY <1>1, <1>2, <1>3
<1>5. PICK f \in ring : f.id = written - (k - 1) /\ f.pos = WalkPos[k - 1]
  BY <1>4
<1>6. written - k \in a .. written /\ f.id = (written - k) + 1 /\ written - k > Before
  BY <1>0, <1>2, <1>4, <1>5, FrameFacts
<1>7. PICK g \in ring : g.id = written - k
  BY <1>6
<1>8. f.prev = g.pos
  BY <1>5, <1>6, <1>7 DEF OrderInv, Linked
<1>9. WalkPos[k] = f.prev
  <2>1. WalkPos[k] = PrevOf(WalkPos[k - 1])
    BY <1>4, WalkStep
  <2>2. HasHdr(WalkPos[k - 1]) /\ At(WalkPos[k - 1]) = f
    <3>1. HasHdr(WalkPos[k - 1])
      BY <1>5 DEF HasHdr
    <3> QED
      BY <1>5, <3>1, AtInRing, FrameFacts
  <2> QED
    BY <2>1, <2>2 DEF PrevOf
<1> QED
  BY <1>2, <1>7, <1>8, <1>9

\* The search of ReadBuffer ends at the newest key frame from which an unbroken run
\* of frames leads to the newest frame, whenever there is one, after as many steps
\* as there are frames after it.
THEOREM ResyncAtNewestKey == Spec => []ResyncFindsNewestKey
<1>1. ASSUME IInv, OrderInv, writecount > 0, Keys(Suffix) # {}
      PROVE  /\ WalkFinds
             /\ At(WalkPos[HaltStep]) \in Suffix
             /\ At(WalkPos[HaltStep]).id = written - HaltStep
             /\ \A f \in Keys(Suffix) : f.id <= At(WalkPos[HaltStep]).id
  <2>0. written \in Nat /\ writecount \in Nat /\ Before \in Int
    BY <1>1, FrameFacts
  <2> DEFINE D == {written - f.id : f \in Keys(Suffix)}
  <2>1. \A f \in Suffix : f \in ring /\ f.id \in Nat /\ f.id <= written /\ f.id > Before
                          /\ \A n \in f.id .. written : \E g \in ring : g.id = n
    BY <1>1 DEF Suffix, OrderInv, Numbered, Before
  <2>2. PICK d \in D : \A e \in D : d <= e
    <3>1. D \subseteq Nat /\ D # {}
      BY <1>1, <2>0, <2>1 DEF Keys
    <3> QED
      BY <3>1, LeastNat, ZenonT(30)
  <2>3. PICK K \in Keys(Suffix) : d = written - K.id
    BY <2>2
  <2>4. K \in Suffix /\ K.type = IFRAME
    BY <2>3 DEF Keys
  <2>5. K \in ring /\ K.id \in Nat /\ K.id <= written /\ K.id > Before
        /\ \A n \in K.id .. written : \E g \in ring : g.id = n
    BY <2>1, <2>4
  <2>6. d \in Nat /\ written - d = K.id
    BY <2>0, <2>3, <2>5
  <2>7. \A f \in Keys(Suffix) : f.id <= K.id
    <3> SUFFICES ASSUME NEW f \in Keys(Suffix) PROVE f.id <= K.id
      OBVIOUS
    <3>1. written - f.id \in D /\ f.id \in Nat
      BY <2>1 DEF Keys
    <3>2. d <= written - f.id
      BY <2>2, <3>1
    <3> QED
      BY <2>0, <2>3, <2>5, <3>1, <3>2
  <2>8. ASSUME NEW k \in 0 .. d
        PROVE  \E f \in ring : /\ f.id = written - k /\ f.pos = WalkPos[k]
                               /\ HasHdr(WalkPos[k]) /\ At(WalkPos[k]) = f
    <3>1. k \in Nat /\ k <= written - K.id
      BY <2>3, <2>6
    <3>2. PICK f \in ring : f.id = written - k /\ f.pos = WalkPos[k]
      BY <1>1, <2>5, <3>1, WalkBack
    <3>3. HasHdr(WalkPos[k])
      BY <3>2 DEF HasHdr
    <3> QED
      BY <1>1, <3>2, <3>3, AtInRing, FrameFacts, ZenonT(30)
  <2>9. HasHdr(WalkPos[d]) /\ At(WalkPos[d]) = K
    <3>0. d \in 0 .. d
      BY <2>6
    <3>1. PICK f \in ring : f.id = written - d /\ HasHdr(WalkPos[d]) /\ At(WalkPos[d]) = f
      BY <2>8, <3>0, ZenonT(30)
    <3> QED
      BY <1>1, <2>5, <2>6, <3>1, ZenonT(60) DEF OrderInv, Numbered
  <2>10. ASSUME NEW k \in 0 .. d - 1 PROVE ~Halts(k)
    <3>0. k \in 0 .. d /\ k + 1 \in 0 .. d /\ k \in Nat
      BY <2>6
    <3>1. PICK f \in ring : /\ f.id = written - k /\ f.pos = WalkPos[k]
                            /\ HasHdr(WalkPos[k]) /\ At(WalkPos[k]) = f
      BY <2>8, <3>0
    <3>2. f.id > K.id /\ f.id > Before /\ f.id <= written /\ f.id \in Nat
      BY <2>0, <2>5, <2>6, <3>0, <3>1
    <3>3. f.type # IFRAME
      <4> SUFFICES ASSUME f.type = IFRAME PROVE FALSE
        OBVIOUS
      <4>1. \A n \in f.id .. written : n \in K.id .. written
        BY <2>0, <2>5, <3>2
      <4>2. f \in Suffix
        BY <2>5, <3>2, <4>1 DEF Suffix, Before
      <4>3. f.id <= K.id
        BY <2>7, <4>2 DEF Keys
      <4> QED
        BY <2>5, <3>2, <4>3
    <3>4. ~IsEndAt(WalkPos[k])
      <4> SUFFICES ASSUME f.pos = 0, f.prev = 0 PROVE FALSE
        BY <3>1 DEF IsEndAt
      <4>1. PICK g \in ring : g.id = written - (k + 1)
        BY <2>8, <3>0
      <4>2. g.id > Before /\ f.id = g.id + 1
        BY <2>0, <2>5, <2>6, <3>0, <3>1, <4>1
      <4>3. f.prev = g.pos
        BY <1>1, <4>2 DEF OrderInv, Linked
      <4>4. f = g
        BY <1>1, <4>3, FrameFacts
      <4> QED
        BY <3>2, <4>2, <4>4
    <3> QED
      BY <3>1, <3>3, <3>4 DEF Halts, IsKeyAt
  <2>11. d \in HaltSteps
    <3>1. d <= Cardinality(ring) /\ Cardinality(ring) \in Nat
      BY <1>1, <2>0, <2>3, <2>5, RunIsShort, FS_CardinalityType, ZenonT(30) DEF IInv, Geometry
    <3>2. IsKeyAt(WalkPos[d])
      BY <2>4, <2>9 DEF IsKeyAt
    <3> QED
      BY <2>6, <3>1, <3>2 DEF HaltSteps, Halts
  <2>12. HaltStep = d
    <3>1. ~WalkLoops
      BY <2>11 DEF WalkLoops
    <3>2. HaltStep \in HaltSteps /\ HaltStep \in Nat
      BY <1>1, <3>1, HaltStepNat DEF IInv, Geometry
    <3>3. HaltStep <= d
      <4>1. \E k \in HaltSteps : \A j \in HaltSteps : k <= j
        <5>1. Cardinality(ring) \in Nat
          BY <1>1, FS_CardinalityType DEF IInv, Geometry
        <5>2. HaltSteps \subseteq Nat
          BY <5>1 DEF HaltSteps
        <5> QED
          BY <2>11, <5>2, LeastNat, ZenonT(30)
      <4>2. \A j \in HaltSteps : HaltStep <= j
        BY <4>1 DEF HaltStep
      <4> QED
        BY <2>11, <4>2
    <3>4. HaltStep \notin 0 .. d - 1
      BY <2>10, <3>2 DEF HaltSteps
    <3> QED
      BY <2>6, <3>2, <3>3, <3>4
  <2>13. WalkFinds
    BY <2>4, <2>9, <2>11, <2>12 DEF WalkFinds, WalkLoops, IsKeyAt
  <2> QED
    BY <2>4, <2>6, <2>7, <2>9, <2>12, <2>13, ZenonT(30)
<1>2. IInv /\ OrderInv => ResyncFindsNewestKey
  BY <1>1 DEF ResyncFindsNewestKey
<1> QED
  BY <1>2, Ordered, PTL
=============================================================================
