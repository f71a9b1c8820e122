----------------------- MODULE MediaBufferLockProofs -----------------------
(***************************************************************************)
(* No sleeper on the mutex of a media buffer is forgotten, for every set   *)
(* of writers and every number of resets.                                  *)
(***************************************************************************)
EXTENDS MediaBufferLock, TLAPS

\* A leaf that names no prover is tried with the SMT solver, a second time when its
\* translation does not finish, and then with Zenon.
USE SMTT(30), Z3T(30), ZenonT(30)

\* A word that is not free was left so by a thread that is still inside.  While
\* a reset has the mutex copied and nobody uses it, the copy is the word, and
\* after the memset the word is clear.
Occupied == word # 0 => \E t \in Threads : pc[t] \in Inside
CopyTrue ==
  ~raced => /\ pc[Task] = "memset" => tmpmutex = word
            /\ pc[Task] \in {"restorebuf", "restore"} => word = 0

IInv == TypeOK /\ Occupied /\ CopyTrue /\ SleeperHasWaker

Copied == {"memset", "restorebuf", "restore"}

\* pthread_mutex_lock, its first attempt: a thread that finds the word free is
\* inside, and one that does not is on its way to sleep.
LEMMA LockFastStep ==
  ASSUME IInv, NEW t \in Threads, LockFast(t)
  PROVE  IInv'
<1>0. /\ pc \in [Threads -> Locations] /\ Task \in Threads /\ pc[t] = "lock"
      /\ raced' = (raced \/ pc[Task] \in Copied)
      /\ UNCHANGED <<futexq, tmpmutex, buf, resets>>
  BY DEF LockFast, Uses, Threads, IInv, TypeOK, Copied
<1>1. PICK l \in {"cs", "slow"} : /\ pc' = [pc EXCEPT ![t] = l]
                                  /\ l = "cs" => word = 0 /\ word' = 1
                                  /\ l = "slow" => word # 0 /\ word' = word
  BY DEF LockFast, Goto
<1>2. pc'[t] = l /\ \A u \in Threads : u # t => pc'[u] = pc[u]
  BY <1>0, <1>1
<1>3. TypeOK'
  BY <1>0, <1>1 DEF IInv, TypeOK, Locations
<1>4. Occupied'
  <2>1. CASE l = "cs"
    BY <1>2, <2>1 DEF Occupied, Inside
  <2>2. CASE l = "slow"
    <3>1. PICK u \in Threads : pc[u] \in Inside
      BY <1>1, <2>2 DEF IInv, Occupied
    <3>2. pc'[u] \in Inside
      BY <1>0, <1>2, <3>1 DEF Inside
    <3>. QED
      BY <3>2 DEF Occupied
  <2>. QED
    BY <2>1, <2>2
<1>5. raced' \/ (~raced /\ pc[Task] \notin Copied /\ pc'[Task] \notin Copied)
  BY <1>0, <1>2, ZenonT(30) DEF Copied
<1>6. CopyTrue'
  BY <1>5 DEF CopyTrue, Copied
<1>7. SleeperHasWaker'
  <2>1. CASE l = "slow"
    BY <1>2, <2>1 DEF SleeperHasWaker
  <2>2. CASE l = "cs"
    <3>. SUFFICES ASSUME futexq # << >>, ~raced'
                  PROVE  \E u \in Threads : pc'[u] = "slow"
      BY <1>0 DEF SleeperHasWaker
    <3>1. \E u \in Threads : pc[u] = "slow"
      BY <1>1, <1>5, <2>2 DEF IInv, SleeperHasWaker, Copied
    <3>. QED
      BY <1>0, <1>2, <3>1
  <2>. QED
    BY <2>1, <2>2
<1>. QED
  BY <1>3, <1>4, <1>6, <1>7 DEF IInv

\* Its further attempts: the word is 2 afterwards, and someone is inside, the
\* thread itself or whoever held the mutex when it went to sleep.
LEMMA LockSlowStep ==
  ASSUME IInv, NEW t \in Threads, LockSlow(t)
  PROVE  IInv'
<1>0. /\ pc \in [Threads -> Locations] /\ Task \in Threads /\ pc[t] = "slow" /\ word' = 2
      /\ raced' = (raced \/ pc[Task] \in Copied)
      /\ UNCHANGED <<tmpmutex, buf, resets>>
  BY DEF LockSlow, Uses, Threads, IInv, TypeOK, Copied
<1>1. PICK l \in {"cs", "asleep"} : /\ pc' = [pc EXCEPT ![t] = l]
                                    /\ l = "asleep" => word # 0 /\ futexq' = Append(futexq, t)
                                    /\ l = "cs" => futexq' = futexq
  BY DEF LockSlow, Goto
<1>2. pc'[t] = l /\ \A u \in Threads : u # t => pc'[u] = pc[u]
  BY <1>0, <1>1
<1>3. TypeOK'
  BY <1>0, <1>1 DEF IInv, TypeOK, Locations
<1>4. \E u \in Threads : pc'[u] \in Inside
  <2>1. CASE l = "cs"
    BY <1>2, <2>1 DEF Inside
  <2>2. CASE l = "asleep"
    <3>1. PICK u \in Threads : pc[u] \in Inside
      BY <1>1, <2>2 DEF IInv, Occupied
    <3>2. pc'[u] \in Inside
      BY <1>0, <1>2, <3>1 DEF Inside
    <3>. QED
      BY <3>2
  <2>. QED
    BY <2>1, <2>2
<1>5. raced' \/ (~raced /\ pc[Task] \notin Copied /\ pc'[Task] \notin Copied)
  BY <1>0, <1>2, ZenonT(30) DEF Copied
<1>6. CopyTrue'
  BY <1>5 DEF CopyTrue, Copied
<1>. QED
  BY <1>0, <1>3, <1>4, <1>6 DEF IInv, Occupied, SleeperHasWaker

\* pthread_mutex_unlock by a thread that is not on its way to sleep, the holder
\* or not, wakes the oldest sleeper if the word says so; otherwise the sleepers
\* have their waker already.
LEMMA UnlockStep ==
  ASSUME IInv, NEW t \in Threads, NEW l \in Locations \ Copied, Unlock(t, l), pc[t] # "slow",
         UNCHANGED <<tmpmutex, buf, resets>>
  PROVE  IInv'
<1>0. /\ pc \in [Threads -> Locations] /\ Task \in Threads /\ word' = 0
      /\ raced' = (raced \/ pc[Task] \in Copied)
  BY DEF Unlock, Uses, Threads, IInv, TypeOK, Copied
<1>1. Occupied'
  BY <1>0 DEF Occupied
<1>2. CASE word = 2 /\ futexq # << >>
  <2>1. /\ futexq' = Tail(futexq) /\ Head(futexq) \in Threads
        /\ pc' = [pc EXCEPT ![t] = l, ![Head(futexq)] = "slow"]
    BY <1>2 DEF Unlock, IInv, TypeOK
  <2>2. pc' \in [Threads -> Locations] /\ pc'[Head(futexq)] = "slow"
    BY <1>0, <2>1 DEF Locations
  <2>3. futexq' \in Seq(Threads)
    BY <1>2, <2>1 DEF IInv, TypeOK
  <2>4. TypeOK'
    BY <1>0, <2>2, <2>3 DEF IInv, TypeOK
  <2>5. raced' \/ pc'[Task] \notin Copied
    BY <1>0, <2>1, ZenonT(30) DEF Copied
  <2>. QED
    BY <1>1, <2>1, <2>2, <2>4, <2>5 DEF IInv, SleeperHasWaker, CopyTrue, Copied
<1>3. CASE ~(word = 2 /\ futexq # << >>)
  <2>1. pc' = [pc EXCEPT ![t] = l] /\ futexq' = futexq
    BY <1>3 DEF Unlock, Goto
  <2>2. TypeOK'
    BY <1>0, <2>1 DEF IInv, TypeOK
  <2>3. raced' \/ (~raced /\ pc[Task] \notin Copied /\ pc'[Task] \notin Copied)
    BY <1>0, <2>1, ZenonT(30) DEF Copied
  <2>4. SleeperHasWaker'
    <3>. SUFFICES ASSUME futexq # << >>, ~raced'
                  PROVE  \E u \in Threads : pc'[u] = "slow"
      BY <2>1 DEF SleeperHasWaker
    <3>1. \E u \in Threads : pc[u] = "slow"
      BY <1>3, <2>3 DEF IInv, SleeperHasWaker, Copied
    <3>. QED
      BY <1>0, <2>1, <3>1
  <2>. QED
    BY <1>1, <2>2, <2>3, <2>4 DEF IInv, CopyTrue, Copied
<1>. QED
  BY <1>2, <1>3

\* A thread moves and touches neither the mutex nor its copy.  It does not come
\* from inside or from a wake-up.
LEMMA MoveStep ==
  ASSUME IInv, NEW t \in Threads, NEW l \in Locations \ Copied, Goto(t, l),
         pc[t] \notin Inside \cup {"slow"},
         resets' \in 0 .. MaxResets, UNCHANGED <<word, futexq, tmpmutex, buf, raced>>
  PROVE  IInv'
<1>1. pc' = [pc EXCEPT ![t] = l] /\ Task \in Threads /\ pc \in [Threads -> Locations]
  BY DEF Goto, Threads, IInv, TypeOK
<1>2. TypeOK'
  BY <1>1 DEF IInv, TypeOK
<1>3. \A u \in Threads : pc[u] \in Inside \cup {"slow"} => pc'[u] = pc[u]
  BY <1>1
<1>4. pc'[Task] \in Copied => pc'[Task] = pc[Task]
  BY <1>1
<1>5. Occupied'
  BY <1>3 DEF IInv, Occupied
<1>6. CopyTrue'
  BY <1>4 DEF IInv, CopyTrue, Copied
<1>7. pc[Task] \in {"restorebuf", "restore"} => pc'[Task] = pc[Task]
  BY <1>1, <1>3 DEF Inside
<1>8. SleeperHasWaker'
  BY <1>3, <1>7 DEF IInv, SleeperHasWaker
<1>. QED
  BY <1>2, <1>5, <1>6, <1>8 DEF IInv

\* ResetMediaBuffer between its lock and its unlock: the copy keeps the word that
\* the memset clears, and with it what the word says of sleepers.
LEMMA ResetStepKeeps ==
  ASSUME IInv, ResetCopy \/ ResetMemset \/ ResetRestoreBuf \/ ResetRestoreMutex
  PROVE  IInv'
<1>1. PICK l \in {"memset", "restorebuf", "restore", "unlock"} : pc' = [pc EXCEPT ![Task] = l]
  BY DEF ResetCopy, ResetMemset, ResetRestoreBuf, ResetRestoreMutex, Goto
<1>2. Task \in Threads /\ pc \in [Threads -> Locations] /\ pc[Task] \in Inside
  BY DEF Threads, Inside, IInv, TypeOK, ResetCopy, ResetMemset, ResetRestoreBuf, ResetRestoreMutex
<1>3. pc'[Task] = l /\ l \in Inside /\ \A u \in Threads : u # Task => pc'[u] = pc[u]
  BY <1>1, <1>2 DEF Inside
<1>4. \E u \in Threads : pc'[u] \in Inside
  BY <1>2, <1>3
<1>5. (\E u \in Threads : pc[u] = "slow") => (\E u \in Threads : pc'[u] = "slow")
  BY <1>2, <1>3 DEF Inside
<1>6. TypeOK'
  <2>1. pc' \in [Threads -> Locations]
    BY <1>1, <1>2 DEF Locations
  <2>. QED
    <3>1. /\ word \in 0 .. 2 /\ tmpmutex \in 0 .. 2 /\ buf \in BOOLEAN /\ futexq \in Seq(Threads)
          /\ resets \in 0 .. MaxResets /\ raced \in BOOLEAN
      BY DEF IInv, TypeOK
    <3>2. /\ word' \in 0 .. 2 /\ tmpmutex' \in 0 .. 2 /\ buf' \in BOOLEAN
          /\ UNCHANGED <<futexq, resets, raced>>
      <4>1. CASE ResetCopy
        BY <3>1, <4>1 DEF ResetCopy
      <4>2. CASE ResetMemset
        <5>1. word' = 0 /\ tmpmutex' = tmpmutex
          BY <4>2 DEF ResetMemset
        <5>2. buf' \in BOOLEAN /\ UNCHANGED <<futexq, resets, raced>>
          BY <4>2, ZenonT(30) DEF ResetMemset
        <5>. QED
          BY <3>1, <5>1, <5>2
      <4>3. CASE ResetRestoreBuf
        BY <3>1, <4>3 DEF ResetRestoreBuf
      <4>4. CASE ResetRestoreMutex
        BY <3>1, <4>4 DEF ResetRestoreMutex
      <4>. QED
        BY <4>1, <4>2, <4>3, <4>4
    <3>. QED
      BY <2>1, <3>1, <3>2 DEF TypeOK
<1>7. Occupied'
  BY <1>4 DEF Occupied
<1>8. UNCHANGED <<futexq, raced>>
  BY DEF ResetCopy, ResetMemset, ResetRestoreBuf, ResetRestoreMutex
<1>9. CopyTrue'
  BY <1>1, <1>2, <1>3, <1>8 DEF IInv, CopyTrue, ResetCopy, ResetMemset, ResetRestoreBuf, ResetRestoreMutex, Goto
<1>10. SleeperHasWaker'
  <2>. SUFFICES ASSUME futexq # << >>, ~raced, ~ \E u \in Threads : pc[u] = "slow"
                PROVE  word' = 2 \/ (tmpmutex' = 2 /\ pc'[Task] \in {"restorebuf", "restore"})
    BY <1>4, <1>5, <1>8 DEF SleeperHasWaker
  <2>1. word = 2 \/ (tmpmutex = 2 /\ pc[Task] \in {"restorebuf", "restore"})
    BY DEF IInv, SleeperHasWaker
  <2>2. CASE ResetCopy
    BY <2>1, <2>2 DEF ResetCopy
  <2>3. CASE ResetMemset
    BY <1>2, <2>1, <2>3 DEF ResetMemset, Goto, IInv, CopyTrue
  <2>4. CASE ResetRestoreBuf
    BY <1>2, <2>1, <2>4 DEF ResetRestoreBuf, Goto, IInv, CopyTrue
  <2>5. CASE ResetRestoreMutex
    BY <2>1, <2>5 DEF ResetRestoreMutex, IInv, CopyTrue
  <2>. QED
    BY <2>2, <2>3, <2>4, <2>5
<1>. QED
  BY <1>6, <1>7, <1>9, <1>10 DEF IInv

\* Every step of every thread keeps the invariant.
LEMMA StepIInv == IInv /\ [Next]_vars => IInv'
<1>. SUFFICES ASSUME IInv, [Next]_vars
              PROVE  IInv'
  OBVIOUS
<1>0. Task \in Threads /\ Decoder \in Threads /\ MaxResets \in Nat
  BY LockAssumption DEF Threads
<1>1. CASE UNCHANGED vars
  BY <1>1 DEF vars, IInv, TypeOK, Occupied, CopyTrue, SleeperHasWaker
<1>2. CASE ResetCall
  <2>1. resets' \in 0 .. MaxResets
    BY <1>0, <1>2 DEF ResetCall, IInv, TypeOK
  <2>. QED
    BY <1>0, <1>2, <2>1, MoveStep DEF ResetCall, Inside, Locations, Copied
<1>3. ASSUME NEW t \in Threads, Call(t)
      PROVE  IInv'
  <2>1. resets' \in 0 .. MaxResets
    BY <1>3 DEF Call, IInv, TypeOK
  <2>. QED
    BY <1>3, <2>1, MoveStep DEF Call, Inside, Locations, Copied
<1>4. ASSUME NEW t \in Threads, Step(t)
      PROVE  IInv'
  <2>1. CASE LockFast(t)
    BY <2>1, LockFastStep
  <2>2. CASE LockSlow(t)
    BY <2>2, LockSlowStep
  <2>3. CASE WriteDone(t)
    BY <2>3, UnlockStep DEF WriteDone, Locations, Copied
  <2>4. CASE ReadDone
    <3>1. PICK l \in {"idle", "holding"} : Unlock(Decoder, l)
      BY <2>4 DEF ReadDone
    <3>. QED
      BY <1>0, <2>4, <3>1, UnlockStep DEF ReadDone, Locations, Copied
  <2>5. CASE UnlockRead
    BY <1>0, <2>5, UnlockStep DEF UnlockRead, Locations, Copied
  <2>6. CASE NoUnlockRead
    <3>1. resets' \in 0 .. MaxResets
      BY <2>6 DEF NoUnlockRead, IInv, TypeOK
    <3>. QED
      BY <1>0, <2>6, <3>1, MoveStep DEF NoUnlockRead, Inside, Locations, Copied
  <2>7. CASE ResetDone
    BY <1>0, <2>7, UnlockStep DEF ResetDone, Locations, Copied
  <2>8. CASE ResetCopy \/ ResetMemset \/ ResetRestoreBuf \/ ResetRestoreMutex
    BY <2>8, ResetStepKeeps
  <2>. QED
    BY <1>4, <2>1, <2>2, <2>3, <2>4, <2>5, <2>6, <2>7, <2>8 DEF Step, ResetStep
<1>. QED
  BY <1>1, <1>2, <1>3, <1>4 DEF Next

\* The invariant holds of every state the threads can reach.
THEOREM Invariance == Spec => []IInv
<1>1. Init => IInv
  <2>. SUFFICES ASSUME Init
                PROVE  IInv
    OBVIOUS
  <2>1. TypeOK
    <3>1. futexq \in Seq(Threads) /\ pc \in [Threads -> Locations]
      BY DEF Init, Locations
    <3>2. 0 \in 0 .. 2 /\ 0 \in 0 .. MaxResets
      BY LockAssumption
    <3>. QED
      BY <3>1, <3>2, ZenonT(30) DEF Init, TypeOK
  <2>2. pc[Task] = "idle"
    BY DEF Init, Threads
  <2>. QED
    BY <2>1, <2>2 DEF Init, IInv, Occupied, CopyTrue, SleeperHasWaker
<1>. QED
  BY <1>1, StepIInv, PTL DEF Spec

\* The lock word stays 0, 1 or 2 although unlockRead frees a mutex that its
\* caller does not hold, and the queue holds threads only.
THEOREM TypeCorrect == Spec => []TypeOK
<1>1. IInv => TypeOK
  BY DEF IInv
<1>. QED
  BY <1>1, Invariance, PTL

\* Unlocking a mutex one does not hold strands no sleeper, and neither does a
\* reset during which nobody uses the mutex.
THEOREM NobodyStranded == Spec => []SleeperHasWaker
<1>1. IInv => SleeperHasWaker
  BY DEF IInv
<1>. QED
  BY <1>1, Invariance, PTL
=============================================================================
