-------------------------- MODULE MediaBufferLock --------------------------
(***************************************************************************)
(* The mutex of gles/Utils/mediabuffer.c at the granularity of its lock    *)
(* word: who holds it while network threads write, the decoder thread of   *)
(* JAConnect reads and the task thread resets.  What the critical sections *)
(* do to the ring is the subject of MediaBuffer.                           *)
(*                                                                         *)
(* The mutex is a default pthread mutex of Android: a word that is 0       *)
(* (free), 1 (held) or 2 (held, threads may sleep), with a futex queue.    *)
(* It has no owner: an unlock by any thread frees it.                      *)
(***************************************************************************)
EXTENDS Integers, Sequences

CONSTANTS
  Writers,     \* network threads that deliver frames
  Decoder,     \* the decoder thread
  Task,        \* the thread that resets the buffer
  MaxResets    \* bound on the resets

ASSUME LockAssumption == Decoder \notin Writers /\ Task \notin Writers /\ Decoder # Task
                         /\ MaxResets \in Nat

Threads == Writers \cup {Decoder, Task}

VARIABLES
  word,     \* the state of p->_mutex
  futexq,   \* threads asleep on the word, oldest first
  pc,
  tmpmutex, \* the copy of the mutex in ResetMediaBuffer
  buf,      \* p->_buf is not NULL
  resets,
  raced     \* history: the mutex was used while a reset had a copy of it

vars == <<word, futexq, pc, tmpmutex, buf, resets, raced>>

-----------------------------------------------------------------------------
(* The C library. *)

Goto(t, l) == pc' = [pc EXCEPT ![t] = l]

\* Every lock and unlock notes whether it falls between the copy and the
\* restoration of the mutex in ResetMediaBuffer.
Uses == raced' = (raced \/ pc[Task] \in {"memset", "restorebuf", "restore"})

\* pthread_mutex_lock, first attempt: compare and swap 0 to 1.
LockFast(t) ==
  /\ pc[t] = "lock"
  /\ \/ word = 0 /\ word' = 1 /\ Goto(t, "cs")
     \/ word # 0 /\ word' = word /\ Goto(t, "slow")
  /\ Uses
  /\ UNCHANGED <<futexq, tmpmutex, buf, resets>>

\* Further attempts: swap in 2, and sleep while the word is 2.
LockSlow(t) ==
  /\ pc[t] = "slow"
  /\ word' = 2
  /\ \/ word = 0 /\ Goto(t, "cs") /\ UNCHANGED futexq
     \/ word # 0 /\ Goto(t, "asleep") /\ futexq' = Append(futexq, t)
  /\ Uses
  /\ UNCHANGED <<tmpmutex, buf, resets>>

\* pthread_mutex_unlock, after which t is at l.
Unlock(t, l) ==
  /\ word' = 0 /\ Uses
  /\ IF word = 2 /\ futexq # << >>
     THEN /\ futexq' = Tail(futexq)
          /\ pc' = [pc EXCEPT ![t] = l, ![Head(futexq)] = "slow"]
     ELSE Goto(t, l) /\ UNCHANGED futexq

-----------------------------------------------------------------------------
Init ==
  /\ word = 0 /\ futexq = << >>
  /\ pc = [t \in Threads |-> "idle"]
  /\ tmpmutex = 0 /\ buf = TRUE /\ resets = 0 /\ raced = FALSE

\* The test of p->_buf at the head of WrtieBuffer and ReadBuffer; when it fails
\* the call returns MB_INVALID_HANDLE.
Call(t) ==
  /\ pc[t] = "idle" /\ t # Task /\ buf
  /\ Goto(t, "lock")
  /\ UNCHANGED <<word, futexq, tmpmutex, buf, resets, raced>>

\* WrtieBuffer leaves its critical section.
WriteDone(t) ==
  /\ pc[t] = "cs" /\ t \in Writers
  /\ Unlock(t, "idle")
  /\ UNCHANGED <<tmpmutex, buf, resets>>

\* ReadBuffer returns.  It unlocks whatever it found: the test of rt in front of
\* the unlock is an empty statement.  On success the decoder holds a pointer
\* into the ring.
ReadDone ==
  /\ pc[Decoder] = "cs"
  /\ \E l \in {"idle", "holding"} : Unlock(Decoder, l)
  /\ UNCHANGED <<tmpmutex, buf, resets>>

\* Mutant of UnlockRead: it steps the lock word back, held or not.
UnlockReadSteps ==
  /\ pc[Decoder] = "holding"
  /\ word' = word - 1 /\ Goto(Decoder, "idle") /\ Uses
  /\ UNCHANGED <<futexq, tmpmutex, buf, resets>>

\* The decoder is done with a video frame: unlockRead.
UnlockRead ==
  /\ pc[Decoder] = "holding"
  /\ Unlock(Decoder, "idle")
  /\ UNCHANGED <<tmpmutex, buf, resets>>

\* The decoder is done with an audio frame, or drops a frame before the first
\* key frame: no unlockRead.
NoUnlockRead ==
  /\ pc[Decoder] = "holding"
  /\ Goto(Decoder, "idle")
  /\ UNCHANGED <<word, futexq, tmpmutex, buf, resets, raced>>

\* ResetMediaBuffer: lock, copy the mutex, clear the structure (mutex and _buf
\* included), restore _buf, restore the mutex, unlock.
ResetCall ==
  /\ pc[Task] = "idle" /\ resets < MaxResets
  /\ Goto(Task, "lock") /\ resets' = resets + 1
  /\ UNCHANGED <<word, futexq, tmpmutex, buf, raced>>

ResetCopy ==
  /\ pc[Task] = "cs"
  /\ tmpmutex' = word /\ Goto(Task, "memset")
  /\ UNCHANGED <<word, futexq, buf, resets, raced>>

ResetMemset ==
  /\ pc[Task] = "memset"
  /\ word' = 0 /\ buf' = FALSE /\ Goto(Task, "restorebuf")
  /\ UNCHANGED <<futexq, tmpmutex, resets, raced>>

ResetRestoreBuf ==
  /\ pc[Task] = "restorebuf"
  /\ buf' = TRUE /\ Goto(Task, "restore")
  /\ UNCHANGED <<word, futexq, tmpmutex, resets, raced>>

\* Mutant of ResetRestoreMutex: the saved mutex is not put back.
ResetKeepsCleared ==
  /\ pc[Task] = "restore" /\ Goto(Task, "unlock")
  /\ UNCHANGED <<word, futexq, tmpmutex, buf, resets, raced>>

ResetRestoreMutex ==
  /\ pc[Task] = "restore"
  /\ word' = tmpmutex /\ Goto(Task, "unlock")
  /\ UNCHANGED <<futexq, tmpmutex, buf, resets, raced>>

ResetDone ==
  /\ pc[Task] = "unlock"
  /\ Unlock(Task, "idle")
  /\ UNCHANGED <<tmpmutex, buf, resets>>

ResetStep ==
  ResetCopy \/ ResetMemset \/ ResetRestoreBuf \/ ResetRestoreMutex \/ ResetDone

\* What a thread does once it is inside a call.
Step(t) ==
  \/ LockFast(t) \/ LockSlow(t) \/ WriteDone(t)
  \/ t = Decoder /\ (ReadDone \/ UnlockRead \/ NoUnlockRead)
  \/ t = Task /\ ResetStep

Next == ResetCall \/ \E t \in Threads : Call(t) \/ Step(t)

\* A thread inside a call keeps running, and the decoder polls for ever
\* (HandleDecodeThread).  Nothing obliges the network to deliver or anyone to
\* reset.
Fairness == WF_vars(Call(Decoder)) /\ \A t \in Threads : WF_vars(Step(t))
Spec == Init /\ [][Next]_vars /\ Fairness

-----------------------------------------------------------------------------
Locations == {"idle", "lock", "slow", "asleep", "cs", "holding",
              "memset", "restorebuf", "restore", "unlock"}

TypeOK ==
  /\ word \in 0 .. 2 /\ tmpmutex \in 0 .. 2
  /\ futexq \in Seq(Threads) /\ pc \in [Threads -> Locations]
  /\ buf \in BOOLEAN /\ resets \in 0 .. MaxResets /\ raced \in BOOLEAN

\* Whoever sleeps on the mutex will be woken: the word tells the next unlock
\* so and some thread is inside that will unlock, or a reset is about to put
\* such a word back, or a woken thread is on its
\* way to put the word back to 2.  unlockRead frees a mutex its caller does
\* not hold, and even so strands nobody; a reset strands nobody as long as no
\* one uses the mutex while ResetMediaBuffer has it copied.
Inside == {"cs", "memset", "restorebuf", "restore", "unlock"}
SleeperHasWaker ==
  (futexq # << >> /\ ~raced) =>
     \/ word = 2 /\ \E t \in Threads : pc[t] \in Inside
     \/ tmpmutex = 2 /\ pc[Task] \in {"restorebuf", "restore"}
     \/ \E t \in Threads : pc[t] = "slow"

\* Under the same proviso, every thread that falls asleep in pthread_mutex_lock
\* wakes up.
SleepersWake ==
  [](~raced) => \A t \in Threads : (pc[t] = "asleep") ~> (pc[t] # "asleep")

\* unlockRead "unlocks the read buffer and must be called after each read":
\* between ReadBuffer and unlockRead no writer is inside the ring the decoder
\* reads from.
HeldFrameStable == pc[Decoder] = "holding" => \A t \in Writers : pc[t] # "cs"
=============================================================================
