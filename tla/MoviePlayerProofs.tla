-------------------------- MODULE MoviePlayerProofs --------------------------
(***************************************************************************)
(* The safety of the file player for any number of files, players and      *)
(* calls.                                                                  *)
(***************************************************************************)
EXTENDS MoviePlayer, FiniteSetTheorems, TLAPS

\* A leaf that names no prover is tried with the SMT solver, a second time when its
\* translation does not finish, and then with Zenon.
USE SMTT(30), Z3T(30), ZenonT(30)

-----------------------------------------------------------------------------
(* The inductive invariant. *)

\* A player holds its codecs while its state is not STOP, except on the way
\* through handleStop.
HeldAt(p) ==
  /\ cpc[p] \in {"mark", "dieMark", "finish", "dieFinish", "forget", "dieForget"} => ~held[p]
  /\ cpc[p] \in {"finish", "dieFinish", "forget", "dieForget"} => mState[p] = "STOP"
  /\ cpc[p] \notin {"mark", "dieMark", "die"} => (held[p] <=> mState[p] # "STOP")
HeldInv == \A p \in Players : HeldAt(p)

\* Where the one prepare() of player p is: about to be asked for, in the slot,
\* taken, or done with onPrepared to come.
Asking(p) == gpc = "prepare" /\ p = made
Asked(p) == mRequest[p] = "PREPARE"
Taken(p) == cpc[p] = "act" /\ req[p] = "PREPARE"
Prepared(p) == cpc[p] = "prepared"

\* onPrepared of player p has not been called and still can be.
Ahead(p) == p > made \/ Asking(p) \/ Asked(p) \/ Taken(p) \/ Prepared(p)
Past == {p \in Players : ~Ahead(p)}

\* Each player is prepared at most once.
OnceAt(p) ==
  /\ p > made => cpc[p] = "none" /\ mRequest[p] = "NON" /\ mState[p] = "STOP"
  /\ Asked(p) => ~Asking(p) /\ ~Taken(p) /\ ~Prepared(p)
  /\ Taken(p) \/ Prepared(p) => ~Asking(p)
OnceInv ==
  /\ \A p \in Players : OnceAt(p)
  /\ gpc = "prepare" => mPlayer1 \in {0, made} /\ made > 0
  /\ events <= Cardinality(Past)

\* With one file: until the runnable of onPrepared has run, nothing but a seek
\* reaches the player.
Fresh == gpc = "prepare" \/ Asked(1) \/ Taken(1) \/ Prepared(1) \/ events > 0
SoleInv ==
  /\ ~failed
  /\ made = 0 => ~mIsPlaying /\ gpc = "idle" /\ events = 0
  /\ mPlayer1 = 0 => mState[1] = "STOP"
  /\ events > 0 => ~Ahead(1)
  /\ Fresh =>
       /\ mPlayer1 = 1 /\ ~mIsPlaying /\ gpc # "playing"
       /\ cpc[1] \in {"take", "act", "wait", "prepared"}
       /\ mRequest[1] \in {"NON", "SEEK", "PREPARE"}
       /\ cpc[1] = "act" => req[1] \in {"NON", "SEEK", "PREPARE"}
       /\ mState[1] = IF Prepared(1) \/ events > 0 THEN "PREPARED" ELSE "STOP"

IInv == TypeOK /\ HeldInv /\ OnceInv /\ (session.files = 1 => SoleInv)
-----------------------------------------------------------------------------
(* Types. *)

\* Control threads other than the one that moves.
Stays(p) == cpc'[p] = cpc[p] \/ (cpc[p] = "wait" /\ cpc'[p] = "take") \/ (cpc[p] = "loop" /\ cpc'[p] = "eos")

\* notifyAll wakes a control thread that waits, and does nothing else.
LEMMA WokenFact ==
  ASSUME NEW q \in [Players -> Places], NEW p \in Players
  PROVE  /\ Woken(q, p) \in [Players -> Places]
         /\ \A i \in Players : i # p => Woken(q, p)[i] = q[i]
         /\ \/ Woken(q, p)[p] = q[p]
            \/ q[p] = "wait" /\ Woken(q, p)[p] = "take"
            \/ q[p] = "loop" /\ Woken(q, p)[p] = "eos"
<1>. DEFINE next == CASE q[p] = "wait" -> "take" [] q[p] = "loop" -> "eos" [] OTHER -> q[p]
<1>1. Woken(q, p) = [q EXCEPT ![p] = next]
  BY DEF Woken
<1>2. /\ next \in Places
      /\ next = q[p] \/ (q[p] = "wait" /\ next = "take") \/ (q[p] = "loop" /\ next = "eos")
  BY DEF Places
<1>. HIDE DEF next
<1>. QED
  BY <1>1, <1>2

\* What asking a player does to the requests and the control threads.
LEMMA Asks ==
  ASSUME TypeOK, NEW p \in Players, NEW r \in Requests, Ask(p, r)
  PROVE  /\ cpc' \in [Players -> Places] /\ mRequest' \in [Players -> Requests]
         /\ \A i \in Players : Stays(i)
         /\ mRequest'[p] = r /\ \A i \in Players \ {p} : mRequest'[i] = mRequest[i]
<1>1. cpc \in [Players -> Places] /\ cpc' = Woken(cpc, p)
  BY DEF TypeOK, Ask
<1>2. cpc' \in [Players -> Places] /\ \A i \in Players : Stays(i)
  BY <1>1, WokenFact DEF Stays
<1>. QED
  BY <1>2, ZenonT(30) DEF Ask, TypeOK

\* The sizes a session sets, and the players there are.
LEMMA Sizes ==
  ASSUME TypeOK
  PROVE  /\ Files \in Nat /\ session.files \in 1 .. Files /\ session.bound \in Nat
         /\ made \in Nat /\ made <= Files /\ calls \in Nat /\ events \in Nat
         /\ mPlayer1 # 0 => mPlayer1 \in Players
         /\ 1 \in Players
<1>1. Files \in Nat \ {0} /\ session.files \in 1 .. Files /\ session.bound \in Nat
  BY PlayerAssumption DEF TypeOK
<1>. QED
  BY <1>1 DEF TypeOK, Players

\* The members of HWPlayer.
HwTypes ==
  /\ session \in Sessions /\ made \in 0 .. session.files /\ mPlayer1 \in 0 .. made
  /\ events \in Nat /\ calls \in 0 .. session.bound
  /\ gpc \in {"idle", "prepare", "playing"} /\ upc \in {"idle", "stop"}

LEMMA HwTypeStep ==
  ASSUME TypeOK, Next
  PROVE  HwTypes' /\ mIsPlaying' \in BOOLEAN /\ failed' \in BOOLEAN
<1>0. HwTypes /\ mIsPlaying \in BOOLEAN /\ failed \in BOOLEAN
  BY Sizes DEF TypeOK, HwTypes
<1>1. CASE UNCHANGED hwVars
  BY <1>0, <1>1 DEF hwVars, HwTypes
<1>2. CASE NewPlayer
  BY <1>0, <1>2, Sizes DEF NewPlayer, HwTypes
<1>3. CASE Prepare
  <2>1. HwTypes'
    BY <1>0, <1>3 DEF Prepare, HwTypes
  <2>. QED
    BY <1>0, <1>3, <2>1, ZenonT(30) DEF Prepare
<1>4. CASE RunPrepared
  <2>1. HwTypes'
    BY <1>0, <1>4 DEF RunPrepared, HwTypes
  <2>. QED
    BY <1>0, <1>4, <2>1, ZenonT(30) DEF RunPrepared
<1>5. CASE SetPlaying
  <2>1. HwTypes'
    BY <1>0, <1>5 DEF SetPlaying, HwTypes
  <2>. QED
    BY <1>0, <1>5, <2>1, ZenonT(30) DEF SetPlaying
<1>6. CASE UI
  <2>1. CASE StopReturns
    <3>1. HwTypes'
      BY <1>0, <2>1 DEF StopReturns, HwTypes
    <3>. QED
      BY <1>0, <2>1, <3>1, ZenonT(30) DEF StopReturns
  <2>2. CASE UI /\ ~StopReturns
    <3>1. /\ calls < session.bound /\ calls' = calls + 1 /\ upc' \in {upc, "stop"}
          /\ UNCHANGED <<session, made, mPlayer1, mIsPlaying, gpc, events, failed>>
      BY <2>2 DEF UI, Stop, PauseOrContinue, SeekToTime, MayCall
    <3>. QED
      BY <1>0, <3>1, Sizes DEF HwTypes
  <2>. QED
    BY <1>6, <2>1, <2>2
<1>7. ASSUME NEW p \in Players, OnPrepared(p)
      PROVE  HwTypes' /\ mIsPlaying' \in BOOLEAN /\ failed' \in BOOLEAN
  BY <1>0, <1>7 DEF OnPrepared, HwTypes
<1>8. ASSUME NEW p \in Players, Forget(p)
      PROVE  HwTypes' /\ mIsPlaying' \in BOOLEAN /\ failed' \in BOOLEAN
  <2>1. HwTypes'
    BY <1>0, <1>8 DEF Forget, HwTypes
  <2>. QED
    BY <1>0, <1>8, <2>1, ZenonT(30) DEF Forget
<1>9. ASSUME NEW p \in Players, Control(p), ~OnPrepared(p), ~Forget(p)
      PROVE  UNCHANGED hwVars
  BY <1>9 DEF Control, Take, Wait, HandleLoop, Refuse, HandlePrepare, HandleStart, StartTasks, HandleSeek, SeekDone,
              HandlePause, HandleResume, StopRequested, HandleStop, ReleaseCodecs, MarkStopped, OnFinished
<1>10. ASSUME NEW p \in Players, NEW t \in Tracks, Task(p, t)
       PROVE  UNCHANGED hwVars
  BY <1>10 DEF Task, Iterate, NextFrame, EndOfStream, CodecThrows, TaskEnd
<1>. QED
  BY <1>1, <1>2, <1>3, <1>4, <1>5, <1>6, <1>7, <1>8, <1>9, <1>10 DEF Next

\* The members of the players, and their tasks.
CtlTypes ==
  /\ mRequest \in [Players -> Requests] /\ mState \in [Players -> States]
  /\ mRequestTime \in [Players -> {-1, 1}]
  /\ cpc \in [Players -> Places] /\ req \in [Players -> Requests]

FlagTypes ==
  /\ mPause \in [Players -> BOOLEAN] /\ held \in [Players -> BOOLEAN]
  /\ inDone \in [Players -> [Tracks -> BOOLEAN]] /\ outDone \in [Players -> [Tracks -> BOOLEAN]]
  /\ tpc \in [Players -> [Tracks -> {"none", "run", "work", "leave", "ended"}]]

LEMMA CtlTypeStep ==
  ASSUME TypeOK, Next
  PROVE  CtlTypes'
<1>0. CtlTypes
  BY DEF TypeOK, CtlTypes
<1>1. ASSUME NEW p \in Players, NEW next \in Places, Go(p, next)
      PROVE  cpc' \in [Players -> Places]
  BY <1>0, <1>1 DEF Go, CtlTypes
<1>2. {"NON", "PREPARE", "START", "SEEK", "STOP", "PAUSE", "RESUME"} = Requests
  BY DEF Requests
<1>3. CASE NewPlayer
  <2>1. made + 1 \in Players
    BY <1>3, Sizes DEF NewPlayer, Players, TypeOK
  <2>2. cpc' \in [Players -> Places]
    BY <1>1, <1>3, <2>1 DEF NewPlayer, Places
  <2>. QED
    BY <1>0, <1>3, <2>2 DEF NewPlayer, CtlTypes, reqVars
<1>4. ASSUME UNCHANGED <<req, mState>>, mRequestTime' \in [Players -> {-1, 1}],
             UNCHANGED <<mRequest, cpc>> \/ \E p \in Players, r \in Requests : Ask(p, r)
      PROVE  CtlTypes'
  BY <1>0, <1>4, Asks DEF CtlTypes
<1>5. CASE Prepare
  <2>1. UNCHANGED <<mRequest, cpc>> \/ (mPlayer1 \in Players /\ Ask(mPlayer1, "PREPARE"))
    BY <1>5, Sizes DEF Prepare
  <2>. QED
    BY <1>0, <1>2, <1>4, <1>5, <2>1 DEF Prepare, CtlTypes
<1>6. CASE RunPrepared
  <2>1. UNCHANGED <<mRequest, cpc>> \/ (mPlayer1 \in Players /\ Ask(mPlayer1, "START"))
    BY <1>6, Sizes DEF RunPrepared
  <2>. QED
    BY <1>0, <1>2, <1>4, <1>6, <2>1 DEF RunPrepared, CtlTypes
<1>7. CASE SetPlaying \/ StopReturns
  BY <1>0, <1>7 DEF SetPlaying, StopReturns, CtlTypes, ctlVars, reqVars
<1>8. CASE Stop
  <2>1. UNCHANGED <<mRequest, cpc>> \/ (mPlayer1 \in Players /\ Ask(mPlayer1, "STOP"))
    BY <1>8, Sizes DEF Stop, MayCall
  <2>. QED
    BY <1>0, <1>2, <1>4, <1>8, <2>1 DEF Stop, MayCall, CtlTypes
<1>9. ASSUME NEW r \in {"PAUSE", "RESUME"}, NEW call, PauseOrContinue(call, r)
      PROVE  CtlTypes'
  <2>1. mPlayer1 \in Players /\ Ask(mPlayer1, r) /\ r \in Requests
    BY <1>2, <1>9, Sizes DEF PauseOrContinue, MayCall
  <2>. QED
    BY <1>0, <1>4, <1>9, <2>1 DEF PauseOrContinue, MayCall, CtlTypes
<1>10. CASE SeekToTime
  <2>1. mPlayer1 \in Players /\ Ask(mPlayer1, "SEEK")
    BY <1>10, Sizes DEF SeekToTime, MayCall
  <2>2. mRequestTime' \in [Players -> {-1, 1}]
    BY <1>0, <1>10, <2>1 DEF SeekToTime, CtlTypes
  <2>. QED
    BY <1>2, <1>4, <1>10, <2>1, <2>2 DEF SeekToTime, MayCall
<1>11. ASSUME NEW p \in Players, Take(p)
       PROVE  CtlTypes'
  <2>1. cpc' \in [Players -> Places]
    BY <1>1, <1>11 DEF Take, Places
  <2>2. req' \in [Players -> Requests] /\ mRequest' \in [Players -> Requests]
    BY <1>0, <1>2, <1>11 DEF Take, CtlTypes
  <2>. QED
    BY <1>0, <1>11, <2>1, <2>2 DEF Take, CtlTypes
<1>12. ASSUME NEW p \in Players, Wait(p) \/ HandleLoop(p) \/ Refuse(p) \/ OnPrepared(p) \/ HandleSeek(p)
                                 \/ StopRequested(p) \/ ReleaseCodecs(p) \/ Forget(p)
       PROVE  CtlTypes'
  <2>1. \E next \in Places : Go(p, next)
    BY <1>12 DEF Wait, HandleLoop, Refuse, OnPrepared, HandleSeek, StopRequested, ReleaseCodecs, Forget, Places
  <2>2. cpc' \in [Players -> Places]
    BY <1>1, <2>1
  <2>. QED
    BY <1>0, <1>12, <2>2 DEF Wait, HandleLoop, Refuse, OnPrepared, HandleSeek, StopRequested, ReleaseCodecs,
                             Forget, CtlTypes, reqVars
<1>13. ASSUME NEW p \in Players, HandlePrepare(p) \/ HandleStart(p) \/ HandlePause(p) \/ HandleResume(p) \/ MarkStopped(p)
       PROVE  CtlTypes'
  <2>1. \E next \in Places : Go(p, next)
    BY <1>13 DEF HandlePrepare, HandleStart, HandlePause, HandleResume, MarkStopped, Places
  <2>2. cpc' \in [Players -> Places]
    BY <1>1, <2>1
  <2>3. mState' = mState \/ \E s \in States : mState' = [mState EXCEPT ![p] = s]
    BY <1>13 DEF HandlePrepare, HandleStart, HandlePause, HandleResume, MarkStopped, States
  <2>4. mState' \in [Players -> States]
    BY <1>0, <2>3 DEF CtlTypes
  <2>. QED
    BY <1>0, <1>13, <2>2, <2>4 DEF HandlePrepare, HandleStart, HandlePause, HandleResume, MarkStopped, CtlTypes, reqVars
<1>14. ASSUME NEW p \in Players, StartTasks(p) \/ SeekDone(p)
       PROVE  CtlTypes'
  <2>1. \E next \in Places : Go(p, next)
    BY <1>14, ZenonT(30) DEF StartTasks, SeekDone, Places
  <2>2. cpc' \in [Players -> Places]
    BY <1>1, <2>1
  <2>3. mRequestTime' = mRequestTime \/ mRequestTime' = [mRequestTime EXCEPT ![p] = -1]
    BY <1>14 DEF StartTasks, SeekDone
  <2>. QED
    BY <1>0, <1>14, <2>2, <2>3, ZenonT(30) DEF StartTasks, SeekDone, CtlTypes
<1>15. ASSUME NEW p \in Players, OnFinished(p)
       PROVE  CtlTypes'
  <2>1. PICK next \in Places :
           \/ cpc' = [cpc EXCEPT ![p] = next] /\ mRequest' = mRequest
           \/ /\ mPlayer1 # 0 /\ mRequest' = [mRequest EXCEPT ![mPlayer1] = "STOP"]
              /\ cpc' = Woken([cpc EXCEPT ![p] = next], mPlayer1)
    <3>. DEFINE next == IF mPlayer1 = 0 THEN IF cpc[p] = "finish" THEN "take" ELSE "dead"
                        ELSE IF cpc[p] = "finish" THEN "forget" ELSE "dieForget"
    <3>1. next \in Places
      BY DEF Places
    <3>. QED
      BY <1>15, <3>1 DEF OnFinished
  <2>2. [cpc EXCEPT ![p] = next] \in [Players -> Places]
    BY <1>0 DEF CtlTypes
  <2>3. cpc' \in [Players -> Places]
    <3>1. mPlayer1 # 0 => Woken([cpc EXCEPT ![p] = next], mPlayer1) \in [Players -> Places]
      BY <2>2, Sizes, WokenFact, ZenonT(30)
    <3>. QED
      BY <2>1, <2>2, <3>1, ZenonT(30)
  <2>4. mRequest' \in [Players -> Requests]
    <3>1. mRequest \in [Players -> Requests] /\ "STOP" \in Requests
      BY <1>0, <1>2 DEF CtlTypes
    <3>. QED
      BY <2>1, <3>1
  <2>. QED
    BY <1>0, <1>15, <2>3, <2>4 DEF OnFinished, CtlTypes
<1>16. ASSUME NEW p \in Players, NEW t \in Tracks, Task(p, t)
       PROVE  CtlTypes'
  <2>1. cpc' = cpc \/ cpc' = Woken(cpc, p)
    BY <1>16 DEF Task, Iterate, NextFrame, EndOfStream, CodecThrows, TaskEnd, ctlVars
  <2>2. cpc' \in [Players -> Places]
    BY <1>0, <2>1, WokenFact DEF CtlTypes
  <2>3. UNCHANGED <<mRequest, mState, mRequestTime, req>>
    BY <1>16 DEF Task, Iterate, NextFrame, EndOfStream, CodecThrows, TaskEnd, ctlVars, reqVars
  <2>. QED
    BY <1>0, <2>2, <2>3 DEF CtlTypes
<1>. QED
  BY <1>3, <1>5, <1>6, <1>7, <1>8, <1>9, <1>10, <1>11, <1>12, <1>13, <1>14, <1>15, <1>16
     DEF Next, UI, Control, HandleStop

\* Setting one entry of a table of all tracks.
LEMMA Entry ==
  ASSUME NEW S, NEW f \in [Players -> [Tracks -> S]], NEW p \in Players, NEW t \in Tracks, NEW s \in S
  PROVE  [f EXCEPT ![p][t] = s] \in [Players -> [Tracks -> S]]
<1>. DEFINE g == [f[p] EXCEPT ![t] = s]
<1>1. g \in [Tracks -> S]
  OBVIOUS
<1>2. [f EXCEPT ![p][t] = s] = [f EXCEPT ![p] = g]
  OBVIOUS
<1>. HIDE DEF g
<1>. QED
  BY <1>1, <1>2

LEMMA FlagTypeStep ==
  ASSUME TypeOK, Next
  PROVE  FlagTypes'
<1>0. FlagTypes
  BY DEF TypeOK, FlagTypes
<1>1. CASE NewPlayer \/ Prepare \/ RunPrepared \/ SetPlaying \/ UI
  <2>1. UNCHANGED <<held, mPause, taskVars>>
    BY <1>1, ZenonT(30) DEF NewPlayer, Prepare, RunPrepared, SetPlaying, UI, Stop, StopReturns, PauseOrContinue, SeekToTime,
                MayCall, ctlVars
  <2>. QED
    BY <1>0, <2>1, ZenonT(30) DEF FlagTypes, taskVars
<1>2. ASSUME NEW p \in Players, Control(p)
      PROVE  FlagTypes'
  <2>1. CASE Take(p) \/ Wait(p) \/ HandleLoop(p) \/ Refuse(p) \/ OnPrepared(p) \/ HandleStart(p) \/ HandleSeek(p)
             \/ SeekDone(p) \/ StopRequested(p) \/ OnFinished(p) \/ Forget(p)
    <3>1. UNCHANGED <<held, mPause, taskVars>>
      BY <2>1, ZenonT(30) DEF Take, Wait, HandleLoop, Refuse, OnPrepared, HandleStart, HandleSeek, SeekDone, StopRequested,
                  OnFinished, Forget
    <3>. QED
      BY <1>0, <3>1, ZenonT(30) DEF FlagTypes, taskVars
  <2>2. CASE HandlePrepare(p) \/ ReleaseCodecs(p)
    <3>1. UNCHANGED <<mPause, taskVars>> /\ \E b \in BOOLEAN : held' = [held EXCEPT ![p] = b]
      BY <2>2, ZenonT(30) DEF HandlePrepare, ReleaseCodecs
    <3>2. held' \in [Players -> BOOLEAN]
      BY <1>0, <3>1, ZenonT(30) DEF FlagTypes
    <3>. QED
      BY <1>0, <3>1, <3>2, ZenonT(30) DEF FlagTypes, taskVars
  <2>3. CASE HandlePause(p) \/ HandleResume(p)
    <3>1. UNCHANGED <<held, taskVars>> /\ \E b \in BOOLEAN : mPause' = [mPause EXCEPT ![p] = b]
      BY <2>3, ZenonT(30) DEF HandlePause, HandleResume
    <3>2. mPause' \in [Players -> BOOLEAN]
      BY <1>0, <3>1, ZenonT(30) DEF FlagTypes
    <3>. QED
      BY <1>0, <3>1, <3>2, ZenonT(30) DEF FlagTypes, taskVars
  <2>4. CASE StartTasks(p) \/ MarkStopped(p)
    <3>1. \/ UNCHANGED <<inDone, outDone>>
          \/ \E f, g \in [Tracks -> BOOLEAN] : inDone' = [inDone EXCEPT ![p] = f] /\ outDone' = [outDone EXCEPT ![p] = g]
      <4>1. CASE StartTasks(p)
        <5>. DEFINE f == [t \in Tracks |-> t \notin session.tracks]
        <5>1. f \in [Tracks -> BOOLEAN]
          BY ZenonT(30)
        <5>. QED
          BY <4>1, <5>1, ZenonT(30) DEF StartTasks, taskVars
      <4>2. CASE MarkStopped(p)
        <5>. DEFINE f == [t \in Tracks |-> TRUE]
        <5>1. f \in [Tracks -> BOOLEAN]
          BY ZenonT(30)
        <5>. QED
          BY <4>2, <5>1, ZenonT(30) DEF MarkStopped
      <4>. QED
        BY <2>4, <4>1, <4>2
    <3>2. inDone' \in [Players -> [Tracks -> BOOLEAN]] /\ outDone' \in [Players -> [Tracks -> BOOLEAN]]
      BY <1>0, <3>1, ZenonT(30) DEF FlagTypes
    <3>3. tpc' = tpc \/ tpc' = [tpc EXCEPT ![p] = [t \in Tracks |-> IF t \in session.tracks THEN "run" ELSE "none"]]
      BY <2>4 DEF StartTasks, MarkStopped, taskVars
    <3>4. tpc' \in [Players -> [Tracks -> {"none", "run", "work", "leave", "ended"}]]
      <4>. DEFINE f == [t \in Tracks |-> IF t \in session.tracks THEN "run" ELSE "none"]
      <4>1. f \in [Tracks -> {"none", "run", "work", "leave", "ended"}]
        OBVIOUS
      <4>2. tpc' = tpc \/ tpc' = [tpc EXCEPT ![p] = f]
        BY <3>3
      <4>. HIDE DEF f
      <4>. QED
        BY <1>0, <4>1, <4>2 DEF FlagTypes
    <3>5. UNCHANGED <<held, mPause>>
      BY <2>4 DEF StartTasks, MarkStopped
    <3>. QED
      BY <1>0, <3>2, <3>4, <3>5, ZenonT(30) DEF FlagTypes
  <2>. QED
    BY <1>2, <2>1, <2>2, <2>3, <2>4 DEF Control, HandleStop
<1>3. ASSUME NEW p \in Players, NEW t \in Tracks, Task(p, t)
      PROVE  FlagTypes'
  <2>1. UNCHANGED <<held, mPause>>
    BY <1>3 DEF Task, Iterate, NextFrame, EndOfStream, CodecThrows, TaskEnd, ctlVars
  <2>2. \/ tpc' = tpc
        \/ \E s \in {"run", "work", "leave", "ended"} : tpc' = [tpc EXCEPT ![p][t] = s]
    BY <1>3 DEF Task, Iterate, NextFrame, EndOfStream, CodecThrows, TaskEnd
  <2>3. /\ inDone' = inDone \/ inDone' = [inDone EXCEPT ![p][t] = TRUE]
        /\ outDone' = outDone \/ outDone' = [outDone EXCEPT ![p][t] = TRUE]
    BY <1>3, ZenonT(30) DEF Task, Iterate, NextFrame, EndOfStream, CodecThrows, TaskEnd
  <2>4. tpc' \in [Players -> [Tracks -> {"none", "run", "work", "leave", "ended"}]]
    <3>. DEFINE S == {"none", "run", "work", "leave", "ended"}
    <3>1. \A s \in S : [tpc EXCEPT ![p][t] = s] \in [Players -> [Tracks -> S]]
      BY <1>0, Entry DEF FlagTypes
    <3>2. tpc \in [Players -> [Tracks -> S]] /\ \A s \in {"run", "work", "leave", "ended"} : s \in S
      BY <1>0 DEF FlagTypes
    <3>. HIDE DEF S
    <3>3. ASSUME NEW s \in {"run", "work", "leave", "ended"}, tpc' = [tpc EXCEPT ![p][t] = s]
          PROVE  tpc' \in [Players -> [Tracks -> S]]
      <4>. DEFINE g == [tpc EXCEPT ![p][t] = s]
      <4>1. g \in [Players -> [Tracks -> S]] /\ tpc' = g
        BY <3>1, <3>2, <3>3
      <4>. HIDE DEF g
      <4>. QED
        BY <4>1
    <3>. QED
      BY <2>2, <3>2, <3>3 DEF S
  <2>5. inDone' \in [Players -> [Tracks -> BOOLEAN]] /\ outDone' \in [Players -> [Tracks -> BOOLEAN]]
    <3>1. inDone \in [Players -> [Tracks -> BOOLEAN]] /\ outDone \in [Players -> [Tracks -> BOOLEAN]]
      BY <1>0 DEF FlagTypes
    <3>2. TRUE \in BOOLEAN
      OBVIOUS
    <3>3. [inDone EXCEPT ![p][t] = TRUE] \in [Players -> [Tracks -> BOOLEAN]]
      BY <3>1, <3>2, Entry, ZenonT(30)
    <3>4. [outDone EXCEPT ![p][t] = TRUE] \in [Players -> [Tracks -> BOOLEAN]]
      BY <3>1, <3>2, Entry, ZenonT(30)
    <3>. QED
      BY <2>3, <3>1, <3>3, <3>4, ZenonT(30)
  <2>. QED
    BY <1>0, <2>1, <2>4, <2>5, ZenonT(30) DEF FlagTypes
<1>. QED
  BY <1>1, <1>2, <1>3 DEF Next

-----------------------------------------------------------------------------
(* Who moves whom. *)

\* onFinished: the thread that calls it goes on, and the current player may be
\* asked to stop.
LEMMA Finishes ==
  ASSUME TypeOK, NEW p \in Players, OnFinished(p)
  PROVE  /\ cpc'[p] = IF mPlayer1 = 0 THEN IF cpc[p] = "finish" THEN "take" ELSE "dead"
                      ELSE IF cpc[p] = "finish" THEN "forget" ELSE "dieForget"
         /\ \A i \in Players \ {p} : Stays(i)
         /\ \A i \in Players : mRequest'[i] = mRequest[i] \/ (i = mPlayer1 /\ mRequest'[i] = "STOP")
<1>. DEFINE next == IF mPlayer1 = 0 THEN IF cpc[p] = "finish" THEN "take" ELSE "dead"
                    ELSE IF cpc[p] = "finish" THEN "forget" ELSE "dieForget"
            moved == [cpc EXCEPT ![p] = next]
<1>1. \/ cpc' = moved /\ mRequest' = mRequest
      \/ /\ mPlayer1 # 0 /\ mRequest' = [mRequest EXCEPT ![mPlayer1] = "STOP"]
         /\ cpc' = Woken(moved, mPlayer1)
  BY ZenonT(30) DEF OnFinished
<1>2. next \in Places \ {"wait", "loop"}
  BY DEF Places
<1>3. /\ moved \in [Players -> Places] /\ moved[p] = next /\ \A i \in Players \ {p} : moved[i] = cpc[i]
      /\ mRequest \in [Players -> Requests]
  BY <1>2 DEF TypeOK
<1>. HIDE DEF moved, next
<1>4. \A i \in Players : mRequest'[i] = mRequest[i] \/ (i = mPlayer1 /\ mRequest'[i] = "STOP")
  BY <1>1, <1>3
<1>5. CASE cpc' = moved
  BY <1>3, <1>4, <1>5 DEF Stays, next
<1>6. CASE mPlayer1 \in Players /\ cpc' = Woken(moved, mPlayer1)
  <2>1. /\ \A i \in Players : i # mPlayer1 => cpc'[i] = moved[i]
        /\ \/ cpc'[mPlayer1] = moved[mPlayer1]
           \/ moved[mPlayer1] = "wait" /\ cpc'[mPlayer1] = "take"
           \/ moved[mPlayer1] = "loop" /\ cpc'[mPlayer1] = "eos"
    BY <1>3, <1>6, WokenFact
  <2>2. cpc'[p] = next
    BY <1>2, <1>3, <2>1
  <2>. QED
    BY <1>3, <1>4, <2>1, <2>2 DEF Stays, next
<1>. QED
  BY <1>1, <1>5, <1>6, Sizes

\* A control thread works on its own player only, but for onFinished.
LEMMA ControlMoves ==
  ASSUME TypeOK, NEW p \in Players, Control(p), NEW i \in Players, i # p
  PROVE  /\ Stays(i) /\ held'[i] = held[i] /\ mState'[i] = mState[i] /\ req'[i] = req[i]
         /\ mRequest'[i] = mRequest[i] \/ (i = mPlayer1 /\ mRequest'[i] = "STOP")
<1>0. /\ cpc \in [Players -> Places] /\ mState \in [Players -> States]
      /\ req \in [Players -> Requests] /\ mRequest \in [Players -> Requests]
  BY DEF TypeOK
<1>. USE DEF Stays, Go, reqVars
<1>1. CASE Take(p)
  BY <1>0, <1>1 DEF Take
<1>2. CASE Wait(p) \/ HandleLoop(p) \/ Refuse(p) \/ OnPrepared(p) \/ HandleSeek(p) \/ StopRequested(p) \/ Forget(p)
  BY <1>0, <1>2, ZenonT(30) DEF Wait, HandleLoop, Refuse, OnPrepared, HandleSeek, StopRequested, Forget
<1>3. CASE HandleStart(p) \/ StartTasks(p) \/ SeekDone(p) \/ HandlePause(p) \/ HandleResume(p) \/ MarkStopped(p)
  BY <1>0, <1>3, ZenonT(30) DEF HandleStart, StartTasks, SeekDone, HandlePause, HandleResume, MarkStopped
<1>4. CASE HandlePrepare(p) \/ ReleaseCodecs(p)
  <2>1. held'[i] = held[i]
    BY <1>4 DEF HandlePrepare, ReleaseCodecs, TypeOK
  <2>. QED
    BY <1>0, <1>4, <2>1, ZenonT(30) DEF HandlePrepare, ReleaseCodecs
<1>5. CASE OnFinished(p)
  BY <1>5, Finishes DEF OnFinished
<1>. QED
  BY <1>1, <1>2, <1>3, <1>4, <1>5, ZenonT(30) DEF Control, HandleStop

\* A task only wakes the control thread.
LEMMA TaskMoves ==
  ASSUME TypeOK, NEW p \in Players, NEW t \in Tracks, Task(p, t)
  PROVE  UNCHANGED <<hwVars, held, mState, req, mRequest>> /\ \A i \in Players : Stays(i)
<1>1. UNCHANGED <<hwVars, held, mState, req, mRequest>>
  BY DEF Task, Iterate, NextFrame, EndOfStream, CodecThrows, TaskEnd, ctlVars, reqVars
<1>2. cpc' = cpc \/ cpc' = Woken(cpc, p)
  BY DEF Task, Iterate, NextFrame, EndOfStream, CodecThrows, TaskEnd, ctlVars
<1>3. cpc \in [Players -> Places]
  BY DEF TypeOK
<1>4. ASSUME NEW i \in Players PROVE Stays(i)
  <2>1. CASE cpc' = cpc
    BY <2>1, ZenonT(30) DEF Stays
  <2>2. CASE cpc' = Woken(cpc, p)
    <3>1. /\ i # p => Woken(cpc, p)[i] = cpc[i]
          /\ \/ Woken(cpc, p)[p] = cpc[p]
             \/ cpc[p] = "wait" /\ Woken(cpc, p)[p] = "take"
             \/ cpc[p] = "loop" /\ Woken(cpc, p)[p] = "eos"
      BY <1>3, WokenFact
    <3>. QED
      BY <2>2, <3>1, ZenonT(30) DEF Stays
  <2>. QED
    BY <1>2, <2>1, <2>2, ZenonT(30)
<1>. QED
  BY <1>1, <1>4, ZenonT(30)

\* HWPlayer touches the players by their requests only.
HwStep == Prepare \/ RunPrepared \/ SetPlaying \/ UI
LEMMA HwMoves ==
  ASSUME TypeOK, HwStep
  PROVE  UNCHANGED <<session, made, mPlayer1, held, mState, req>> /\ \A i \in Players : Stays(i)
<1>1. UNCHANGED <<session, made, mPlayer1, held, mState, req>>
  BY DEF HwStep, Prepare, RunPrepared, SetPlaying, UI, Stop, StopReturns, PauseOrContinue, SeekToTime, MayCall, ctlVars
<1>2. cpc' = cpc \/ (mPlayer1 \in Players /\ cpc' = Woken(cpc, mPlayer1))
  BY Sizes, ZenonT(30) DEF HwStep, Prepare, RunPrepared, SetPlaying, UI, Stop, StopReturns, PauseOrContinue, SeekToTime, MayCall,
               ctlVars, Ask
<1>3. cpc \in [Players -> Places]
  BY DEF TypeOK
<1>. QED
  BY <1>1, <1>2, <1>3, WokenFact DEF Stays

-----------------------------------------------------------------------------
(* Codecs and extractors. *)

\* HeldInv, for every step.
LEMMA HeldStep ==
  ASSUME TypeOK, OnceInv, HeldInv, Next
  PROVE  HeldInv'
<1>1. ASSUME NEW i \in Players, Stays(i), held'[i] = held[i], mState'[i] = mState[i]
      PROVE  HeldAt(i)'
  BY <1>1 DEF HeldInv, HeldAt, Stays
<1>2. CASE HwStep
  BY <1>1, <1>2, HwMoves DEF HeldInv
<1>3. ASSUME NEW p \in Players, NEW t \in Tracks, Task(p, t)
      PROVE  HeldInv'
  BY <1>1, <1>3, TaskMoves DEF HeldInv
<1>4. CASE NewPlayer
  <2>1. PICK n \in Players : n = made + 1
    BY <1>4, Sizes DEF NewPlayer, Players, TypeOK
  <2>2. cpc[n] = "none" /\ UNCHANGED <<held, mState>> /\ cpc' = [cpc EXCEPT ![n] = "take"]
    BY <1>4, <2>1, Sizes DEF NewPlayer, Go, OnceInv, OnceAt
  <2>3. HeldAt(n)'
    BY <2>2, ZenonT(30) DEF HeldInv, HeldAt, TypeOK
  <2>4. \A i \in Players \ {n} : Stays(i)
    BY <2>2 DEF Stays, TypeOK
  <2>. QED
    BY <1>1, <2>2, <2>3, <2>4 DEF HeldInv
<1>5. ASSUME NEW p \in Players, Control(p)
      PROVE  HeldInv'
  <2>0. /\ HeldAt(p) /\ cpc \in [Players -> Places] /\ mState \in [Players -> States]
        /\ held \in [Players -> BOOLEAN]
    BY DEF TypeOK, HeldInv
  <2>1. HeldAt(p)'
    <3>. USE <2>0 DEF HeldAt, Go, Does
    <3>1. CASE Take(p) \/ Wait(p) \/ HandleLoop(p) \/ Refuse(p) \/ OnPrepared(p)
      BY <3>1, ZenonT(30) DEF Take, Wait, HandleLoop, Refuse, OnPrepared
    <3>2. CASE HandlePrepare(p)
      BY <3>2 DEF HandlePrepare
    <3>3. CASE HandleStart(p) \/ StartTasks(p) \/ HandleSeek(p) \/ SeekDone(p)
      BY <3>3, ZenonT(30) DEF HandleStart, StartTasks, HandleSeek, SeekDone
    <3>4. CASE HandlePause(p) \/ HandleResume(p) \/ StopRequested(p)
      BY <3>4 DEF HandlePause, HandleResume, StopRequested
    <3>5. CASE ReleaseCodecs(p)
      BY <3>5 DEF ReleaseCodecs
    <3>6. CASE MarkStopped(p)
      BY <3>6 DEF MarkStopped
    <3>7. CASE OnFinished(p)
      BY <3>7, Finishes DEF OnFinished
    <3>8. CASE Forget(p)
      BY <3>8 DEF Forget
    <3>. QED
      BY <1>5, <3>1, <3>2, <3>3, <3>4, <3>5, <3>6, <3>7, <3>8, ZenonT(30) DEF Control, HandleStop
  <2>2. \A i \in Players \ {p} : HeldAt(i)'
    BY <1>1, <1>5, ControlMoves
  <2>. QED
    BY <2>1, <2>2 DEF HeldInv
<1>. QED
  BY <1>2, <1>3, <1>4, <1>5 DEF Next, HwStep

-----------------------------------------------------------------------------
(* Each player is prepared once. *)

\* What HWPlayer asks for.
LEMMA HwAsks ==
  ASSUME TypeOK, HwStep
  PROVE  /\ gpc' = "prepare" => gpc = "prepare"
         /\ events' <= events /\ events' \in Nat
         /\ \A i \in Players : \/ mRequest'[i] = mRequest[i]
                               \/ i = mPlayer1 /\ mRequest'[i] \in {"START", "STOP", "PAUSE", "RESUME", "SEEK"}
                               \/ i = mPlayer1 /\ mRequest'[i] = "PREPARE" /\ gpc = "prepare" /\ gpc' = "idle"
<1>1. CASE SetPlaying \/ StopReturns
  BY <1>1, Sizes DEF SetPlaying, StopReturns, reqVars
<1>2. CASE Prepare
  <2>1. mRequest' = mRequest \/ (mPlayer1 \in Players /\ mRequest' = [mRequest EXCEPT ![mPlayer1] = "PREPARE"])
    BY <1>2, Sizes DEF Prepare, Ask
  <2>. QED
    BY <1>2, <2>1, Sizes DEF Prepare, TypeOK
<1>3. CASE RunPrepared
  <2>1. mRequest' = mRequest \/ (mPlayer1 \in Players /\ mRequest' = [mRequest EXCEPT ![mPlayer1] = "START"])
    BY <1>3, Sizes DEF RunPrepared, Ask
  <2>. QED
    BY <1>3, <2>1, Sizes DEF RunPrepared, TypeOK
<1>4. CASE UI /\ ~StopReturns
  <2>1. \/ mRequest' = mRequest
        \/ \E r \in {"STOP", "PAUSE", "RESUME", "SEEK"} :
             mPlayer1 \in Players /\ mRequest' = [mRequest EXCEPT ![mPlayer1] = r]
    BY <1>4, Sizes DEF UI, Stop, PauseOrContinue, SeekToTime, MayCall, Ask
  <2>2. gpc' = gpc /\ events' = events
    BY <1>4, ZenonT(30) DEF UI, Stop, PauseOrContinue, SeekToTime, MayCall
  <2>. QED
    BY <2>1, <2>2, Sizes DEF TypeOK
<1>. QED
  BY <1>1, <1>2, <1>3, <1>4 DEF HwStep

\* The control thread of a player, and its request slot.
LEMMA ControlAsks ==
  ASSUME TypeOK, NEW p \in Players, Control(p)
  PROVE  /\ cpc[p] # "none"
         /\ UNCHANGED <<session, made, gpc, failed>>
         /\ events' = IF OnPrepared(p) THEN events + 1 ELSE events
         /\ mPlayer1' = mPlayer1 \/ (mPlayer1' = 0 /\ Forget(p))
         /\ \/ /\ cpc[p] = "take" /\ cpc'[p] = "act" /\ req'[p] = mRequest[p] /\ mRequest'[p] = "NON"
            \/ /\ HandlePrepare(p) /\ Taken(p) /\ cpc'[p] \in {"prepared", "die"} /\ mRequest' = mRequest
            \/ /\ OnPrepared(p) /\ Prepared(p) /\ cpc'[p] = "take" /\ mRequest' = mRequest
            \/ /\ cpc'[p] \notin {"act", "prepared"} /\ mRequest'[p] \in {mRequest[p], "STOP"}
               /\ cpc[p] # "prepared" /\ ~OnPrepared(p)
<1>0. /\ cpc \in [Players -> Places] /\ req \in [Players -> Requests] /\ mRequest \in [Players -> Requests]
  BY DEF TypeOK
<1>. USE <1>0 DEF Go, reqVars, hwVars, Taken, Prepared, Does
<1>1. CASE Take(p)
  BY <1>1 DEF Take, OnPrepared
<1>2. CASE HandlePrepare(p)
  BY <1>2 DEF HandlePrepare, OnPrepared
<1>3. CASE OnPrepared(p)
  BY <1>3 DEF OnPrepared
<1>4. CASE Wait(p) \/ HandleLoop(p) \/ Refuse(p) \/ HandleSeek(p) \/ StopRequested(p)
  BY <1>4, ZenonT(30) DEF Wait, HandleLoop, Refuse, HandleSeek, StopRequested, OnPrepared
<1>5. CASE HandleStart(p) \/ StartTasks(p) \/ SeekDone(p) \/ HandlePause(p) \/ HandleResume(p)
  BY <1>5, ZenonT(30) DEF HandleStart, StartTasks, SeekDone, HandlePause, HandleResume, OnPrepared
<1>6. CASE MarkStopped(p) \/ ReleaseCodecs(p)
  BY <1>6, ZenonT(30) DEF MarkStopped, ReleaseCodecs, OnPrepared
<1>7. CASE Forget(p)
  BY <1>7 DEF Forget, OnPrepared
<1>8. CASE OnFinished(p)
  <2>1. /\ cpc[p] \in {"finish", "dieFinish"} /\ UNCHANGED <<session, made, gpc, failed, events, mPlayer1>>
    BY <1>8 DEF OnFinished
  <2>2. cpc'[p] \in {"take", "dead", "forget", "dieForget"} /\ mRequest'[p] \in {mRequest[p], "STOP"}
    BY <1>8, Finishes
  <2>. QED
    BY <2>1, <2>2 DEF OnPrepared
<1>. QED
  BY <1>1, <1>2, <1>3, <1>4, <1>5, <1>6, <1>7, <1>8, ZenonT(30) DEF Control, HandleStop

\* No step puts a prepare() of a player ahead that is past, and a player still has
\* its prepare() in one place at most.
LEMMA OnceAtStep ==
  ASSUME TypeOK, OnceInv, Next, NEW i \in Players
  PROVE  /\ OnceAt(i)'
         /\ Ahead(i)' => Ahead(i)
<1>0. /\ OnceAt(i) /\ i \in Nat /\ i > 0 /\ made \in Nat
      /\ gpc = "prepare" => mPlayer1 \in {0, made}
      /\ mPlayer1 \in 0 .. made
  BY Sizes DEF OnceInv, TypeOK, Players
<1>. USE DEF OnceAt, Ahead, Asking, Asked, Taken, Prepared
<1>1. CASE HwStep
  <2>1. /\ UNCHANGED <<made, mPlayer1>> /\ req' = req /\ mState' = mState /\ Stays(i)
        /\ gpc' = "prepare" => gpc = "prepare"
        /\ \/ mRequest'[i] = mRequest[i]
           \/ i = mPlayer1 /\ mRequest'[i] \in {"START", "STOP", "PAUSE", "RESUME", "SEEK"}
           \/ i = mPlayer1 /\ mRequest'[i] = "PREPARE" /\ gpc = "prepare" /\ gpc' = "idle"
    BY <1>1, HwMoves, HwAsks, ZenonT(30)
  <2>2. CASE mRequest'[i] = mRequest[i] \/ mRequest'[i] \in {"START", "STOP", "PAUSE", "RESUME", "SEEK"}
    BY <1>0, <2>1, <2>2 DEF Stays
  <2>3. CASE i = mPlayer1 /\ mRequest'[i] = "PREPARE" /\ gpc = "prepare" /\ gpc' = "idle"
    <3>1. Asking(i) /\ ~Taken(i) /\ ~Prepared(i)
      BY <1>0, <2>3
    <3>. QED
      BY <1>0, <2>1, <2>3, <3>1 DEF Stays
  <2>. QED
    BY <2>1, <2>2, <2>3, ZenonT(30)
<1>2. ASSUME NEW p \in Players, NEW t \in Tracks, Task(p, t)
      PROVE  OnceAt(i)' /\ (Ahead(i)' => Ahead(i))
  <2>1. UNCHANGED <<made, gpc>> /\ UNCHANGED <<mState, req, mRequest>> /\ Stays(i)
    BY <1>2, TaskMoves DEF hwVars
  <2>. QED
    BY <1>0, <2>1 DEF Stays
<1>3. CASE NewPlayer
  <2>1. PICK n \in Players : n = made + 1
    BY <1>3, Sizes DEF NewPlayer, Players, TypeOK
  <2>2. /\ cpc' = [cpc EXCEPT ![n] = "take"] /\ UNCHANGED <<mState, req, mRequest>>
        /\ made' = n /\ gpc' = "prepare" /\ gpc = "idle"
    BY <1>3, <2>1 DEF NewPlayer, Go, reqVars
  <2>3. cpc \in [Players -> Places]
    BY DEF TypeOK
  <2>. QED
    BY <1>0, <2>1, <2>2, <2>3
<1>4. ASSUME NEW p \in Players, Control(p)
      PROVE  OnceAt(i)' /\ (Ahead(i)' => Ahead(i))
  <2>1. UNCHANGED <<made, gpc>>
    BY <1>4, ControlAsks, ZenonT(30)
  <2>2. CASE i # p
    <3>1. /\ Stays(i) /\ mState'[i] = mState[i] /\ req'[i] = req[i]
          /\ mRequest'[i] = mRequest[i] \/ (i = mPlayer1 /\ mRequest'[i] = "STOP")
      BY <1>4, <2>2, ControlMoves, ZenonT(30)
    <3>. QED
      BY <1>0, <2>1, <3>1 DEF Stays
  <2>3. CASE i = p
    <3>1. ~(i > made)
      BY <1>0, <1>4, <2>3, ControlAsks
    <3>. QED
      BY <1>0, <1>4, <2>1, <2>3, <3>1, ControlAsks
  <2>. QED
    BY <2>2, <2>3
<1>. QED
  BY <1>1, <1>2, <1>3, <1>4, ZenonT(30) DEF Next, HwStep

\* OnceInv, for every step.
LEMMA OnceStep ==
  ASSUME TypeOK, OnceInv, Next
  PROVE  OnceInv'
<1>0. \A i \in Players : OnceAt(i)' /\ (Ahead(i)' => Ahead(i))
  BY OnceAtStep
<1>1. (gpc = "prepare" => mPlayer1 \in {0, made} /\ made > 0)'
  <2>1. CASE HwStep
    BY <2>1, HwMoves, HwAsks DEF OnceInv
  <2>2. ASSUME NEW p \in Players, NEW t \in Tracks, Task(p, t)
        PROVE  UNCHANGED <<gpc, mPlayer1, made>>
    BY <2>2, TaskMoves DEF hwVars
  <2>3. CASE NewPlayer
    BY <2>3, Sizes DEF NewPlayer
  <2>4. ASSUME NEW p \in Players, Control(p)
        PROVE  UNCHANGED <<gpc, made>> /\ mPlayer1' \in {mPlayer1, 0}
    BY <2>4, ControlAsks
  <2>. QED
    BY <2>1, <2>2, <2>3, <2>4 DEF Next, HwStep, OnceInv
<1>2. events' <= Cardinality(Past')
  <2>1. Past \subseteq Past'
    BY <1>0 DEF Past
  <2>2. IsFiniteSet(Players) /\ IsFiniteSet(Past) /\ IsFiniteSet(Past')
    <3>1. IsFiniteSet(Players)
      BY Sizes, FS_Interval DEF Players
    <3>. QED
      BY <3>1, FS_Subset DEF Past
  <2>3. Cardinality(Past) \in Nat /\ Cardinality(Past') \in Nat /\ Cardinality(Past) <= Cardinality(Past')
    BY <2>1, <2>2, FS_Subset, FS_CardinalityType
  <2>4. CASE events' \in Nat /\ events' <= events
    BY <2>3, <2>4, Sizes DEF OnceInv
  <2>5. ASSUME NEW p \in Players, OnPrepared(p)
        PROVE  events' <= Cardinality(Past')
    <3>1. Prepared(p) /\ cpc'[p] = "take" /\ mRequest' = mRequest /\ UNCHANGED <<made, gpc>> /\ events' = events + 1
      BY <2>5 DEF OnPrepared, Prepared, Go, TypeOK, reqVars
    <3>2. p \notin Past
      BY <3>1 DEF Past, Ahead
    <3>3. OnceAt(p) /\ p \in Nat /\ made \in Nat
      BY Sizes DEF OnceInv, Players
    <3>4. ~Ahead(p)'
      BY <3>1, <3>3 DEF OnceAt, Ahead, Asking, Asked, Taken, Prepared
    <3>5. p \in Past'
      BY <3>4 DEF Past
    <3>6. Cardinality(Past \cup {p}) = Cardinality(Past) + 1
      BY <2>2, <3>2, FS_AddElement, ZenonT(30)
    <3>7. Cardinality(Past \cup {p}) <= Cardinality(Past')
      BY <2>1, <2>2, <3>5, FS_Subset
    <3>. QED
      BY <2>3, <3>1, <3>6, <3>7, Sizes DEF OnceInv
  <2>6. \/ events' \in Nat /\ events' <= events
        \/ \E p \in Players : OnPrepared(p)
    <3>1. CASE HwStep
      BY <3>1, HwAsks
    <3>2. ASSUME NEW p \in Players, NEW t \in Tracks, Task(p, t)
          PROVE  events' = events
      BY <3>2, TaskMoves DEF hwVars
    <3>3. CASE NewPlayer
      BY <3>3, Sizes DEF NewPlayer
    <3>4. ASSUME NEW p \in Players, Control(p), ~OnPrepared(p)
          PROVE  events' = events
      BY <3>4, ControlAsks, ZenonT(30)
    <3>. QED
      BY <3>1, <3>2, <3>3, <3>4, Sizes DEF Next, HwStep
  <2>. QED
    BY <2>4, <2>5, <2>6
<1>. QED
  BY <1>0, <1>1, <1>2 DEF OnceInv

\* Every variable keeps its type; the runnables that wait are no more than the
\* players made.
LEMMA TypeStep ==
  ASSUME TypeOK, OnceInv, Next
  PROVE  TypeOK'
<1>1. HwTypes' /\ mIsPlaying' \in BOOLEAN /\ failed' \in BOOLEAN /\ CtlTypes' /\ FlagTypes'
  BY HwTypeStep, CtlTypeStep, FlagTypeStep
<1>2. events' \in Nat /\ made' \in Nat /\ events' <= Cardinality(Past')
  <2>1. session' \in Sessions /\ session'.files \in Nat
    BY <1>1, PlayerAssumption DEF HwTypes
  <2>. QED
    BY <1>1, <2>1, OnceStep DEF OnceInv, HwTypes
<1>3. Past' \subseteq 1 .. made'
  BY <1>2 DEF Past, Ahead, Players
<1>4. Cardinality(Past') <= made' /\ Cardinality(Past') \in Nat
  <2>1. IsFiniteSet(1 .. made') /\ Cardinality(1 .. made') = made'
    BY <1>2, FS_Interval
  <2>2. IsFiniteSet(Past') /\ Cardinality(Past') <= Cardinality(1 .. made')
    BY <1>3, <2>1, FS_Subset, ZenonT(30)
  <2>. QED
    BY <2>1, <2>2, FS_CardinalityType
<1>5. events' \in 0 .. made'
  BY <1>2, <1>4
<1>. QED
  BY <1>1, <1>5 DEF TypeOK, HwTypes, CtlTypes, FlagTypes


-----------------------------------------------------------------------------
(* With one file. *)

\* There is one player at most, and at most one runnable waits.
LEMMA One ==
  ASSUME TypeOK, session.files = 1
  PROVE  1 \in Players /\ made \in {0, 1} /\ mPlayer1 \in {0, 1} /\ events \in {0, 1} /\ (made = 0 => mPlayer1 = 0 /\ events = 0)
<1>1. 1 \in Players
  BY PlayerAssumption DEF Players
<1>. QED
  BY <1>1 DEF TypeOK

\* The control thread of the only player.
LEMMA SoleControl ==
  ASSUME TypeOK, HeldInv, OnceInv, session.files = 1, SoleInv, Control(1)
  PROVE  SoleInv'
<1>0. /\ 1 \in Players /\ events \in {0, 1} /\ mPlayer1 \in {0, 1}
      /\ cpc[1] # "none" /\ made = 1 /\ OnceAt(1) /\ HeldAt(1)
      /\ UNCHANGED <<session, made, gpc, failed>>
  BY One, ControlAsks DEF OnceInv, OnceAt, HeldInv
<1>1. /\ events' = IF OnPrepared(1) THEN events + 1 ELSE events
      /\ mPlayer1' = mPlayer1 \/ (mPlayer1' = 0 /\ Forget(1))
      /\ \/ /\ cpc[1] = "take" /\ cpc'[1] = "act" /\ req'[1] = mRequest[1] /\ mRequest'[1] = "NON"
         \/ /\ HandlePrepare(1) /\ Taken(1) /\ cpc'[1] \in {"prepared", "die"} /\ mRequest' = mRequest
         \/ /\ OnPrepared(1) /\ Prepared(1) /\ cpc'[1] = "take" /\ mRequest' = mRequest
         \/ /\ cpc'[1] \notin {"act", "prepared"} /\ mRequest'[1] \in {mRequest[1], "STOP"}
            /\ cpc[1] # "prepared" /\ ~OnPrepared(1)
  BY <1>0, ControlAsks
<1>2. CASE ~Fresh
  <2>0. ~OnPrepared(1)
    BY <1>2 DEF OnPrepared, Fresh, Prepared
  <2>1. ~Fresh'
    BY <1>0, <1>1, <1>2, <2>0 DEF Fresh, Asked, Taken, Prepared
  <2>2. mPlayer1' = 0 => mState'[1] = "STOP"
    <3>1. CASE Forget(1)
      BY <1>0, <3>1 DEF Forget, HeldAt
    <3>2. CASE mPlayer1 = 0
      <4>1. mState[1] = "STOP" /\ ~Taken(1) /\ mState \in [Players -> States]
        BY <1>2, <3>2 DEF SoleInv, Fresh, TypeOK
      <4>. QED
        BY <1>0, <4>1, ZenonT(30) DEF Control, HandleStop, Take, Wait, HandleLoop, Refuse, HandlePrepare, OnPrepared, HandleStart,
          StartTasks, HandleSeek, SeekDone, HandlePause, HandleResume, StopRequested, ReleaseCodecs, MarkStopped,
          OnFinished, Forget, Does, Taken
    <3>. QED
      BY <1>1, <3>1, <3>2
  <2>3. events' = 0
    BY <1>0, <1>1, <1>2, <2>0 DEF Fresh
  <2>. QED
    BY <1>0, <2>1, <2>2, <2>3 DEF SoleInv
<1>3. CASE Fresh
  <2>0. /\ mPlayer1 = 1 /\ ~mIsPlaying /\ gpc # "playing" /\ ~failed
        /\ cpc[1] \in {"take", "act", "wait", "prepared"}
        /\ mRequest[1] \in {"NON", "SEEK", "PREPARE"}
        /\ cpc[1] = "act" => req[1] \in {"NON", "SEEK", "PREPARE"}
        /\ mState[1] = IF Prepared(1) \/ events > 0 THEN "PREPARED" ELSE "STOP"
        /\ events > 0 => ~Ahead(1)
        /\ cpc \in [Players -> Places] /\ mState \in [Players -> States]
        /\ mRequest \in [Players -> Requests] /\ req \in [Players -> Requests]
    BY <1>3 DEF SoleInv, TypeOK
  <2>1. CASE Take(1)
    <3>1. /\ cpc'[1] = "act" /\ req'[1] = mRequest[1] /\ mRequest'[1] = "NON" /\ cpc[1] = "take"
          /\ UNCHANGED <<mPlayer1, mState, events>> /\ mIsPlaying' = mIsPlaying
      BY <1>0, <2>0, <2>1 DEF Take, Go, hwVars
    <3>. QED
      BY <1>0, <2>0, <3>1, ZenonT(30) DEF SoleInv, Ahead, Asking, Fresh, Asked, Taken, Prepared, OnceAt
  <2>2. CASE Wait(1)
    <3>1. /\ cpc'[1] = "wait" /\ cpc[1] = "act" /\ UNCHANGED <<mPlayer1, mState, events, mRequest>> /\ mIsPlaying' = mIsPlaying
      BY <1>0, <2>0, <2>2 DEF Wait, Go, hwVars, reqVars
    <3>. QED
      BY <1>0, <2>0, <3>1, ZenonT(30) DEF SoleInv, Ahead, Asking, Fresh, Asked, Taken, Prepared, OnceAt
  <2>3. CASE Refuse(1)
    BY <1>0, <2>0, <2>3 DEF Refuse, Illegal, Prepared
  <2>4. CASE HandlePrepare(1)
    <3>1. /\ Taken(1) /\ events = 0 /\ ~Asked(1) /\ ~Asking(1)
      BY <1>0, <2>0, <2>4 DEF HandlePrepare, Does, Taken, OnceAt, Ahead
    <3>2. /\ UNCHANGED <<mPlayer1, events, mRequest>> /\ mIsPlaying' = mIsPlaying
          /\ \/ cpc'[1] = "prepared" /\ mState'[1] = "PREPARED"
             \/ cpc'[1] = "die"
      BY <1>0, <2>0, <2>4 DEF HandlePrepare, Go, hwVars, reqVars
    <3>3. ~(events' > 0) /\ gpc' # "prepare" /\ mPlayer1' # 0
      BY <1>0, <2>0, <3>1, <3>2 DEF Asking
    <3>. QED
      BY <1>0, <2>0, <3>1, <3>2, <3>3, ZenonT(30) DEF SoleInv, Fresh, Asked, Taken, Prepared
  <2>5. CASE OnPrepared(1)
    <3>1. Prepared(1) /\ events = 0 /\ ~Asked(1) /\ ~Asking(1)
      BY <1>0, <2>0, <2>5 DEF OnPrepared, Prepared, OnceAt, Ahead
    <3>2. /\ UNCHANGED <<mPlayer1, mState, mRequest>> /\ mIsPlaying' = mIsPlaying /\ cpc'[1] = "take" /\ events' = 1
      BY <1>0, <2>0, <2>5, <3>1 DEF OnPrepared, Go, hwVars, reqVars
    <3>. QED
      BY <1>0, <2>0, <3>1, <3>2, ZenonT(30) DEF SoleInv, Ahead, Asking, Fresh, Asked, Taken, Prepared, OnceAt
  <2>6. CASE HandleStart(1) \/ StartTasks(1) \/ HandleSeek(1) \/ SeekDone(1) \/ HandlePause(1) \/ HandleResume(1) \/ StopRequested(1)
    BY <1>0, <2>0, <2>6, ZenonT(30) DEF HandleStart, StartTasks, HandleSeek, SeekDone, HandlePause, HandleResume, StopRequested, Does
  <2>7. CASE HandleLoop(1) \/ HandleStop(1)
    BY <2>0, <2>7, ZenonT(30) DEF HandleLoop, HandleStop, ReleaseCodecs, MarkStopped, OnFinished, Forget
  <2>. QED
    BY <2>1, <2>2, <2>3, <2>4, <2>5, <2>6, <2>7 DEF Control
<1>. QED
  BY <1>2, <1>3

\* The calls on HWPlayer, with one player at most.
LEMMA SoleHw ==
  ASSUME TypeOK, OnceInv, session.files = 1, SoleInv, HwStep
  PROVE  SoleInv'
<1>0. /\ 1 \in Players /\ made \in {0, 1} /\ mPlayer1 \in {0, 1} /\ events \in {0, 1}
      /\ made = 0 => mPlayer1 = 0 /\ events = 0
      /\ OnceAt(1) /\ UNCHANGED <<session, made, mPlayer1>> /\ mState' = mState /\ req' = req /\ Stays(1)
  BY One, HwMoves DEF OnceInv
<1>1. Ahead(1)' => Ahead(1)
  BY <1>0, OnceAtStep DEF Next, HwStep
<1>2. CASE Prepare
  <2>1. /\ gpc = "prepare" /\ made = 1 /\ mPlayer1 = 1 /\ ~mIsPlaying /\ events = 0 /\ ~Prepared(1) /\ ~Taken(1) /\ ~failed
        /\ cpc[1] \in {"take", "act", "wait", "prepared"}
        /\ cpc[1] = "act" => req[1] \in {"NON", "SEEK", "PREPARE"}
        /\ mState[1] = "STOP"
    <3>1. gpc = "prepare" /\ made = 1
      BY <1>0, <1>2, ZenonT(30) DEF Prepare, SoleInv
    <3>2. ~(events > 0) /\ ~Prepared(1) /\ ~Taken(1)
      BY <1>0, <3>1, ZenonT(30) DEF SoleInv, Ahead, Asking, OnceAt
    <3>3. events = 0
      BY <1>0, <3>2
    <3>. QED
      BY <3>1, <3>2, <3>3, ZenonT(30) DEF SoleInv, Fresh
  <2>2. gpc' = "idle" /\ mRequest'[1] = "PREPARE" /\ events' = 0 /\ ~failed' /\ ~mIsPlaying'
    BY <1>0, <1>2, <2>1 DEF Prepare, Ask, TypeOK
  <2>. QED
    BY <1>0, <1>1, <2>1, <2>2, ZenonT(30) DEF SoleInv, Fresh, Stays, Asked, Taken, Prepared
<1>3. CASE RunPrepared
  <2>1. /\ events = 1 /\ made = 1 /\ mPlayer1 = 1 /\ ~mIsPlaying /\ ~Ahead(1) /\ ~failed /\ mState[1] = "PREPARED"
    BY <1>0, <1>3 DEF RunPrepared, SoleInv, Fresh
  <2>2. gpc' = "playing" /\ mRequest'[1] = "START" /\ events' = 0 /\ ~failed'
    BY <1>0, <1>3, <2>1 DEF RunPrepared, Ask, TypeOK
  <2>. QED
    <3>1. ~Fresh' /\ ~(events' > 0)
      BY <1>1, <2>1, <2>2 DEF Fresh, Ahead
    <3>. QED
      BY <1>0, <2>1, <2>2, <3>1, ZenonT(30) DEF SoleInv
<1>4. ASSUME ~Fresh, UNCHANGED events, ~failed', made = 1, gpc' # "prepare", mRequest'[1] # "PREPARE"
      PROVE  SoleInv'
  <2>1. ~Fresh'
    BY <1>0, <1>4 DEF Fresh, Stays, Asked, Taken, Prepared
  <2>2. events' = 0
    BY <1>0, <1>4 DEF Fresh
  <2>. QED
    BY <1>0, <1>4, <2>1, <2>2 DEF SoleInv
<1>5. CASE SetPlaying
  <2>1. ~Fresh /\ made = 1
    BY <1>0, <1>5 DEF SetPlaying, SoleInv
  <2>2. UNCHANGED events /\ ~failed' /\ gpc' = "idle" /\ mRequest' = mRequest
    BY <1>5 DEF SetPlaying, SoleInv, reqVars
  <2>. QED
    BY <1>4, <2>1, <2>2 DEF Fresh, Asked
<1>6. CASE Stop \/ PauseOrContinue("Pause", "PAUSE") \/ PauseOrContinue("Continue", "RESUME")
  <2>1. ~Fresh /\ made = 1
    BY <1>0, <1>6, ZenonT(30) DEF Stop, PauseOrContinue, MayCall, SoleInv
  <2>2. UNCHANGED <<events, gpc>> /\ ~failed'
    <3>1. UNCHANGED <<events, gpc, failed>>
      BY <1>6, ZenonT(30) DEF Stop, PauseOrContinue, MayCall
    <3>. QED
      BY <3>1 DEF SoleInv
  <2>3. mRequest'[1] # "PREPARE"
    BY <1>0, <1>6, <2>1, ZenonT(30) DEF Stop, PauseOrContinue, MayCall, Ask, TypeOK, Fresh, Asked
  <2>. QED
    BY <1>4, <2>1, <2>2, <2>3 DEF Fresh
<1>7. CASE StopReturns
  <2>1. UNCHANGED <<gpc, events, cpc>> /\ mRequest' = mRequest /\ failed' = failed /\ ~mIsPlaying'
    BY <1>7 DEF StopReturns, ctlVars, reqVars
  <2>. QED
    BY <1>0, <1>1, <2>1 DEF SoleInv, Fresh, Asked, Taken, Prepared
<1>8. CASE SeekToTime
  <2>1. /\ UNCHANGED <<gpc, events>> /\ failed' = failed /\ mIsPlaying' = mIsPlaying /\ mRequest'[1] = "SEEK"
    BY <1>0, <1>8, ZenonT(30) DEF SeekToTime, MayCall, Ask, TypeOK
  <2>. QED
    BY <1>0, <1>1, <2>1 DEF SoleInv, Fresh, Stays, Asked, Taken, Prepared
<1>. QED
  BY <1>2, <1>3, <1>5, <1>6, <1>7, <1>8 DEF HwStep, UI

\* SoleInv, for every step of a session with one file.
LEMMA SoleStep ==
  ASSUME IInv, session.files = 1, Next
  PROVE  SoleInv'
<1>0. TypeOK /\ HeldInv /\ OnceInv /\ SoleInv
  BY DEF IInv
<1>1. /\ 1 \in Players /\ made \in {0, 1} /\ mPlayer1 \in {0, 1} /\ events \in {0, 1}
      /\ made = 0 => mPlayer1 = 0 /\ events = 0
      /\ OnceAt(1)
  BY <1>0, One DEF OnceInv
<1>2. CASE HwStep
  BY <1>0, <1>2, SoleHw
<1>3. ASSUME NEW p \in Players, Control(p)
      PROVE  SoleInv'
  <2>1. cpc[p] # "none"
    BY <1>0, <1>3, ControlAsks, ZenonT(30)
  <2>2. p = 1
    BY <1>0, <1>1, <2>1 DEF OnceInv, OnceAt, Players
  <2>. QED
    BY <1>0, <1>3, <2>2, SoleControl
<1>4. ASSUME NEW p \in Players, NEW t \in Tracks, Task(p, t)
      PROVE  SoleInv'
  <2>1. /\ UNCHANGED <<made, mPlayer1, gpc, events>> /\ mIsPlaying' = mIsPlaying /\ failed' = failed
        /\ mState' = mState /\ req' = req /\ mRequest' = mRequest /\ Stays(1)
    BY <1>0, <1>1, <1>4, TaskMoves DEF hwVars
  <2>2. Ahead(1)' => Ahead(1)
    BY <2>1 DEF Stays, Ahead, Asking, Asked, Taken, Prepared
  <2>. QED
    BY <1>0, <2>1, <2>2 DEF SoleInv, Fresh, Stays, Asked, Taken, Prepared
<1>5. CASE NewPlayer
  <2>1. made = 0 /\ made' = 1 /\ mPlayer1' = 1 /\ gpc' = "prepare" /\ UNCHANGED <<events, mState, mRequest>>
        /\ mIsPlaying' = mIsPlaying /\ failed' = failed
    BY <1>1, <1>5 DEF NewPlayer, reqVars
  <2>2. cpc'[1] = "take"
    BY <1>0, <1>1, <1>5, <2>1 DEF NewPlayer, Go, TypeOK
  <2>. QED
    BY <1>0, <1>1, <2>1, <2>2 DEF SoleInv, OnceAt, Fresh, Asked, Taken, Prepared
<1>. QED
  BY <1>2, <1>3, <1>4, <1>5 DEF Next, HwStep

\* A session is chosen once.
LEMMA SessionStays ==
  ASSUME TypeOK, Next
  PROVE  session' = session
<1>1. CASE HwStep
  BY <1>1, HwMoves
<1>2. CASE NewPlayer
  BY <1>2 DEF NewPlayer
<1>3. ASSUME NEW p \in Players, Control(p)
      PROVE  session' = session
  BY <1>3, ControlAsks, ZenonT(30)
<1>4. ASSUME NEW p \in Players, NEW t \in Tracks, Task(p, t)
      PROVE  session' = session
  BY <1>4, TaskMoves DEF hwVars
<1>. QED
  BY <1>1, <1>2, <1>3, <1>4 DEF Next, HwStep

-----------------------------------------------------------------------------
(* The theorems.  The runs give the tasks fairness, which no proof uses. *)

\* IInv holds when HWPlayer is made.
LEMMA Initially ==
  ASSUME Init
  PROVE  IInv
<1>. USE DEF Init
<1>0. 1 \in Players /\ session.files \in Nat /\ session.bound \in Nat
  BY PlayerAssumption DEF Players
<1>1. TypeOK
  <2>1. HwTypes /\ events \in 0 .. made
    BY <1>0 DEF HwTypes
  <2>2. mIsPlaying \in BOOLEAN /\ failed \in BOOLEAN
    BY ZenonT(30)
  <2>3. /\ mRequest \in [Players -> Requests] /\ mState \in [Players -> States]
        /\ mRequestTime \in [Players -> {-1, 1}] /\ cpc \in [Players -> Places] /\ req \in [Players -> Requests]
    BY DEF Requests, States, Places
  <2>4. mPause \in [Players -> BOOLEAN] /\ held \in [Players -> BOOLEAN]
    OBVIOUS
  <2>5. inDone \in [Players -> [Tracks -> BOOLEAN]] /\ outDone \in [Players -> [Tracks -> BOOLEAN]]
    OBVIOUS
  <2>6. tpc \in [Players -> [Tracks -> {"none", "run", "work", "leave", "ended"}]]
    OBVIOUS
  <2>. QED
    BY <2>1, <2>2, <2>3, <2>4, <2>5, <2>6 DEF TypeOK, HwTypes
<1>2. HeldInv
  BY DEF HeldInv, HeldAt
<1>3. OnceInv
  <2>1. \A p \in Players : OnceAt(p)
    BY DEF OnceAt, Asking, Asked, Taken, Prepared
  <2>2. IsFiniteSet(Past)
    <3>1. IsFiniteSet(Players)
      BY <1>1, Sizes, FS_Interval DEF Players
    <3>. QED
      BY <3>1, FS_Subset DEF Past
  <2>3. events <= Cardinality(Past)
    BY <2>2, FS_CardinalityType
  <2>. QED
    BY <2>1, <2>3 DEF OnceInv
<1>4. SoleInv
  BY <1>0 DEF SoleInv, Fresh, Asked, Taken, Prepared
<1>. QED
  BY <1>1, <1>2, <1>3, <1>4 DEF IInv

\* A step that leaves everything as it is keeps IInv.
LEMMA Stutters ==
  ASSUME IInv, UNCHANGED vars
  PROVE  IInv'
<1>. USE DEF vars, hwVars, ctlVars, reqVars, taskVars
<1>1. TypeOK'
  BY DEF IInv, TypeOK
<1>2. HeldInv'
  BY ZenonT(30) DEF IInv, HeldInv, HeldAt
<1>3. OnceInv'
  BY DEF IInv, OnceInv, OnceAt, Past, Ahead, Asking, Asked, Taken, Prepared
<1>4. session'.files = 1 => SoleInv'
  BY ZenonT(30) DEF IInv, SoleInv, Fresh, Ahead, Asking, Asked, Taken, Prepared
<1>. QED
  BY <1>1, <1>2, <1>3, <1>4 DEF IInv

\* IInv holds in every state the player reaches.
THEOREM Invariance == TaskSpec => []IInv
<1>1. Init => IInv
  BY Initially
<1>2. IInv /\ [Next]_vars => IInv'
  <2>. SUFFICES ASSUME IInv, [Next]_vars
                PROVE  IInv'
    OBVIOUS
  <2>1. CASE UNCHANGED vars
    BY <2>1, Stutters
  <2>2. CASE Next
    <3>1. TypeOK' /\ HeldInv' /\ OnceInv'
      BY <2>2, TypeStep, HeldStep, OnceStep DEF IInv
    <3>2. session' = session
      BY <2>2, SessionStays DEF IInv
    <3>3. session'.files = 1 => SoleInv'
      BY <2>2, <3>2, SoleStep
    <3>. QED
      BY <3>1, <3>3 DEF IInv
  <2>. QED
    BY <2>1, <2>2
<1>. QED
  BY <1>1, <1>2, PTL DEF TaskSpec

\* Every member of HWPlayer and of the players keeps its type; in particular no
\* more runnables of onPrepared wait than players were made, for each player is
\* prepared at most once (PlayFile).
THEOREM TypeCorrect == TaskSpec => []TypeOK
<1>1. IInv => TypeOK
  BY DEF IInv
<1>. QED
  BY <1>1, Invariance, PTL

\* For any number of files, whatever ends a playback, a player holds its codecs
\* and extractors exactly while its state is not STOP (handlePrepare, handleStop).
THEOREM CodecsHeld == TaskSpec => []HeldWhileActive
<1>1. IInv => HeldWhileActive
  BY DEF IInv, HeldInv, HeldAt, HeldWhileActive
<1>. QED
  BY <1>1, Invariance, PTL

\* With one file, a player that plays or is paused is the current one, so that
\* StopPlay reaches it: only its own onFinished forgets it, in state STOP.
THEOREM PlayingReached == TaskSpec => []PlayingIsCurrent
<1>1. IInv => PlayingIsCurrent
  <2>. SUFFICES ASSUME IInv, session.files = 1, NEW p \in Players,
                       mState[p] \in {"PLAYING", "PAUSED"}, cpc[p] \in {"loop", "wait"}
                PROVE  mPlayer1 = p
    BY DEF PlayingIsCurrent
  <2>1. 1 \in Players /\ made \in {0, 1} /\ mPlayer1 \in {0, 1}
    BY One DEF IInv
  <2>2. p = 1
    BY <2>1 DEF IInv, OnceInv, OnceAt, Players
  <2>. QED
    BY <2>1, <2>2 DEF IInv, SoleInv
<1>. QED
  BY <1>1, Invariance, PTL

\* With one file, the GL thread always finds the player it prepares and starts:
\* neither prepare() in PlayFile nor play() in onPrepared's runnable meets null.
THEOREM RunnableFindsPlayer == TaskSpec => []PreparedFindsPlayer
<1>1. IInv => PreparedFindsPlayer
  BY DEF IInv, SoleInv, PreparedFindsPlayer
<1>. QED
  BY <1>1, Invariance, PTL
=============================================================================
