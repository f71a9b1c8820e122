---------------------------- MODULE MoviePlayer ----------------------------
(***************************************************************************)
(* The file player: HWCodec/HWPlayer.java and the MediaMoviePlayer objects *)
(* it makes, one per file (HWCodec/MediaMoviePlayer.java).                 *)
(*                                                                         *)
(* Each player has a control thread and one task per track.  Requests go   *)
(* through one slot, mRequest, which the control thread empties in one     *)
(* synchronized block; it waits in a later one.  Nobody calls release(),   *)
(* so mIsRunning stays true.  Files are played on the GL thread, the other *)
(* calls are made on the UI thread.                                        *)
(***************************************************************************)
EXTENDS Integers, FiniteSets

CONSTANTS
  Files,      \* bound on the files played
  Tracks,     \* the tracks a file can have
  Sessions,   \* the ways the application uses the player
  Faults      \* the file or a codec may fail

\* Of a session: the files played and their tracks, the calls made on the UI
\* thread and a bound on their number.
ASSUME PlayerAssumption ==
  /\ Files \in Nat \ {0} /\ Faults \in BOOLEAN
  /\ Tracks # {} /\ Tracks \subseteq {"video", "audio"}
  /\ \A s \in Sessions : /\ s.files \in 1 .. Files /\ s.bound \in Nat
                         /\ s.tracks \subseteq Tracks /\ s.tracks # {}
                         /\ s.calls \subseteq {"Stop", "Pause", "Continue", "Seek"}

Players == 1 .. Files

VARIABLES
  session,             \* one of Sessions
  made,                \* the number of players made
  mPlayer1,            \* the current one, 0 for null
  mIsPlaying,
  gpc, events,         \* the GL thread inside PlayFile; onPrepared's runnables in its queue
  upc, calls,          \* the UI thread inside Stop
  failed,              \* the GL thread has thrown a NullPointerException
  mRequest, mState, mRequestTime, mPause,      \* of each player
  cpc, req,            \* its control thread and local_req
  held,                \* its extractors and codecs are there
  inDone, outDone, tpc \* of each player and track

hwVars == <<session, made, mPlayer1, mIsPlaying, gpc, events, upc, calls, failed>>
ctlVars == <<cpc, req, held, mState, mPause>>
reqVars == <<mRequest, mRequestTime>>
taskVars == <<inDone, outDone, tpc>>
vars == <<hwVars, ctlVars, reqVars, taskVars>>

Init ==
  /\ session \in Sessions
  /\ made = 0 /\ mPlayer1 = 0 /\ mIsPlaying = FALSE
  /\ gpc = "idle" /\ events = 0 /\ upc = "idle" /\ calls = 0 /\ failed = FALSE
  /\ mRequest = [p \in Players |-> "NON"] /\ mState = [p \in Players |-> "STOP"]
  /\ mRequestTime = [p \in Players |-> -1] /\ mPause = [p \in Players |-> FALSE]
  /\ cpc = [p \in Players |-> "none"] /\ req = [p \in Players |-> "NON"]
  /\ held = [p \in Players |-> FALSE]
  /\ inDone = [p \in Players |-> [t \in Tracks |-> FALSE]] /\ outDone = inDone
  /\ tpc = [p \in Players |-> [t \in Tracks |-> "none"]]

\* mSync.notifyAll() with q holding what the control threads do otherwise.
Woken(q, p) == [q EXCEPT ![p] = CASE q[p] = "wait" -> "take" [] q[p] = "loop" -> "eos" [] OTHER -> q[p]]

\* Stores a request in the slot of player p and wakes its control thread.
Ask(p, r) == mRequest' = [mRequest EXCEPT ![p] = r] /\ cpc' = Woken(cpc, p)

-----------------------------------------------------------------------------
(* The control thread of player p. *)

Go(p, next) == cpc' = [cpc EXCEPT ![p] = next]
Does(p, state, r) == cpc[p] = "act" /\ mState[p] = state /\ req[p] = r

\* The requests that processStop, ..., processPaused refuse with an exception,
\* and the ones that they handle.
Illegal(state) ==
  CASE state = "STOP"     -> {"START", "PAUSE", "RESUME"}
    [] state = "PREPARED" -> {"PAUSE", "RESUME"}
    [] state = "PLAYING"  -> {"PREPARE", "START", "RESUME"}
    [] state = "PAUSED"   -> {"PREPARE", "START"}

Handled(state) ==
  CASE state = "STOP"     -> {"PREPARE"}
    [] state = "PREPARED" -> {"START", "STOP"}
    [] state = "PLAYING"  -> {"SEEK", "STOP", "PAUSE"}
    [] state = "PAUSED"   -> {"SEEK", "STOP", "RESUME"}

\* Takes the request out of the slot.
Take(p) ==
  /\ cpc[p] = "take" /\ Go(p, "act")
  /\ req' = [req EXCEPT ![p] = mRequest[p]] /\ mRequest' = [mRequest EXCEPT ![p] = "NON"]
  /\ UNCHANGED <<hwVars, held, mState, mPause, mRequestTime, taskVars>>

\* Nothing to do: wait, in handleLoop while playing.
Wait(p) ==
  /\ cpc[p] = "act" /\ req[p] \notin Illegal(mState[p]) \cup Handled(mState[p])
  /\ Go(p, IF mState[p] = "PLAYING" THEN "loop" ELSE "wait")
  /\ UNCHANGED <<hwVars, req, held, mState, mPause, reqVars, taskVars>>

\* handleLoop after its wait.
HandleLoop(p) ==
  /\ cpc[p] = "eos"
  /\ Go(p, IF \A t \in Tracks : inDone[p][t] /\ outDone[p][t] THEN "stop" ELSE "take")
  /\ UNCHANGED <<hwVars, req, held, mState, mPause, reqVars, taskVars>>

\* Mutant of Refuse: the exception only ends with onFinished.
RefuseFinishes(p) ==
  /\ cpc[p] = "act" /\ req[p] \in Illegal(mState[p])
  /\ Go(p, "finish")
  /\ UNCHANGED <<hwVars, req, held, mState, mPause, reqVars, taskVars>>

\* An IllegalStateException ends the thread by way of handleStop.
Refuse(p) ==
  /\ cpc[p] = "act" /\ req[p] \in Illegal(mState[p])
  /\ Go(p, "die")
  /\ UNCHANGED <<hwVars, req, held, mState, mPause, reqVars, taskVars>>

HandlePrepare(p) ==
  /\ Does(p, "STOP", "PREPARE")
  /\ held' = [held EXCEPT ![p] = TRUE]
  /\ \/ mState' = [mState EXCEPT ![p] = "PREPARED"] /\ Go(p, "prepared")
     \/ Faults /\ Go(p, "die") /\ UNCHANGED mState
  /\ UNCHANGED <<hwVars, req, mPause, reqVars, taskVars>>

\* Mutant of OnPrepared: the runnable is queued again by a second callback.
OnPreparedTwice(p) ==
  /\ cpc[p] = "prepared" /\ Go(p, "take")
  /\ events' = events + 2
  /\ UNCHANGED <<session, made, mPlayer1, mIsPlaying, gpc, upc, calls, failed, req, held, mState, mPause, reqVars, taskVars>>

\* onPrepared hands a runnable to the GL thread.
OnPrepared(p) ==
  /\ cpc[p] = "prepared" /\ Go(p, "take")
  /\ events' = events + 1
  /\ UNCHANGED <<session, made, mPlayer1, mIsPlaying, gpc, upc, calls, failed, req, held, mState, mPause, reqVars, taskVars>>

\* handleStart up to its handleSeek, which a seek may have asked for before.
HandleStart(p) ==
  /\ Does(p, "PREPARED", "START")
  /\ mState' = [mState EXCEPT ![p] = "PLAYING"]
  /\ Go(p, IF mRequestTime[p] > 0 THEN "startSought" ELSE "start")
  /\ UNCHANGED <<hwVars, req, held, mPause, reqVars, taskVars>>

\* The rest of handleStart: the codecs and the tasks.
StartTasks(p) ==
  /\ cpc[p] \in {"start", "startSought"}
  /\ mRequestTime' = IF cpc[p] = "startSought" THEN [mRequestTime EXCEPT ![p] = -1] ELSE mRequestTime
  /\ \/ /\ Go(p, "take")
        /\ inDone' = [inDone EXCEPT ![p] = [t \in Tracks |-> t \notin session.tracks]]
        /\ outDone' = [outDone EXCEPT ![p] = [t \in Tracks |-> t \notin session.tracks]]
        /\ tpc' = [tpc EXCEPT ![p] = [t \in Tracks |-> IF t \in session.tracks THEN "run" ELSE "none"]]
     \/ Faults /\ Go(p, "die") /\ UNCHANGED taskVars
  /\ UNCHANGED <<hwVars, req, held, mState, mPause, mRequest>>

HandleSeek(p) ==
  /\ Does(p, "PLAYING", "SEEK") \/ Does(p, "PAUSED", "SEEK")
  /\ Go(p, IF mRequestTime[p] < 0 THEN "take" ELSE "sought")
  /\ UNCHANGED <<hwVars, req, held, mState, mPause, reqVars, taskVars>>

\* The end of handleSeek; it does not hold mSync.
SeekDone(p) ==
  /\ cpc[p] = "sought" /\ Go(p, "take")
  /\ mRequestTime' = [mRequestTime EXCEPT ![p] = -1]
  /\ UNCHANGED <<hwVars, req, held, mState, mPause, mRequest, taskVars>>

HandlePause(p) ==
  /\ Does(p, "PLAYING", "PAUSE")
  /\ mState' = [mState EXCEPT ![p] = "PAUSED"] /\ mPause' = [mPause EXCEPT ![p] = TRUE]
  /\ Go(p, "take")
  /\ UNCHANGED <<hwVars, req, held, reqVars, taskVars>>

HandleResume(p) ==
  /\ Does(p, "PAUSED", "RESUME")
  /\ mState' = [mState EXCEPT ![p] = "PLAYING"] /\ mPause' = [mPause EXCEPT ![p] = FALSE]
  /\ Go(p, "take")
  /\ UNCHANGED <<hwVars, req, held, reqVars, taskVars>>

StopRequested(p) ==
  /\ cpc[p] = "act" /\ req[p] = "STOP" /\ mState[p] # "STOP"
  /\ Go(p, "stop")
  /\ UNCHANGED <<hwVars, req, held, mState, mPause, reqVars, taskVars>>

\* Mutant of ReleaseCodecs: nothing is released on the way out of the thread.
ReleaseOnStop(p) ==
  /\ cpc[p] \in {"stop", "die"}
  /\ held' = [held EXCEPT ![p] = held[p] /\ cpc[p] = "die"]
  /\ Go(p, IF cpc[p] = "stop" THEN "mark" ELSE "dieMark")
  /\ UNCHANGED <<hwVars, req, mState, mPause, reqVars, taskVars>>

\* handleStop: release the codecs and extractors under the tasks, ...
ReleaseCodecs(p) ==
  /\ cpc[p] \in {"stop", "die"}
  /\ held' = [held EXCEPT ![p] = FALSE]
  /\ Go(p, IF cpc[p] = "stop" THEN "mark" ELSE "dieMark")
  /\ UNCHANGED <<hwVars, req, mState, mPause, reqVars, taskVars>>

\* Mutant of MarkStopped: the tasks are left to notice the loss of the codecs.
MarkStateOnly(p) ==
  /\ cpc[p] \in {"mark", "dieMark"}
  /\ mState' = [mState EXCEPT ![p] = "STOP"]
  /\ Go(p, IF cpc[p] = "mark" THEN "finish" ELSE "dieFinish")
  /\ UNCHANGED <<hwVars, req, held, mPause, reqVars, taskVars>>

\* ... mark all tasks done and the player stopped, ...
MarkStopped(p) ==
  /\ cpc[p] \in {"mark", "dieMark"}
  /\ inDone' = [inDone EXCEPT ![p] = [t \in Tracks |-> TRUE]]
  /\ outDone' = [outDone EXCEPT ![p] = [t \in Tracks |-> TRUE]]
  /\ mState' = [mState EXCEPT ![p] = "STOP"]
  /\ Go(p, IF cpc[p] = "mark" THEN "finish" ELSE "dieFinish")
  /\ UNCHANGED <<hwVars, req, held, mPause, reqVars, tpc>>

\* ... and call onFinished: stop() on the current player, whichever it is, ...
OnFinished(p) ==
  /\ cpc[p] \in {"finish", "dieFinish"}
  /\ LET next == IF mPlayer1 = 0 THEN IF cpc[p] = "finish" THEN "take" ELSE "dead"
                 ELSE IF cpc[p] = "finish" THEN "forget" ELSE "dieForget"
         moved == [cpc EXCEPT ![p] = next]
     IN IF mPlayer1 # 0 /\ mState[mPlayer1] # "STOP"
        THEN mRequest' = [mRequest EXCEPT ![mPlayer1] = "STOP"] /\ cpc' = Woken(moved, mPlayer1)
        ELSE cpc' = moved /\ UNCHANGED mRequest
  /\ UNCHANGED <<hwVars, req, held, mState, mPause, mRequestTime, taskVars>>

\* ... which is then forgotten.
Forget(p) ==
  /\ cpc[p] \in {"forget", "dieForget"}
  /\ mPlayer1' = 0 /\ mIsPlaying' = FALSE
  /\ Go(p, IF cpc[p] = "forget" THEN "take" ELSE "dead")
  /\ UNCHANGED <<session, made, gpc, events, upc, calls, failed, req, held, mState, mPause,
                 reqVars, taskVars>>

HandleStop(p) == ReleaseCodecs(p) \/ MarkStopped(p) \/ OnFinished(p) \/ Forget(p)

Control(p) ==
  \/ Take(p) \/ Wait(p) \/ HandleLoop(p) \/ Refuse(p) \/ HandlePrepare(p) \/ OnPrepared(p)
  \/ HandleStart(p) \/ StartTasks(p) \/ HandleSeek(p) \/ SeekDone(p)
  \/ HandlePause(p) \/ HandleResume(p) \/ StopRequested(p) \/ HandleStop(p)

-----------------------------------------------------------------------------
(* The task of track t of player p. *)

Done(p, t) == inDone[p][t] \/ outDone[p][t]

\* The loop test and the test of mPause, on which the loop sleeps.
Iterate(p, t) ==
  /\ tpc[p][t] = "run" /\ (Done(p, t) \/ ~mPause[p])
  /\ tpc' = [tpc EXCEPT ![p][t] = IF Done(p, t) THEN "leave" ELSE "work"]
  /\ UNCHANGED <<hwVars, ctlVars, reqVars, inDone, outDone>>

\* The end of an iteration: a sample has gone in, frames have come out.
NextFrame(p, t) ==
  /\ tpc[p][t] = "work" /\ (held[p] \/ Done(p, t))
  /\ tpc' = [tpc EXCEPT ![p][t] = "run"]
  /\ UNCHANGED <<hwVars, ctlVars, reqVars, inDone, outDone>>

\* The end of the stream is reached, on the input side, after which the output
\* is still served once, or on the output side.
EndOfStream(p, t) ==
  /\ tpc[p][t] = "work" /\ held[p]
  /\ \/ ~inDone[p][t] /\ inDone' = [inDone EXCEPT ![p][t] = TRUE] /\ UNCHANGED <<outDone, tpc>>
     \/ /\ ~outDone[p][t] /\ outDone' = [outDone EXCEPT ![p][t] = TRUE]
        /\ tpc' = [tpc EXCEPT ![p][t] = "run"] /\ UNCHANGED inDone
  /\ cpc' = Woken(cpc, p)
  /\ UNCHANGED <<hwVars, req, held, mState, mPause, reqVars>>

\* The codec throws an exception, as it does once it is released.
CodecThrows(p, t) ==
  /\ tpc[p][t] = "work" /\ (Faults \/ ~held[p])
  /\ tpc' = [tpc EXCEPT ![p][t] = "leave"]
  /\ UNCHANGED <<hwVars, ctlVars, reqVars, inDone, outDone>>

\* The synchronized block after the loop.
TaskEnd(p, t) ==
  /\ tpc[p][t] = "leave"
  /\ tpc' = [tpc EXCEPT ![p][t] = "ended"]
  /\ inDone' = [inDone EXCEPT ![p][t] = TRUE] /\ outDone' = [outDone EXCEPT ![p][t] = TRUE]
  /\ cpc' = Woken(cpc, p)
  /\ UNCHANGED <<hwVars, req, held, mState, mPause, reqVars>>

Task(p, t) == Iterate(p, t) \/ NextFrame(p, t) \/ EndOfStream(p, t) \/ CodecThrows(p, t) \/ TaskEnd(p, t)

-----------------------------------------------------------------------------
(* The GL thread. *)

\* PlayFile makes a player; the constructor returns when its thread runs.
NewPlayer ==
  /\ gpc = "idle" /\ made < session.files /\ ~failed
  /\ made' = made + 1 /\ mPlayer1' = made + 1 /\ gpc' = "prepare"
  /\ Go(made + 1, "take")
  /\ UNCHANGED <<session, mIsPlaying, events, upc, calls, failed, req, held, mState, mPause, reqVars, taskVars>>

\* PlayFile asks it to prepare.
Prepare ==
  /\ gpc = "prepare" /\ gpc' = "idle"
  /\ IF mPlayer1 = 0
     THEN failed' = TRUE /\ UNCHANGED <<mRequest, cpc>>
     ELSE Ask(mPlayer1, "PREPARE") /\ UNCHANGED failed
  /\ UNCHANGED <<session, made, mPlayer1, mIsPlaying, events, upc, calls, req, held, mState, mPause,
                 mRequestTime, taskVars>>

\* The runnable of onPrepared.
RunPrepared ==
  /\ gpc = "idle" /\ events > 0 /\ ~failed
  /\ events' = events - 1
  /\ IF mPlayer1 = 0
     THEN failed' = TRUE /\ UNCHANGED <<mRequest, cpc, gpc>>
     ELSE /\ gpc' = "playing" /\ UNCHANGED failed
          /\ IF mState[mPlayer1] = "PLAYING" THEN UNCHANGED <<mRequest, cpc>> ELSE Ask(mPlayer1, "START")
  /\ UNCHANGED <<session, made, mPlayer1, mIsPlaying, upc, calls, req, held, mState, mPause,
                 mRequestTime, taskVars>>

\* Its last statement, after play().
SetPlaying ==
  /\ gpc = "playing" /\ gpc' = "idle" /\ mIsPlaying' = TRUE
  /\ UNCHANGED <<session, made, mPlayer1, events, upc, calls, failed, ctlVars, reqVars, taskVars>>

-----------------------------------------------------------------------------
(* The UI thread: StopPlay, PausePlay, ContinuePlay and SeekToTime.  The   *)
(* first three look at mIsPlaying.                                         *)

MayCall(call) ==
  /\ call \in session.calls /\ calls < session.bound /\ upc = "idle" /\ mPlayer1 # 0
  /\ calls' = calls + 1
  /\ UNCHANGED <<session, made, mPlayer1, mIsPlaying, gpc, events, failed, req, held, mState, mPause, taskVars>>

\* Mutant of Stop: without the test of mIsPlaying.
StopAnyTime ==
  /\ MayCall("Stop")
  /\ upc' = "stop"
  /\ IF mState[mPlayer1] # "STOP" THEN Ask(mPlayer1, "STOP") ELSE UNCHANGED <<mRequest, cpc>>
  /\ UNCHANGED mRequestTime

Stop ==
  /\ MayCall("Stop") /\ mIsPlaying
  /\ upc' = "stop"
  /\ IF mState[mPlayer1] # "STOP" THEN Ask(mPlayer1, "STOP") ELSE UNCHANGED <<mRequest, cpc>>
  /\ UNCHANGED mRequestTime

\* The end of HWPlayer.Stop, at most 50 ms later.
StopReturns ==
  /\ upc = "stop" /\ upc' = "idle" /\ mIsPlaying' = FALSE
  /\ UNCHANGED <<session, made, mPlayer1, gpc, events, calls, failed, ctlVars, reqVars, taskVars>>

PauseOrContinue(call, r) ==
  /\ MayCall(call) /\ mIsPlaying
  /\ Ask(mPlayer1, r)
  /\ UNCHANGED <<upc, mRequestTime>>

SeekToTime ==
  /\ MayCall("Seek")
  /\ Ask(mPlayer1, "SEEK")
  /\ mRequestTime' = [mRequestTime EXCEPT ![mPlayer1] = 1]
  /\ UNCHANGED upc

UI == Stop \/ StopReturns \/ PauseOrContinue("Pause", "PAUSE") \/ PauseOrContinue("Continue", "RESUME") \/ SeekToTime

Next ==
  \/ NewPlayer \/ Prepare \/ RunPrepared \/ SetPlaying \/ UI
  \/ \E p \in Players : Control(p) \/ \E t \in Tracks : Task(p, t)

\* Threads run.  The tasks end whether or not the other threads do.
TasksRun == \A p \in Players, t \in Tracks : WF_vars(Task(p, t))
Fairness ==
  /\ WF_vars(Prepare \/ RunPrepared \/ SetPlaying) /\ WF_vars(StopReturns)
  /\ \A p \in Players : WF_vars(Control(p))
  /\ TasksRun
TaskSpec == Init /\ [][Next]_vars /\ TasksRun
Spec == Init /\ [][Next]_vars /\ Fairness

-----------------------------------------------------------------------------
States == {"STOP", "PREPARED", "PLAYING", "PAUSED"}
Requests == {"NON", "PREPARE", "START", "SEEK", "STOP", "PAUSE", "RESUME"}
Places == {"none", "take", "act", "wait", "loop", "eos", "prepared", "start", "startSought", "sought",
           "stop", "mark", "finish", "forget", "die", "dieMark", "dieFinish", "dieForget", "dead"}

TypeOK ==
  /\ session \in Sessions /\ made \in 0 .. session.files /\ mPlayer1 \in 0 .. made
  /\ events \in 0 .. made /\ calls \in 0 .. session.bound
  /\ gpc \in {"idle", "prepare", "playing"} /\ upc \in {"idle", "stop"} /\ mIsPlaying \in BOOLEAN /\ failed \in BOOLEAN
  /\ mRequest \in [Players -> Requests] /\ mState \in [Players -> States]
  /\ mRequestTime \in [Players -> {-1, 1}] /\ mPause \in [Players -> BOOLEAN]
  /\ cpc \in [Players -> Places] /\ req \in [Players -> Requests] /\ held \in [Players -> BOOLEAN]
  /\ inDone \in [Players -> [Tracks -> BOOLEAN]] /\ outDone \in [Players -> [Tracks -> BOOLEAN]]
  /\ tpc \in [Players -> [Tracks -> {"none", "run", "work", "leave", "ended"}]]

\* Whatever ends a playback (a stop, the end of the file, an exception of
\* handlePrepare, handleStart or an invalid request), a player holds its codecs
\* and extractors exactly while its state is not STOP.
HeldWhileActive ==
  \A p \in Players :
    cpc[p] \in {"take", "act", "wait", "loop", "dead"} => (held[p] <=> mState[p] # "STOP")

\* The tasks of a stopped player end, also the ones that were paused.
TasksEnd ==
  \A p \in Players, t \in Tracks :
    (tpc[p][t] # "none" /\ mState[p] = "STOP") ~> tpc[p][t] = "ended"

\* With one file: a player that plays or is paused is the current one of
\* HWPlayer, the one that StopPlay and its like would use; onFinished has not
\* made it forget one that still plays.
PlayingIsCurrent ==
  session.files = 1 => \A p \in Players : mState[p] \in {"PLAYING", "PAUSED"} /\ cpc[p] \in {"loop", "wait"} => mPlayer1 = p

\* With one file: the runnable of onPrepared finds a player; nothing can stop
\* it before StopPlay, PausePlay and ContinuePlay see mIsPlaying.
PreparedFindsPlayer == session.files = 1 => ~failed

\* "Called when playing finished": when all tasks of a playing player have
\* ended, the player stops and calls onFinished.
FinishedCalled ==
  \A p \in Players : (mState[p] = "PLAYING" /\ \A t \in session.tracks : tpc[p][t] = "ended") ~> mState[p] # "PLAYING"
=============================================================================
