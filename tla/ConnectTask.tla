---------------------------- MODULE ConnectTask ----------------------------
(***************************************************************************)
(* One JAConnect object of gles/Network/JAConnect.cpp: the command queue,  *)
(* the task thread that drains it, the gate and the flow control of the    *)
(* decode thread, the disconnect callback of the P2P library, the calls of *)
(* the application and the destructor.                                     *)
(*                                                                         *)
(* The task thread's blocking calls are P2P calls; their outcome is a      *)
(* choice.  A handler is one action between two such calls, except         *)
(* DoDisconnect, which other threads can observe between the release of    *)
(* the link and the reset of the flags.                                    *)
(***************************************************************************)
EXTENDS Integers, Sequences, FiniteSets

CONSTANT Apps   \* the ways in which an application uses the object

\* An application makes at most maxCalls of the API calls in calls; the peer
\* hangs up at most maxPeer times and the decode thread decides at most maxFlow
\* times about the flow.  A patient application waits for the queue to settle,
\* and closes the live channel only while mRealStatus says that it is open.
\* streamFails: opening and closing a stream may fail; flowFails: pausing and
\* continuing a recording may fail; destroys: the application deletes the object in
\* the end.
AppCalls == {"Connect", "OpenChannel", "CloseChannel", "StartPlayback", "StopPlayback", "Disconnect",
             "PlaybackPauseGetData", "PlaybackContinueGetData", "UseLink", "SetGate"}

ASSUME TaskAssumption ==
  Apps \subseteq [calls : SUBSET AppCalls, maxCalls : Nat, maxPeer : Nat, maxFlow : Nat,
                 patient : BOOLEAN, streamFails : BOOLEAN, flowFails : BOOLEAN, destroys : BOOLEAN]

\* The commands.  USE stands for the ones that only call into the link
\* (SENDDATA, PTZSTART, PTZSTOP, SEARCHREC, CALL, HANG_UP, SEND_AUDIO).
Commands == {"CONNECT", "OPENCHANNEL", "CLOSECHANNEL", "STARTPLAYBACK",
             "STOPPLAYBACK", "DISCONNECT", "PAUSE", "CONTINUE", "USE"}

VARIABLES
  mCommand,          \* the queue
  tpc, cmdcount,     \* the task thread; its count of the commands left
  mP2p,              \* "NULL", "KCP" (shared connector) or "UDX" (own one)
  mHandle, mDataHandle, mPlaybackHandle,   \* not 0
  mIsConnected, mAreadyConnected, connectNowStates,
  mRealStatus, mPlaybackStatus, mAddBuffer,
  mDecodeStatus, mRunThread, dpc,          \* the gate and the decode thread
  apc,               \* the application: idle, inside a call, or in the destructor
  leaked,            \* a link the object has let go of still has it as a context
  liveOpen,          \* the camera sends the live stream
  recPaused,         \* the camera has been told to pause the recording
  wanted,            \* history: the last of Connect and Disconnect was Connect
  calls, peers, flows,
  app                \* the application, one of Apps

linkVars  == <<mP2p, mHandle, mDataHandle, mPlaybackHandle, leaked>>
connVars  == <<mIsConnected, mAreadyConnected, connectNowStates>>
playVars  == <<mRealStatus, mAddBuffer, mDecodeStatus, liveOpen, recPaused>>
threadVars == <<mRunThread, dpc, apc, mPlaybackStatus>>
countVars == <<wanted, calls, peers, flows, app>>
taskVars  == <<mCommand, tpc, cmdcount>>
vars == <<taskVars, linkVars, connVars, playVars, threadVars, countVars>>

-----------------------------------------------------------------------------
Init ==
  /\ mCommand = << >> /\ tpc = "idle" /\ cmdcount = 0
  /\ mP2p = "NULL" /\ mHandle = FALSE /\ mDataHandle = FALSE /\ mPlaybackHandle = FALSE
  /\ mIsConnected = FALSE /\ mAreadyConnected = FALSE /\ connectNowStates = "0"
  /\ mRealStatus = "NONE" /\ mPlaybackStatus = "NONE" /\ mAddBuffer = FALSE
  /\ mDecodeStatus = 0 /\ mRunThread = TRUE /\ dpc = "top" /\ apc = "idle"
  /\ leaked = FALSE /\ liveOpen = FALSE /\ recPaused = FALSE
  /\ wanted = FALSE /\ calls = 0 /\ peers = 0 /\ flows = 0 /\ app \in Apps

\* Nothing is queued or under way.
Settled == mCommand = << >> /\ tpc \in {"idle", "exited"} /\ apc = "idle"

AddCommand(cmds) == mCommand' = mCommand \o cmds

-----------------------------------------------------------------------------
(* The task thread. *)

At(cmd) == tpc = "idle" /\ mCommand # << >> /\ Head(mCommand) = cmd

\* Mutant of Pop: the command just taken is subtracted once more.
PopCountsTwice(next) ==
  /\ mCommand' = Tail(mCommand)
  /\ cmdcount' = Len(mCommand) - 2
  /\ tpc' = next

\* Takes the first command; cmdcount is not looked up again when it is done.
Pop(next) ==
  /\ mCommand' = Tail(mCommand)
  /\ cmdcount' = Len(mCommand) - 1
  /\ tpc' = next

\* No command: the loop only sleeps.
NoCommand ==
  /\ tpc = "idle" /\ mCommand = << >>
  /\ cmdcount' = 0 /\ tpc' = "sleep"
  /\ UNCHANGED <<mCommand, linkVars, connVars, playVars, threadVars, countVars>>

\* The end of an iteration.
LoopEnd ==
  /\ tpc = "sleep"
  /\ tpc' = IF ~mRunThread /\ cmdcount = 0 THEN "exited" ELSE "idle"
  /\ UNCHANGED <<mCommand, cmdcount, linkVars, connVars, playVars, threadVars, countVars>>

\* Mutant of Purge: drops every command.
PurgeAll(q) == << >>

\* DoDisconnect drops all the commands but CONNECT: as many as there were stay.
Purge(q) == [i \in 1 .. Cardinality({k \in 1 .. Len(q) : q[k] = "CONNECT"}) |-> "CONNECT"]

\* The live stream of this link ends; one on a link the object has let go of may
\* go on.
StreamEnds == liveOpen' \in {FALSE, liveOpen /\ leaked}

\* DestroyConnector: the last user of a shared connector closes it, with its
\* streams and contexts; with other users it is only counted down, the object
\* stays in its context list and the camera goes on sending.
DestroyConnector(next) ==
  /\ mP2p' = next
  /\ \/ mP2p = "KCP" /\ leaked' = TRUE /\ UNCHANGED liveOpen
     \/ StreamEnds /\ UNCHANGED leaked

\* Mutant of Release: the handle of the recording survives its link.
ReleaseKeepsPlayback ==
  /\ mDataHandle' = FALSE /\ UNCHANGED <<mPlaybackHandle, recPaused>>
  /\ IF mHandle /\ mP2p # "NULL"
     THEN DestroyConnector("NULL")
     ELSE UNCHANGED <<mP2p, leaked, liveOpen>>
  /\ UNCHANGED mHandle

\* DoDisconnect, first half: close the handles and let go of the link.
Release ==
  /\ mDataHandle' = FALSE /\ mPlaybackHandle' = FALSE /\ recPaused' = FALSE
  /\ IF mHandle /\ mP2p # "NULL"
     THEN DestroyConnector("NULL")
     ELSE UNCHANGED <<mP2p, leaked, liveOpen>>
  /\ UNCHANGED mHandle

\* DoDisconnect, second half; after it the task thread is at next.
ResetFlags(next) ==
  /\ tpc' = next
  /\ mDecodeStatus' = IF mHandle THEN 0 ELSE mDecodeStatus
  /\ mAddBuffer' = FALSE /\ mIsConnected' = FALSE /\ mRealStatus' = "NONE"
  /\ mHandle' = FALSE
  /\ UNCHANGED <<mP2p, mDataHandle, mPlaybackHandle, leaked,
                 mAreadyConnected, liveOpen, recPaused, threadVars, countVars>>

DoDisconnect ==
  /\ At("DISCONNECT")
  /\ mCommand' = Purge(Tail(mCommand)) /\ cmdcount' = Len(mCommand) - 1
  /\ tpc' = "flags"
  /\ Release
  /\ UNCHANGED <<connVars, mRealStatus, mAddBuffer, mDecodeStatus, threadVars, countVars>>

DisconnectFlags ==
  /\ tpc = "flags"
  /\ ResetFlags("sleep")
  /\ UNCHANGED <<mCommand, cmdcount, connectNowStates>>

\* DoConnect while connected: DoDisconnect(NULL) first.
DoConnectAgain ==
  /\ At("CONNECT") /\ connectNowStates = "CONNECTED"
  /\ mCommand' = Purge(Tail(mCommand)) /\ cmdcount' = Len(mCommand) - 1
  /\ tpc' = "reflags"
  /\ Release
  /\ UNCHANGED <<connVars, mRealStatus, mAddBuffer, mDecodeStatus, threadVars, countVars>>

ReconnectFlags ==
  /\ tpc = "reflags"
  /\ ResetFlags("reconnect")
  /\ connectNowStates' = "0"
  /\ UNCHANGED <<mCommand, cmdcount>>

DoConnect ==
  /\ At("CONNECT") /\ connectNowStates # "CONNECTED"
  /\ Pop("reconnect")
  /\ UNCHANGED <<linkVars, connVars, playVars, threadVars, countVars>>

\* ReConnect up to the blocking connect.  A link that is still there is
\* overwritten, not released.
ReConnect ==
  /\ tpc = "reconnect" /\ tpc' = "connecting"
  /\ leaked' = (leaked \/ mP2p # "NULL")
  /\ mP2p' \in {"KCP", "UDX"} /\ mHandle' \in BOOLEAN
  /\ UNCHANGED <<mCommand, cmdcount, mDataHandle, mPlaybackHandle, connVars, playVars, threadVars, countVars>>

\* The name is not resolved, or an address was given: once more with a
\* JAP2PConnector.
ConnectFallback ==
  /\ tpc = "connecting" /\ tpc' = "connecting2"
  /\ DestroyConnector("UDX") /\ mHandle' \in BOOLEAN
  /\ UNCHANGED <<mCommand, cmdcount, mDataHandle, mPlaybackHandle, connVars, mRealStatus, mAddBuffer,
                 mDecodeStatus, recPaused, threadVars, countVars>>

ConnectOK ==
  /\ tpc \in {"connecting", "connecting2"} /\ mHandle
  /\ tpc' = "sleep"
  /\ mAddBuffer' = TRUE /\ mIsConnected' = TRUE /\ mAreadyConnected' = TRUE
  /\ mDataHandle' \in {FALSE, mP2p = "UDX"} /\ connectNowStates' = "CONNECTED"
  /\ UNCHANGED <<mCommand, cmdcount, mP2p, mHandle, mPlaybackHandle, leaked, mRealStatus,
                 mDecodeStatus, liveOpen, recPaused, threadVars, countVars>>

\* The connection fails: DoDisconnect(NULL).
ConnectFailed ==
  /\ tpc \in {"connecting", "connecting2"} /\ tpc' = "flags"
  /\ connectNowStates' \in {"TIMEOUT", "AUTHOFAIL", "CONNECTFAIL"}
  /\ mCommand' = Purge(mCommand)
  /\ Release
  /\ UNCHANGED <<cmdcount, mIsConnected, mAreadyConnected, mRealStatus, mAddBuffer, mDecodeStatus, threadVars, countVars>>

\* DoOpenChannel(cmd, 1) without a link fails, and ReConnect follows.
OpenNoLink ==
  /\ At("OPENCHANNEL") /\ mP2p = "NULL"
  /\ Pop("reconnect")
  /\ UNCHANGED <<linkVars, connVars, playVars, threadVars, countVars>>

OpenOK ==
  /\ At("OPENCHANNEL") /\ mP2p # "NULL" /\ mHandle
  /\ Pop("sleep")
  /\ mAddBuffer' = TRUE /\ mRealStatus' = "REAL" /\ mDecodeStatus' = 1 /\ liveOpen' = TRUE
  /\ UNCHANGED <<linkVars, connVars, recPaused, threadVars, countVars>>

OpenFailed ==
  /\ At("OPENCHANNEL") /\ mP2p # "NULL" /\ (app.streamFails \/ ~mHandle)
  /\ Pop("reconnect")
  /\ mAddBuffer' = TRUE
  /\ UNCHANGED <<linkVars, connVars, mRealStatus, mDecodeStatus, liveOpen, recPaused, threadVars, countVars>>

CloseNoLink ==
  /\ At("CLOSECHANNEL") /\ mP2p = "NULL"
  /\ Pop("sleep")
  /\ UNCHANGED <<linkVars, connVars, playVars, threadVars, countVars>>

\* DoOpenChannel(cmd, 0).
DoCloseChannel ==
  /\ At("CLOSECHANNEL") /\ mP2p # "NULL"
  /\ Pop("sleep")
  /\ mDecodeStatus' = 0 /\ mAddBuffer' = FALSE
  /\ \/ mRealStatus' = "NONE" /\ StreamEnds
     \/ app.streamFails /\ UNCHANGED <<mRealStatus, liveOpen>>
  /\ UNCHANGED <<linkVars, connVars, recPaused, threadVars, countVars>>

DoStartPlayback ==
  /\ At("STARTPLAYBACK")
  /\ Pop("sleep")
  /\ \/ /\ mIsConnected /\ mP2p # "NULL"
        /\ mPlaybackHandle' = TRUE /\ recPaused' = FALSE
        /\ mRealStatus' = "RECORD" /\ mAddBuffer' = TRUE /\ mDecodeStatus' = 1
     \/ /\ mIsConnected /\ mP2p # "NULL" /\ app.streamFails
        /\ mPlaybackHandle' = FALSE /\ UNCHANGED <<recPaused, mRealStatus, mAddBuffer, mDecodeStatus>>
     \/ /\ ~(mIsConnected /\ mP2p # "NULL")
        /\ UNCHANGED <<mPlaybackHandle, recPaused, mRealStatus, mAddBuffer, mDecodeStatus>>
  /\ UNCHANGED <<mP2p, mHandle, mDataHandle, leaked, connVars, liveOpen, threadVars, countVars>>

\* Mutant of DoStopPlayback: a stop between recordings shuts the gate as well.
StopPausesAlways ==
  /\ At("STOPPLAYBACK")
  /\ Pop("sleep")
  /\ mPlaybackHandle' = FALSE /\ recPaused' = FALSE /\ mDecodeStatus' = 0
  /\ UNCHANGED <<mP2p, mHandle, mDataHandle, leaked, connVars, mRealStatus,
                 mAddBuffer, liveOpen, threadVars, countVars>>

\* DoStopPlayback leaves mRealStatus alone.
DoStopPlayback ==
  /\ At("STOPPLAYBACK")
  /\ Pop("sleep")
  /\ IF mPlaybackHandle /\ mP2p # "NULL"
     THEN mPlaybackHandle' = FALSE /\ recPaused' = FALSE /\ mDecodeStatus' = 0
     ELSE UNCHANGED <<mPlaybackHandle, recPaused, mDecodeStatus>>
  /\ UNCHANGED <<mP2p, mHandle, mDataHandle, leaked, connVars, mRealStatus,
                 mAddBuffer, liveOpen, threadVars, countVars>>

\* DoPlaybackPauseGetData and DoPlaybackContinueGetdata; nothing is done about a
\* call that fails.
DoPlaybackFlow ==
  \E cmd \in {"PAUSE", "CONTINUE"} :
    /\ At(cmd)
    /\ Pop("sleep")
    /\ \/ recPaused' = IF mPlaybackHandle THEN cmd = "PAUSE" ELSE recPaused
       \/ app.flowFails /\ UNCHANGED recPaused
    /\ UNCHANGED <<linkVars, connVars, mRealStatus, mAddBuffer, mDecodeStatus, liveOpen, threadVars, countVars>>

\* DoSendData, DoSearchRec, DoCall, ... call mP2p when mIsConnected says so.
DoUseLink ==
  /\ At("USE")
  /\ Pop("sleep")
  /\ UNCHANGED <<linkVars, connVars, playVars, threadVars, countVars>>

TaskStep ==
  \/ NoCommand \/ LoopEnd
  \/ DoDisconnect \/ DisconnectFlags \/ DoConnectAgain \/ ReconnectFlags \/ DoConnect
  \/ ReConnect \/ ConnectFallback \/ ConnectOK \/ ConnectFailed
  \/ OpenNoLink \/ OpenOK \/ OpenFailed \/ CloseNoLink \/ DoCloseChannel
  \/ DoStartPlayback \/ DoStopPlayback \/ DoPlaybackFlow \/ DoUseLink

-----------------------------------------------------------------------------
(* The decode thread: the loop test, the gate, and the flow control of a   *)
(* recording.  How full the ring is, is a choice.                          *)

DecodeTop ==
  /\ dpc = "top"
  /\ dpc' = IF mRunThread THEN "gate" ELSE "exited"
  /\ UNCHANGED <<taskVars, linkVars, connVars, playVars, mRunThread, apc, mPlaybackStatus, countVars>>

DecodeGate ==
  /\ dpc = "gate" /\ mDecodeStatus = 1
  /\ dpc' = "body"
  /\ UNCHANGED <<taskVars, linkVars, connVars, playVars, mRunThread, apc, mPlaybackStatus, countVars>>

\* The ring calls for no change of flow.
DecodeFrame ==
  /\ dpc = "body" /\ dpc' = "top"
  /\ UNCHANGED <<taskVars, linkVars, connVars, playVars, mRunThread, apc, mPlaybackStatus, countVars>>

DecideFlow ==
  /\ dpc = "body" /\ mRealStatus = "RECORD" /\ flows < app.maxFlow
  /\ \/ mPlaybackStatus = "GETDATA" /\ dpc' = "PAUSE"
     \/ mPlaybackStatus = "PAUSE" /\ dpc' = "CONTINUE"
  /\ flows' = flows + 1
  /\ UNCHANGED <<taskVars, linkVars, connVars, playVars, mRunThread, apc, mPlaybackStatus, wanted, calls, peers, app>>

SendFlow ==
  /\ dpc \in {"PAUSE", "CONTINUE"}
  /\ AddCommand(<<dpc>>)
  /\ dpc' = IF dpc = "PAUSE" THEN "nowPAUSE" ELSE "nowGETDATA"
  /\ UNCHANGED <<tpc, cmdcount, linkVars, connVars, playVars, mRunThread, apc, mPlaybackStatus, countVars>>

\* Mutant of NoteFlow: a pause is not noted.
NoteNoPause ==
  /\ dpc \in {"nowPAUSE", "nowGETDATA"} /\ dpc' = "top"
  /\ mPlaybackStatus' = "GETDATA"
  /\ UNCHANGED <<taskVars, linkVars, connVars, playVars, mRunThread, apc, countVars>>

NoteFlow ==
  /\ dpc \in {"nowPAUSE", "nowGETDATA"} /\ dpc' = "top"
  /\ mPlaybackStatus' = IF dpc = "nowPAUSE" THEN "PAUSE" ELSE "GETDATA"
  /\ UNCHANGED <<taskVars, linkVars, connVars, playVars, mRunThread, apc, countVars>>

DecodeStep == DecodeTop \/ DecodeGate \/ DecodeFrame \/ DecideFlow \/ SendFlow \/ NoteFlow

-----------------------------------------------------------------------------
(* The P2P library: OnDisconnect with CLOSEBYPEER or TIMEOUT.               *)

OnDisconnect(ret) ==
  /\ (mP2p # "NULL" \/ leaked) /\ peers < app.maxPeer /\ apc # "deleted"
  /\ peers' = peers + 1
  /\ IF ~(ret = "CLOSEBYPEER" /\ connectNowStates = "AUTHOFAIL") /\ mAreadyConnected
     THEN AddCommand(<<"CONNECT">>)
     ELSE UNCHANGED mCommand
  /\ liveOpen' \in {liveOpen, FALSE}
  /\ UNCHANGED <<tpc, cmdcount, linkVars, connVars, mRealStatus, mAddBuffer, mDecodeStatus, recPaused,
                 threadVars, wanted, calls, flows, app>>

-----------------------------------------------------------------------------
(* The application. *)

MayCall(call) ==
  /\ call \in app.calls /\ calls < app.maxCalls /\ calls' = calls + 1
  /\ apc = "idle" /\ mRunThread
  /\ app.patient => Settled /\ (call = "CloseChannel" => mRealStatus = "REAL")
  /\ UNCHANGED <<tpc, cmdcount, linkVars, connVars, mRealStatus, mDecodeStatus, liveOpen, recPaused,
                 mRunThread, dpc, peers, flows, app>>

\* The calls that only queue a command.  PlaybackPauseGetData and its counterpart
\* leave mPlaybackStatus to the decode thread.
Queue(call, cmd) ==
  /\ MayCall(call)
  /\ AddCommand(<<cmd>>)
  /\ UNCHANGED <<mAddBuffer, apc, mPlaybackStatus, wanted>>

Connect ==
  /\ MayCall("Connect")
  /\ AddCommand(<<"CONNECT">>) /\ wanted' = TRUE
  /\ UNCHANGED <<mAddBuffer, apc, mPlaybackStatus>>

Disconnect ==
  /\ MayCall("Disconnect")
  /\ AddCommand(<<"DISCONNECT">>) /\ wanted' = FALSE
  /\ UNCHANGED <<mAddBuffer, apc, mPlaybackStatus>>

\* OpenChannel stops a recording first; both commands are queued one by one.
OpenChannel ==
  /\ MayCall("OpenChannel")
  /\ IF mRealStatus = "RECORD"
     THEN AddCommand(<<"STOPPLAYBACK">>) /\ apc' = "OPENCHANNEL"
     ELSE AddCommand(<<"OPENCHANNEL">>) /\ apc' = apc
  /\ UNCHANGED <<mAddBuffer, mPlaybackStatus, wanted>>

CloseChannel ==
  /\ MayCall("CloseChannel")
  /\ mAddBuffer' = FALSE
  /\ AddCommand(<<"CLOSECHANNEL">>)
  /\ UNCHANGED <<apc, mPlaybackStatus, wanted>>

\* Mutant of StartPlayback: the live stream is not closed first.
StartPlaybackNoClose ==
  /\ MayCall("StartPlayback") /\ mIsConnected
  /\ AddCommand(IF mRealStatus = "RECORD" THEN <<"STOPPLAYBACK">> ELSE << >>)
  /\ mPlaybackStatus' = "GETDATA"
  /\ apc' = "STARTPLAYBACK"
  /\ UNCHANGED <<mAddBuffer, wanted>>

StartPlayback ==
  /\ MayCall("StartPlayback") /\ mIsConnected
  /\ AddCommand(CASE mRealStatus = "REAL"   -> <<"CLOSECHANNEL">>
                  [] mRealStatus = "RECORD" -> <<"STOPPLAYBACK">>
                  [] OTHER                  -> << >>)
  /\ mAddBuffer' = (mAddBuffer /\ mRealStatus # "REAL")
  /\ mPlaybackStatus' = "GETDATA"
  /\ apc' = "STARTPLAYBACK"
  /\ UNCHANGED wanted

\* The application's own use of the gate, DecoderPause and DecoderResume.
SetGate ==
  /\ "SetGate" \in app.calls /\ calls < app.maxCalls /\ calls' = calls + 1
  /\ apc = "idle" /\ mRunThread /\ (app.patient => Settled)
  /\ mDecodeStatus' = 1 - mDecodeStatus
  /\ UNCHANGED <<taskVars, linkVars, connVars, mRealStatus, mAddBuffer, liveOpen, recPaused,
                 threadVars, wanted, peers, flows, app>>

\* The second command of OpenChannel and StartPlayback.
QueueRest ==
  /\ apc \in Commands /\ apc' = "idle"
  /\ AddCommand(<<apc>>)
  /\ UNCHANGED <<tpc, cmdcount, linkVars, connVars, playVars, mRunThread, dpc, mPlaybackStatus, countVars>>

\* ~JAConnect: stop the threads, open the gate, join them.
Destroy ==
  /\ app.destroys /\ apc = "idle" /\ mRunThread
  /\ mRunThread' = FALSE /\ apc' = "resume"
  /\ UNCHANGED <<taskVars, linkVars, connVars, playVars, dpc, mPlaybackStatus, countVars>>

\* Mutant of DestroyResume: the gate stays as it is.
DestroyNoResume ==
  /\ apc = "resume" /\ apc' = "join1"
  /\ UNCHANGED <<taskVars, linkVars, connVars, playVars, mRunThread, dpc, mPlaybackStatus, countVars>>

DestroyResume ==
  /\ apc = "resume" /\ apc' = "join1"
  /\ mDecodeStatus' = 1
  /\ UNCHANGED <<taskVars, linkVars, connVars, mRealStatus, mAddBuffer, liveOpen, recPaused,
                 mRunThread, dpc, mPlaybackStatus, countVars>>

DestroyJoin ==
  /\ \/ apc = "join1" /\ dpc = "exited" /\ apc' = "join2"
     \/ apc = "join2" /\ tpc = "exited" /\ apc' = "deleted"
  /\ UNCHANGED <<taskVars, linkVars, connVars, playVars, mRunThread, dpc, mPlaybackStatus, countVars>>

DestroyStep == DestroyResume \/ DestroyJoin

AppStep ==
  \/ Connect \/ Disconnect \/ OpenChannel \/ CloseChannel \/ StartPlayback
  \/ Queue("StopPlayback", "STOPPLAYBACK") \/ Queue("UseLink", "USE")
  \/ Queue("PlaybackPauseGetData", "PAUSE") \/ Queue("PlaybackContinueGetData", "CONTINUE")
  \/ SetGate \/ QueueRest \/ Destroy \/ DestroyStep

Next ==
  TaskStep \/ DecodeStep \/ AppStep \/ \E ret \in {"CLOSEBYPEER", "TIMEOUT"} : OnDisconnect(ret)

\* Both threads keep running, and a destructor that can go on does.
Fairness == WF_vars(TaskStep) /\ WF_vars(DecodeStep) /\ WF_vars(QueueRest) /\ WF_vars(DestroyStep)
Spec == Init /\ [][Next]_vars /\ Fairness

-----------------------------------------------------------------------------
TypeOK ==
  /\ mCommand \in Seq(Commands) /\ cmdcount \in Nat
  /\ tpc \in {"idle", "sleep", "exited", "flags", "reflags", "reconnect", "connecting", "connecting2"}
  /\ dpc \in {"top", "gate", "body", "exited", "PAUSE", "CONTINUE", "nowPAUSE", "nowGETDATA"}
  /\ apc \in {"idle", "OPENCHANNEL", "STARTPLAYBACK", "resume", "join1", "join2", "deleted"}
  /\ mP2p \in {"NULL", "KCP", "UDX"}
  /\ mHandle \in BOOLEAN /\ mDataHandle \in BOOLEAN /\ mPlaybackHandle \in BOOLEAN /\ leaked \in BOOLEAN
  /\ mIsConnected \in BOOLEAN /\ mAreadyConnected \in BOOLEAN /\ mAddBuffer \in BOOLEAN
  /\ connectNowStates \in {"0", "CONNECTED", "TIMEOUT", "AUTHOFAIL", "CONNECTFAIL"}
  /\ mRealStatus \in {"NONE", "REAL", "RECORD"} /\ mPlaybackStatus \in {"NONE", "GETDATA", "PAUSE"}
  /\ mDecodeStatus \in 0 .. 1 /\ mRunThread \in BOOLEAN
  /\ liveOpen \in BOOLEAN /\ recPaused \in BOOLEAN /\ wanted \in BOOLEAN
  /\ app \in Apps /\ calls \in 0 .. app.maxCalls /\ peers \in 0 .. app.maxPeer /\ flows \in 0 .. app.maxFlow

\* The handlers that call through mP2p test at most mIsConnected (DoSearchRec,
\* DoStartPtzAction, DoCall, ...), mPlaybackHandle (DoPlaybackPauseGetData, ...)
\* or mDataHandle (DoDisconnect): whenever the task thread is about to run one,
\* any of the three implies that there is a link.
HandlersHaveLink ==
  tpc = "idle" /\ (mIsConnected \/ mPlaybackHandle \/ mDataHandle) => mP2p # "NULL"

\* The pausing is the decode thread's alone, and the camera does as it is told.
Throttling == "PlaybackPauseGetData" \notin app.calls /\ ~app.flowFails

\* The decode thread's own flow control does not starve a recording: when it has
\* made the camera pause and no word to continue is on its way, mPlaybackStatus
\* says PAUSE (or the decode thread is about to write it), so that the decode
\* thread sends CONTINUE once the ring is low.  StartPlayback writes the same
\* variable from the application's thread.  An application that pauses a recording
\* itself has to continue it itself.
FlowNotStuck ==
  (Throttling /\ recPaused /\ mPlaybackHandle /\ apc = "idle" /\ mCommand = << >>) =>
     mPlaybackStatus = "PAUSE" \/ dpc \in {"nowPAUSE", "CONTINUE"}

\* Once the queue has settled, a live stream and a recording of the link that the
\* object has do not feed the ring together (CloseChannel in StartPlayback,
\* StopPlayback in OpenChannel).  A stream left running on a shared link that the
\* object has let go of is another matter: DestroyConnector does not close it, and
\* StartPlayback, which goes by mRealStatus, does not either.
OneSource == app.patient /\ ~app.streamFails /\ ~leaked /\ Settled => ~(liveOpen /\ mPlaybackHandle)

\* A channel that GetRealStatus reports as live is shown to an application that
\* leaves DecoderPause and DecoderResume alone: there is a connection, frames are
\* accepted and the decoder's gate is open.
LiveIsShown ==
  app.patient /\ ~app.streamFails /\ "SetGate" \notin app.calls /\ Settled /\ mRealStatus = "REAL"
    => mIsConnected /\ mAddBuffer /\ mDecodeStatus = 1

\* A queued CONNECT is not lost to the purges of DoDisconnect: the task thread
\* gets to it unless the object is destroyed.
ConnectTried ==
  (\E i \in 1 .. Len(mCommand) : mCommand[i] = "CONNECT") ~>
     (tpc \in {"reconnect", "reflags"} \/ ~mRunThread)

\* The destructor returns when the task thread has nothing more to do.
QuietDestroyEnds ==
  [](~mRunThread => mCommand = << >> /\ tpc \in {"idle", "sleep", "exited"})
     => (~mRunThread ~> apc = "deleted")

\* "Disconnect": once all commands are done, a connection is one the
\* application still wants.
DisconnectStays == Settled /\ mIsConnected => wanted
=============================================================================
