--------------------------- MODULE ConnectorPool ---------------------------
(***************************************************************************)
(* The shared links of gles/Network: the JAConnect objects that show the   *)
(* channels of one camera share one JAP2PConnector2.  CreateConnector      *)
(* finds it in g_ListManager or makes it, the first user opens its handle  *)
(* and dials, the others get the cached result, the last one closes it,    *)
(* and when the peer hangs up a callback tells the users and clears the    *)
(* cached results.                                                         *)
(*                                                                         *)
(* A channel is the task thread of a JAConnect; what else it does is the   *)
(* subject of ConnectTask.  Connecting and logging in are one call here,   *)
(* both are cached alike.  A connector is a number, used again after it is *)
(* deleted.  A link that a channel opens for itself with the old library,  *)
(* when the camera is not found by this one, is not shared and is not      *)
(* part of the state: the channel is "idle" here.                          *)
(* The library may give no handle (kp2p_create returns 0) and may refuse a *)
(* stream (kp2p_open_stream).  A channel without a handle of its own does  *)
(* not release its connector in DoDisconnect, and one whose stream is      *)
(* refused connects again without letting go: both leave a count behind.   *)
(* CreateConnector is one step, although OnKDisconnect, whose lookup       *)
(* unlocks g_listLock without having locked it, may let another one in.    *)
(***************************************************************************)
EXTENDS Naturals, FiniteSets

CONSTANTS
  Channels,   \* the JAConnect objects of the camera
  Links,      \* bound on the connectors that exist at a time
  Sessions    \* what the application calls and how the library answers, with the
              \* bounds: on the connectors of the session, on the CMD_CONNECT of
              \* callbacks that wait in a queue, and on the calls of kp2p_create
              \* and kp2p_open_stream that fail

Calls == {"Connect", "Disconnect", "OpenStream", "CloseStream"}
Results == {"ok", "failed", "notFound", "badPwd"}

ASSUME PoolAssumption ==
  /\ Links \in Nat \ {0} /\ 0 \notin Channels /\ IsFiniteSet(Channels)
  /\ Sessions \subseteq [calls : SUBSET Calls, answers : SUBSET Results,
                         maxLinks : Nat, maxTold : Nat, maxFaults : Nat]

NoOne == 0
Conns == 1 .. Links

VARIABLES
  conn,     \* the connectors
  link,     \* of each, the connection behind mHandle: "none", "up" or "down"
  cb,       \* of each, OnKDisconnect: "none", "ring", "global", "streams" or "mark"
  mP2p,     \* of each channel, its connector or 0
  mHandle,  \* of each channel, whether JAConnect::mHandle is not 0
  st,       \* of each channel, where its task thread is
  after,    \* where it goes once it has let go of its link
  told,     \* of each channel, how many CMD_CONNECT OnDisconnect has queued
  known,    \* mAreadyConnected
  badPwd,   \* connectNowStates is NET_STATUS_AUTHOFAIL
  dialed,   \* what kp2p_connect and kp2p_login have returned
  why,      \* of each connector, why the library calls OnKDisconnect
  session,  \* which of the Sessions it is
  faults,   \* how many calls of the library have failed
  lost,     \* history: of each connector, the counts whose holder has forgotten it
  refused,  \* history: of each connector, its last kp2p_create gave no handle
  raced     \* history: the races that have happened

chanVars == <<known, badPwd>>
faultVars == <<session, faults, lost, refused>>
vars == <<conn, link, cb, mP2p, mHandle, st, after, told, chanVars, dialed, why, faultVars, raced>>

\* _ctx is kept as the first global context, the only one that GetCtx returns,
\* and the channels with a live context.
NoConn == [alive |-> FALSE, listed |-> FALSE, mUse |-> 0, mHandle |-> FALSE, mConnectResult |-> "unset",
           mDoneDisconnect |-> FALSE, global |-> NoOne, live |-> {}, lock |-> NoOne]

Init ==
  /\ conn = [k \in Conns |-> NoConn]
  /\ link = [k \in Conns |-> "none"] /\ cb = [k \in Conns |-> "none"]
  /\ mP2p = [c \in Channels |-> 0] /\ mHandle = [c \in Channels |-> FALSE]
  /\ session \in Sessions /\ faults = 0 /\ lost = [k \in Conns |-> 0] /\ refused = [k \in Conns |-> FALSE]
  /\ st = [c \in Channels |-> "idle"]
  /\ after = [c \in Channels |-> "idle"] /\ told = [c \in Channels |-> 0]
  /\ known = [c \in Channels |-> FALSE] /\ badPwd = [c \in Channels |-> FALSE]
  /\ why = [k \in Conns |-> "none"]
  /\ dialed = [c \in Channels |-> "unset"] /\ raced = {}

\* The channel is at pc and its connector is free for it: the caller takes _lock.
At(c, pc) == st[c] = pc
Go(c, pc) == st' = [st EXCEPT ![c] = pc]
Unlocked(c) == conn[mP2p[c]].lock = NoOne

\* Another channel is inside DestroyConnector of connector k, past GetUse().
Releasing(c, k) == \E d \in Channels \ {c} : mP2p[d] = k /\ st[d] \in {"drop", "remove", "close", "delete"}
Fault == faults < session.maxFaults /\ faults' = faults + 1
Note(races) == raced' = raced \cup races
Race(name, happens) == IF happens THEN {name} ELSE {}

-----------------------------------------------------------------------------
(* The task thread of channel c. *)

\* DoDisconnect lets go of the link, unless the channel has no handle.
DoDisconnect(c, next) ==
  /\ Go(c, IF mHandle[c] THEN "leave" ELSE next)
  /\ after' = [after EXCEPT ![c] = IF mHandle[c] THEN next ELSE "idle"]

\* DoConnect, which disconnects first a channel that is connected.
DoConnect(c) ==
  /\ \/ At(c, "idle") /\ Go(c, "create") /\ UNCHANGED after
     \/ At(c, "up") /\ DoDisconnect(c, "create")
  /\ UNCHANGED <<conn, link, cb, mP2p, mHandle, chanVars, dialed, why, raced, faultVars>>

Connect(c) == "Connect" \in session.calls /\ DoConnect(c) /\ UNCHANGED told

\* Mutant of ConnectAgain: a connected channel takes the command for done.
ConnectAgainIgnored(c) ==
  /\ told[c] > 0 /\ told' = [told EXCEPT ![c] = @ - 1]
  /\ \/ At(c, "idle") /\ Go(c, "create")
     \/ At(c, "up") /\ UNCHANGED st
  /\ UNCHANGED <<conn, link, cb, mP2p, mHandle, after, chanVars, dialed, why, raced, faultVars>>

\* CMD_CONNECT of the callback.
ConnectAgain(c) == told[c] > 0 /\ told' = [told EXCEPT ![c] = @ - 1] /\ DoConnect(c)

\* ReConnect overwrites mP2p: a connector that it still held keeps its count.
Overwrite(c, k) ==
  /\ mP2p' = [mP2p EXCEPT ![c] = k]
  /\ lost' = [i \in Conns |-> IF i = mP2p[c] THEN lost[i] + 1 ELSE lost[i]]

\* Mutant of Join: the connector found is not counted.
JoinUncounted(c) ==
  /\ At(c, "create") /\ Go(c, "handle")
  /\ \E k \in Conns :
       /\ conn[k].listed
       /\ Overwrite(c, k) /\ Note(Race("release", Releasing(c, k)))
  /\ UNCHANGED <<conn, link, cb, mHandle, after, told, chanVars, dialed, why, session, faults, refused>>

\* CreateConnector, under g_listLock.
Join(c) ==
  /\ At(c, "create") /\ Go(c, "handle")
  /\ \E k \in Conns :
       /\ conn[k].listed
       /\ Overwrite(c, k) /\ conn' = [conn EXCEPT ![k].mUse = @ + 1]
       /\ Note(Race("release", Releasing(c, k)))
  /\ UNCHANGED <<link, cb, mHandle, after, told, chanVars, dialed, why, session, faults, refused>>

NewConnector(c) ==
  /\ At(c, "create") /\ Go(c, "handle")
  /\ \A k \in Conns : ~conn[k].listed
  /\ \E k \in Conns :
       /\ k <= session.maxLinks /\ ~conn[k].alive /\ \A i \in 1 .. (k - 1) : conn[i].alive
       /\ Overwrite(c, k)
       /\ conn' = [conn EXCEPT ![k] = [NoConn EXCEPT !.alive = TRUE, !.listed = TRUE, !.mUse = 1]]
  /\ UNCHANGED <<link, cb, mHandle, after, told, chanVars, dialed, why, raced, session, faults, refused>>

\* createP2PHandle returns the handle that is there, ...
HaveHandle(c) ==
  /\ At(c, "handle") /\ Unlocked(c) /\ Go(c, "connect")
  /\ conn[mP2p[c]].mHandle /\ ~conn[mP2p[c]].mDoneDisconnect
  /\ mHandle' = [mHandle EXCEPT ![c] = TRUE]
  /\ UNCHANGED <<conn, link, cb, mP2p, after, told, chanVars, dialed, why, raced, faultVars>>

\* ... or makes one, with the channel as the global context, after closing a
\* handle that the peer has hung up on; kp2p_create may give none.
CreateHandle(c) ==
  LET k == mP2p[c] IN
  /\ At(c, "handle") /\ Unlocked(c) /\ Go(c, "connect")
  /\ ~conn[k].mHandle \/ conn[k].mDoneDisconnect
  /\ \E given \in BOOLEAN :
       /\ IF given THEN UNCHANGED faults ELSE Fault
       /\ conn' = [conn EXCEPT ![k].mHandle = given, ![k].mDoneDisconnect = @ /\ ~conn[k].mHandle,
                               ![k].global = IF @ = NoOne THEN c ELSE @]
       /\ mHandle' = [mHandle EXCEPT ![c] = given] /\ refused' = [refused EXCEPT ![k] = ~given]
  /\ link' = [link EXCEPT ![k] = "none"]
  /\ UNCHANGED <<cb, mP2p, after, told, chanVars, dialed, why, raced, session, lost>>

\* What ReConnect makes of a result: the channel is connected, or lets go of the
\* link (DoDisconnect with a handle only) and, when the camera was not found, tries
\* the old library.
Result(c, r) ==
  /\ Go(c, IF r = "ok" THEN "up" ELSE IF r = "notFound" \/ mHandle[c] THEN "leave" ELSE "idle")
  /\ after' = [after EXCEPT ![c] = IF r = "notFound" THEN "old" ELSE "idle"]
  /\ known' = [known EXCEPT ![c] = @ \/ r = "ok"]
  /\ badPwd' = [badPwd EXCEPT ![c] = IF r = "notFound" THEN @ ELSE r = "badPwd"]

\* connect3 returns -1 without a handle, which is "notFound" for an address.
NoHandle(c) ==
  /\ At(c, "connect") /\ ~conn[mP2p[c]].mHandle
  /\ \E r \in {"failed", "notFound"} : Result(c, r)
  /\ UNCHANGED <<conn, link, cb, mP2p, mHandle, told, dialed, why, raced, faultVars>>

\* connect3 and loginP2P: a result is used again, a failure too.
CachedResult(c) ==
  /\ At(c, "connect") /\ conn[mP2p[c]].mHandle
  /\ Unlocked(c) /\ conn[mP2p[c]].mConnectResult # "unset"
  /\ Result(c, conn[mP2p[c]].mConnectResult)
  /\ Note(Race("dead", conn[mP2p[c]].mConnectResult = "ok" /\ link[mP2p[c]] # "up"))
  /\ UNCHANGED <<conn, link, cb, mP2p, mHandle, told, dialed, why, faultVars>>

Dial(c) ==
  /\ At(c, "connect") /\ conn[mP2p[c]].mHandle
  /\ Unlocked(c) /\ conn[mP2p[c]].mConnectResult = "unset"
  /\ Go(c, "dial") /\ conn' = [conn EXCEPT ![mP2p[c]].lock = c]
  /\ Note(Race("dead", conn[mP2p[c]].mDoneDisconnect))
  /\ UNCHANGED <<link, cb, mP2p, mHandle, after, told, chanVars, dialed, why, faultVars>>

\* The P2P library answers, ...
Answer(c) ==
  /\ At(c, "dial") /\ Go(c, "store")
  /\ \E r \in session.answers :
       /\ dialed' = [dialed EXCEPT ![c] = r]
       /\ link' = [link EXCEPT ![mP2p[c]] = IF r = "ok" THEN "up" ELSE @]
  /\ UNCHANGED <<conn, cb, mP2p, mHandle, after, told, chanVars, why, raced, faultVars>>

\* ... and the answer is stored, which races with a peer that hangs up at once.
Store(c) ==
  /\ At(c, "store") /\ Result(c, dialed[c])
  /\ conn' = [conn EXCEPT ![mP2p[c]].mConnectResult = dialed[c], ![mP2p[c]].lock = NoOne]
  /\ dialed' = [dialed EXCEPT ![c] = "unset"]
  /\ Note(Race("dead", dialed[c] = "ok" /\ link[mP2p[c]] # "up" /\ cb[mP2p[c]] \in {"none", "mark"}))
  /\ UNCHANGED <<link, cb, mP2p, mHandle, told, why, faultVars>>

\* The old library, whose link is not shared.
OldLibrary(c) ==
  /\ At(c, "old") /\ Go(c, "idle")
  /\ \E r \in session.answers :
       /\ known' = [known EXCEPT ![c] = @ \/ r = "ok"]
       /\ badPwd' = [badPwd EXCEPT ![c] = r = "badPwd"]
  /\ UNCHANGED <<conn, link, cb, mP2p, mHandle, after, told, dialed, why, raced, faultVars>>

\* The channel is between two commands and has a connector.
Holds(c) == st[c] \in {"idle", "up"} /\ mP2p[c] # 0

\* openChannel adds and removes the live context.
OpenStream(c) ==
  /\ "OpenStream" \in session.calls /\ Holds(c) /\ conn[mP2p[c]].mHandle /\ Unlocked(c)
  /\ conn' = [conn EXCEPT ![mP2p[c]].live = @ \cup {c}]
  /\ Note(Race("dead", link[mP2p[c]] # "up" /\ cb[mP2p[c]] \in {"none", "mark"}))
  /\ UNCHANGED <<link, cb, mP2p, mHandle, st, after, told, chanVars, dialed, why, faultVars>>

\* When it fails the task thread calls ReConnect, without a DoDisconnect.  (So it
\* does on a channel without a connector, which then connects as by Connect.)
OpenFails(c) ==
  /\ "OpenStream" \in session.calls /\ Holds(c) /\ Go(c, "create")
  /\ \/ /\ conn[mP2p[c]].mHandle /\ Unlocked(c) /\ Fault
        /\ conn' = [conn EXCEPT ![mP2p[c]].live = @ \cup {c}]
     \/ ~conn[mP2p[c]].mHandle /\ UNCHANGED <<conn, faults>>
  /\ UNCHANGED <<link, cb, mP2p, mHandle, after, told, chanVars, dialed, why, raced, session, lost, refused>>

CloseStream(c) ==
  /\ "CloseStream" \in session.calls /\ Holds(c) /\ conn[mP2p[c]].mHandle /\ Unlocked(c) /\ c \in conn[mP2p[c]].live
  /\ conn' = [conn EXCEPT ![mP2p[c]].live = @ \ {c}]
  /\ UNCHANGED <<link, cb, mP2p, mHandle, st, after, told, chanVars, dialed, why, raced, faultVars>>

Disconnect(c) ==
  /\ "Disconnect" \in session.calls /\ At(c, "up") /\ DoDisconnect(c, "idle")
  /\ UNCHANGED <<conn, link, cb, mP2p, mHandle, told, chanVars, dialed, why, raced, faultVars>>

\* Mutant of Leave: off by one.
LeaveOffByOne(c) ==
  /\ At(c, "leave") /\ Go(c, IF conn[mP2p[c]].mUse > 2 THEN "drop" ELSE "remove")
  /\ Note(Race("release", Releasing(c, mP2p[c])))
  /\ UNCHANGED <<conn, link, cb, mP2p, mHandle, after, told, chanVars, dialed, why, faultVars>>

\* DestroyConnector: the test of GetUse() outside any lock, ...
Leave(c) ==
  /\ At(c, "leave") /\ Go(c, IF conn[mP2p[c]].mUse > 1 THEN "drop" ELSE "remove")
  /\ Note(Race("release", Releasing(c, mP2p[c])))
  /\ UNCHANGED <<conn, link, cb, mP2p, mHandle, after, told, chanVars, dialed, why, faultVars>>

\* UpdateUse(false).
UseDown(k) == IF conn[k].mUse > 0 THEN conn[k].mUse - 1 ELSE 0

\* The channel has let go of its link.
Gone(c) ==
  /\ mP2p' = [mP2p EXCEPT ![c] = 0] /\ mHandle' = [mHandle EXCEPT ![c] = FALSE]
  /\ after' = [after EXCEPT ![c] = "idle"] /\ Go(c, after[c])

\* ... with other users the channel only leaves; its contexts stay behind; ...
Drop(c) ==
  /\ At(c, "drop") /\ Gone(c)
  /\ conn' = [conn EXCEPT ![mP2p[c]].mUse = UseDown(mP2p[c])]
  /\ UNCHANGED <<link, cb, told, chanVars, dialed, why, raced, faultVars>>

\* ... without, the connector leaves the list, ...
Remove(c) ==
  /\ At(c, "remove") /\ Go(c, "close")
  /\ conn' = [conn EXCEPT ![mP2p[c]].listed = FALSE]
  /\ UNCHANGED <<link, cb, mP2p, mHandle, after, told, chanVars, dialed, why, raced, faultVars>>

\* ... is closed by closeP2P, where kp2p_close waits for its callbacks and without
\* a handle there is nothing to close, ...
Close(c) ==
  LET k == mP2p[c] IN
  /\ At(c, "close") /\ Go(c, "delete")
  /\ \/ /\ conn[k].mHandle /\ Unlocked(c) /\ cb[k] = "none"
        /\ conn' = [conn EXCEPT ![k].mHandle = FALSE, ![k].mConnectResult = "unset",
                                ![k].global = NoOne, ![k].live = {}]
        /\ link' = [link EXCEPT ![k] = "none"]
     \/ ~conn[k].mHandle /\ UNCHANGED <<conn, link>>
  /\ UNCHANGED <<cb, mP2p, mHandle, after, told, chanVars, dialed, why, raced, faultVars>>

\* ... and deleted.
Delete(c) ==
  /\ At(c, "delete") /\ Gone(c)
  /\ conn' = [conn EXCEPT ![mP2p[c]] = NoConn]
  /\ lost' = [lost EXCEPT ![mP2p[c]] = 0] /\ refused' = [refused EXCEPT ![mP2p[c]] = FALSE]
  /\ UNCHANGED <<link, cb, told, chanVars, dialed, why, raced, session, faults>>

Step(c) ==
  \/ ConnectAgain(c) \/ Join(c) \/ NewConnector(c) \/ HaveHandle(c) \/ CreateHandle(c)
  \/ NoHandle(c) \/ CachedResult(c) \/ Dial(c) \/ Answer(c) \/ Store(c) \/ OldLibrary(c)
  \/ Leave(c) \/ Drop(c) \/ Remove(c) \/ Close(c) \/ Delete(c)
App(c) == Connect(c) \/ Disconnect(c) \/ OpenStream(c) \/ OpenFails(c) \/ CloseStream(c)

-----------------------------------------------------------------------------
(* The P2P library and its callback for connector k. *)

Ring(k, next) == cb' = [cb EXCEPT ![k] = next]
Return(k) == Ring(k, "none") /\ why' = [why EXCEPT ![k] = "none"]

\* OnDisconnect: a channel that has ever been connected connects again, but for
\* one that the peer has refused.
OnDisconnect(k, who) ==
  told' = [c \in Channels |-> IF c \in who /\ known[c] /\ ~(why[k] = "peer" /\ badPwd[c])
                               THEN told[c] + 1 ELSE told[c]]

HangUp(k) ==
  /\ link[k] = "up" /\ cb[k] = "none" /\ Ring(k, "ring")
  /\ \A c \in Channels : told[c] + 2 * Cardinality({i \in Conns : cb[i] # "none"}) + 2 <= session.maxTold
  /\ link' = [link EXCEPT ![k] = "down"]
  /\ \E w \in {"peer", "timeout"} : why' = [why EXCEPT ![k] = w]
  /\ UNCHANGED <<conn, mP2p, mHandle, st, after, told, chanVars, dialed, raced, faultVars>>

\* OnKDisconnect ends here when the connector is not in the list.
Lookup(k) ==
  /\ cb[k] = "ring"
  /\ \/ conn[k].listed /\ Ring(k, "global") /\ UNCHANGED why
     \/ ~conn[k].listed /\ Return(k)
  /\ UNCHANGED <<conn, link, mP2p, mHandle, st, after, told, chanVars, dialed, raced, faultVars>>

\* OnDisconnect for the global context, ...
TellGlobal(k) ==
  /\ cb[k] = "global" /\ Ring(k, "streams")
  /\ OnDisconnect(k, {conn[k].global})
  /\ UNCHANGED <<conn, link, mP2p, mHandle, st, after, chanVars, dialed, why, raced, faultVars>>

\* Mutant of TellStreams: the contexts are not told.
TellNoStreams(k) ==
  /\ cb[k] = "streams" /\ Ring(k, "mark")
  /\ UNCHANGED <<conn, link, mP2p, mHandle, st, after, told, chanVars, dialed, why, raced, faultVars>>

\* Mutant of TellStreams: the global context is told once more.
TellEveryContext(k) ==
  /\ cb[k] = "streams" /\ Ring(k, "mark")
  /\ told' = [c \in Channels |-> told[c] + Cardinality({i \in {1} : c \in conn[k].live /\ known[c]})
                                         + Cardinality({i \in {1} : c = conn[k].global /\ known[c]})]
  /\ UNCHANGED <<conn, link, mP2p, mHandle, st, after, chanVars, dialed, why, raced, faultVars>>

\* ... and ResetConnection: OnDisconnect for every other context, ...
TellStreams(k) ==
  /\ cb[k] = "streams" /\ Ring(k, "mark")
  /\ OnDisconnect(k, conn[k].live)
  /\ UNCHANGED <<conn, link, mP2p, mHandle, st, after, chanVars, dialed, why, raced, faultVars>>

\* Mutant of Mark: the result of the dead link is kept.
MarkKeepsResult(k) ==
  /\ cb[k] = "mark" /\ Return(k)
  /\ conn' = [conn EXCEPT ![k].mDoneDisconnect = TRUE]
  /\ UNCHANGED <<link, mP2p, mHandle, st, after, told, chanVars, dialed, raced, faultVars>>

\* ... then the results are cleared and the handle is marked dead.
Mark(k) ==
  /\ cb[k] = "mark" /\ Return(k)
  /\ conn' = [conn EXCEPT ![k].mConnectResult = "unset", ![k].mDoneDisconnect = TRUE]
  /\ UNCHANGED <<link, mP2p, mHandle, st, after, told, chanVars, dialed, raced, faultVars>>

OnKDisconnect(k) == Lookup(k) \/ TellGlobal(k) \/ TellStreams(k) \/ Mark(k)

Next ==
  \/ \E c \in Channels : Step(c) \/ App(c)
  \/ \E k \in Conns : OnKDisconnect(k) \/ HangUp(k)

\* The task threads and the callback thread run.
Fairness == (\A c \in Channels : WF_vars(Step(c))) /\ \A k \in Conns : WF_vars(OnKDisconnect(k))
Spec == Init /\ [][Next]_vars /\ Fairness

-----------------------------------------------------------------------------
Connector ==
  [alive : BOOLEAN, listed : BOOLEAN, mUse : Nat, mHandle : BOOLEAN,
   mConnectResult : Results \cup {"unset"}, mDoneDisconnect : BOOLEAN,
   global : Channels \cup {NoOne}, live : SUBSET Channels, lock : Channels \cup {NoOne}]

TypeOK ==
  /\ conn \in [Conns -> Connector]
  /\ link \in [Conns -> {"none", "up", "down"}]
  /\ cb \in [Conns -> {"none", "ring", "global", "streams", "mark"}]
  /\ mP2p \in [Channels -> Conns \cup {0}] /\ mHandle \in [Channels -> BOOLEAN]
  /\ st \in [Channels -> {"idle", "create", "handle", "connect", "dial", "store", "up", "leave", "drop",
                          "remove", "close", "delete", "old"}]
  /\ after \in [Channels -> {"idle", "create", "old"}] /\ told \in [Channels -> 0 .. session.maxTold]
  /\ known \in [Channels -> BOOLEAN] /\ badPwd \in [Channels -> BOOLEAN]
  /\ why \in [Conns -> {"none", "peer", "timeout"}]
  /\ dialed \in [Channels -> Results \cup {"unset"}]
  /\ session \in Sessions /\ faults \in 0 .. session.maxFaults
  /\ lost \in [Conns -> Nat] /\ refused \in [Conns -> BOOLEAN]
  /\ raced \subseteq {"release", "dead"}

\* As long as no channel enters CreateConnector or DestroyConnector while another
\* is between GetUse() and the end of DestroyConnector: mUse counts the holders of
\* a connector and, besides, the holders that have connected again without letting
\* go of it; one that nothing counts is gone.
UseCountsHolders ==
  "release" \notin raced =>
    \A k \in Conns : /\ conn[k].mUse = Cardinality({c \in Channels : mP2p[c] = k}) + lost[k]
                     /\ conn[k].alive <=> conn[k].mUse > 0

\* Under the same condition a link is closed only by its last holder: while a
\* channel uses a connector it is in the list and nobody has closed its handle,
\* which only a kp2p_create that gives none can take away.
HolderHasLink ==
  "release" \notin raced =>
    \A c \in Channels : st[c] \in {"connect", "dial", "store", "up"} =>
                          conn[mP2p[c]].listed /\ (conn[mP2p[c]].mHandle \/ refused[mP2p[c]])

\* A cached success is the one of the connection that is there: it is up, or the
\* callback that clears the result is under way.
CachedIsThisLink ==
  raced = {} =>
    \A k \in Conns : conn[k].listed /\ conn[k].mConnectResult = "ok" => link[k] = "up" \/ cb[k] # "none"

\* The channel is connected, as it thinks, by a link that is dead.
OnDeadLink(c) == st[c] = "up" /\ link[mP2p[c]] # "up"
Streams(c) == mP2p[c] # 0 /\ c \in conn[mP2p[c]].live

\* No channel is left behind with a stream on a dead link: the callback is still
\* to reach it, or has queued the command that reconnects it.
StreamNotLeftBehind ==
  raced = {} =>
    \A c \in Channels : OnDeadLink(c) /\ Streams(c) =>
                          told[c] > 0 \/ cb[mP2p[c]] \in {"ring", "global", "streams"}

\* A channel with a stream does not stay on a dead link: the callback reaches it
\* and it reconnects, or it closes the stream.
Stays(c) == raced = {} /\ OnDeadLink(c) /\ Streams(c)
StreamsRecover == \A c \in Channels : Stays(c) ~> ~Stays(c)
=============================================================================
