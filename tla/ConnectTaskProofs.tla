-------------------------- MODULE ConnectTaskProofs --------------------------
(***************************************************************************)
(* The safety of a JAConnect object for every application: any set of      *)
(* calls, any number of calls, of disconnections by the peer and of        *)
(* decisions about the flow.                                               *)
(***************************************************************************)
EXTENDS ConnectTask, SequenceTheorems, FiniteSetTheorems, TLAPS

\* A leaf that names no prover is tried with the SMT solver, a second time when its
\* translation does not finish, and then with Zenon.
USE SMTT(30), Z3T(30), ZenonT(30)

-----------------------------------------------------------------------------
(* The queue. *)

\* q holds one of the commands in C.
Has(q, C) == \E i \in 1 .. Len(q) : q[i] \in C

\* Every c in q has a d in front of it.
Before(q, c, d) == \A i \in 1 .. Len(q) : q[i] = c => \E k \in 1 .. i - 1 : q[k] = d

\* No d in q has a c in front of it.
NotAfter(q, c, d) == \A i \in 1 .. Len(q) : q[i] = d => \A k \in 1 .. i - 1 : q[k] # c

\* q holds a PAUSE that no later command takes back.
Clearing == {"CONTINUE", "STARTPLAYBACK"}
LastIsPause(q) ==
  \E i \in 1 .. Len(q) : q[i] = "PAUSE" /\ \A j \in i + 1 .. Len(q) : q[j] \notin Clearing

-----------------------------------------------------------------------------
(* The inductive invariant. *)

\* A handle belongs to a link, and so does mIsConnected, except while
\* DoDisconnect is between its two halves.
Halfway == {"flags", "reflags"}
Connecting == {"connecting", "connecting2"}
LinkInv ==
  /\ mPlaybackHandle \/ mDataHandle => mP2p # "NULL"
  /\ mIsConnected /\ tpc \notin Halfway => mP2p # "NULL"
  /\ mPlaybackHandle => mIsConnected
  /\ tpc \in Halfway => ~mPlaybackHandle
  /\ tpc \in Connecting => mP2p # "NULL"

\* The camera is paused, or will be when the queue has been worked off.
PausePending ==
  \/ recPaused /\ mPlaybackHandle /\ ~Has(mCommand, Clearing)
  \/ LastIsPause(mCommand)

FlowInv ==
  /\ PausePending /\ apc # "STARTPLAYBACK" => mPlaybackStatus = "PAUSE" \/ dpc \in {"nowPAUSE", "CONTINUE"}
  /\ dpc = "nowGETDATA" => ~PausePending

\* A handle of the link comes from a connection that succeeded.
HandleInv ==
  /\ mHandle /\ tpc \notin Halfway => mP2p # "NULL"
  /\ mHandle /\ tpc \notin Connecting \cup Halfway => mIsConnected /\ connectNowStates = "CONNECTED"

\* With a patient application whose streams do not fail, mRealStatus tells which
\* stream is on; a live stream is one of the link the object has, unless it has
\* left one behind.
Steadily == app.patient /\ ~app.streamFails
LiveHere == liveOpen /\ ~leaked
SourceInv ==
  /\ tpc = "reconnect" => ~mHandle
  /\ LiveHere => mHandle /\ mP2p # "NULL" /\ mRealStatus = "REAL" /\ tpc \notin Connecting \cup Halfway
  /\ mRealStatus = "REAL" /\ tpc \notin Halfway => mHandle /\ mP2p # "NULL" /\ tpc \notin Connecting
  /\ mPlaybackHandle => mRealStatus = "RECORD"

\* The queue, with what the application is about to add to it, turns one stream
\* off before the other on.
OrderInv ==
  /\ mPlaybackHandle => Before(mCommand, "OPENCHANNEL", "STOPPLAYBACK") /\ ~Has(mCommand, {"CLOSECHANNEL"})
  /\ mPlaybackHandle /\ apc = "OPENCHANNEL" => Has(mCommand, {"STOPPLAYBACK"})
  /\ LiveHere => Before(mCommand, "STARTPLAYBACK", "CLOSECHANNEL")
  /\ LiveHere /\ apc = "STARTPLAYBACK" => Has(mCommand, {"CLOSECHANNEL"})
  /\ NotAfter(mCommand, "STARTPLAYBACK", "CLOSECHANNEL")
  /\ ~(Has(mCommand, {"OPENCHANNEL"}) /\ Has(mCommand, {"STARTPLAYBACK"}))
  /\ apc = "OPENCHANNEL" => ~Has(mCommand, {"STARTPLAYBACK"})
  /\ apc = "STARTPLAYBACK" => ~Has(mCommand, {"OPENCHANNEL"})

\* What GetRealStatus reports as live is accepted and decoded, or about to end.
ShownInv ==
  mRealStatus = "REAL" /\ tpc \notin Halfway =>
    /\ mAddBuffer \/ Has(mCommand, {"CLOSECHANNEL"})
    /\ "SetGate" \notin app.calls => mDecodeStatus = 1

IInv ==
  /\ TypeOK /\ LinkInv /\ HandleInv
  /\ Throttling => FlowInv
  /\ Steadily => SourceInv /\ OrderInv /\ ShownInv
-----------------------------------------------------------------------------
(* What the operations on the queue do to what it holds. *)

\* Taking the first command.
LEMMA Popped ==
  ASSUME NEW q \in Seq(Commands), q # << >>
  PROVE  /\ Tail(q) \in Seq(Commands) /\ Head(q) \in Commands /\ Len(q) - 1 \in Nat
         /\ \A C : Has(Tail(q), C) => Has(q, C)
         /\ \A C : Has(q, C) => Head(q) \in C \/ Has(Tail(q), C)
         /\ \A c, d : Before(q, c, d) => Head(q) # c /\ (Head(q) # d => Before(Tail(q), c, d))
         /\ \A c, d : NotAfter(q, c, d) =>
                        NotAfter(Tail(q), c, d) /\ (Head(q) = c => ~Has(Tail(q), {d}))
         /\ LastIsPause(Tail(q)) => LastIsPause(q)
         /\ Head(q) = "PAUSE" /\ ~Has(Tail(q), Clearing) => LastIsPause(q)
<1>. DEFINE r == Tail(q)
<1>1. /\ r \in Seq(Commands) /\ Head(q) = q[1] /\ Head(q) \in Commands
      /\ Len(q) \in Nat \ {0} /\ Len(r) = Len(q) - 1
      /\ \A i \in 1 .. Len(r) : r[i] = q[i + 1]
  BY HeadTailProperties, LenProperties, EmptySeq, ElementOfSeq
<1>. HIDE DEF r
<1>2. ASSUME NEW C, Has(r, C)
      PROVE  Has(q, C)
  <2>1. PICK i \in 1 .. Len(r) : r[i] \in C
    BY <1>2 DEF Has
  <2>2. i + 1 \in 1 .. Len(q) /\ q[i + 1] \in C
    BY <1>1, <2>1
  <2>. QED
    BY <2>2 DEF Has
<1>3. ASSUME NEW C, Has(q, C), Head(q) \notin C
      PROVE  Has(r, C)
  <2>1. PICK i \in 1 .. Len(q) : q[i] \in C
    BY <1>3 DEF Has
  <2>2. i - 1 \in 1 .. Len(r) /\ r[i - 1] = q[i]
    BY <1>1, <1>3, <2>1
  <2>. QED
    BY <2>1, <2>2 DEF Has
<1>4. ASSUME NEW c, NEW d, Before(q, c, d)
      PROVE  Head(q) # c /\ (Head(q) # d => Before(r, c, d))
  <2>1. Head(q) # c
    BY <1>1, <1>4 DEF Before
  <2>2. ASSUME Head(q) # d, NEW i \in 1 .. Len(r), r[i] = c
        PROVE  \E k \in 1 .. i - 1 : r[k] = d
    <3>1. i + 1 \in 1 .. Len(q) /\ q[i + 1] = c
      BY <1>1, <2>2
    <3>2. PICK k \in 1 .. (i + 1) - 1 : q[k] = d
      BY <1>4, <3>1 DEF Before
    <3>3. k # 1
      BY <1>1, <2>2, <3>2
    <3>4. k - 1 \in 1 .. i - 1 /\ k - 1 \in 1 .. Len(r) /\ (k - 1) + 1 = k
      BY <1>1, <3>2, <3>3
    <3>5. r[k - 1] = d
      BY <1>1, <3>2, <3>4
    <3>. QED
      BY <3>4, <3>5
  <2>. QED
    BY <2>1, <2>2 DEF Before
<1>5. ASSUME NEW c, NEW d, NotAfter(q, c, d)
      PROVE  NotAfter(r, c, d) /\ (Head(q) = c => ~Has(r, {d}))
  <2>1. ASSUME NEW i \in 1 .. Len(r), r[i] = d
        PROVE  \A k \in 1 .. (i + 1) - 1 : q[k] # c
    <3>1. i + 1 \in 1 .. Len(q) /\ q[i + 1] = d
      BY <1>1, <2>1
    <3>. QED
      BY <1>5, <3>1 DEF NotAfter
  <2>2. NotAfter(r, c, d)
    <3>. SUFFICES ASSUME NEW i \in 1 .. Len(r), r[i] = d, NEW k \in 1 .. i - 1
                  PROVE  r[k] # c
      BY DEF NotAfter
    <3>1. k + 1 \in 1 .. (i + 1) - 1 /\ k \in 1 .. Len(r)
      BY <1>1
    <3>2. q[k + 1] # c
      BY <2>1, <3>1
    <3>. QED
      BY <1>1, <3>1, <3>2
  <2>3. Head(q) = c => ~Has(r, {d})
    <3>. SUFFICES ASSUME NEW i \in 1 .. Len(r), r[i] = d
                  PROVE  Head(q) # c
      BY DEF Has
    <3>1. 1 \in 1 .. (i + 1) - 1
      BY <1>1
    <3>. QED
      BY <1>1, <2>1, <3>1
  <2>. QED
    BY <2>2, <2>3
<1>6. ASSUME LastIsPause(r)
      PROVE  LastIsPause(q)
  <2>1. PICK i \in 1 .. Len(r) : r[i] = "PAUSE" /\ \A j \in i + 1 .. Len(r) : r[j] \notin Clearing
    BY <1>6 DEF LastIsPause
  <2>2. i + 1 \in 1 .. Len(q) /\ q[i + 1] = "PAUSE"
    BY <1>1, <2>1
  <2>3. ASSUME NEW j \in (i + 1) + 1 .. Len(q)
        PROVE  q[j] \notin Clearing
    <3>1. j - 1 \in i + 1 .. Len(r) /\ j - 1 \in 1 .. Len(r) /\ (j - 1) + 1 = j
      BY <1>1
    <3>. QED
      BY <1>1, <2>1, <3>1, ZenonT(30)
  <2>. QED
    BY <2>2, <2>3 DEF LastIsPause
<1>7. ASSUME Head(q) = "PAUSE", ~Has(r, Clearing)
      PROVE  LastIsPause(q)
  <2>1. ASSUME NEW j \in 1 + 1 .. Len(q)
        PROVE  q[j] \notin Clearing
    <3>1. j - 1 \in 1 .. Len(r) /\ (j - 1) + 1 = j
      BY <1>1
    <3>. QED
      BY <1>1, <1>7, <3>1, ZenonT(30) DEF Has
  <2>2. 1 \in 1 .. Len(q) /\ q[1] = "PAUSE"
    BY <1>1, <1>7
  <2>. QED
    BY <2>1, <2>2 DEF LastIsPause
<1>. QED
  BY <1>1, <1>2, <1>3, <1>4, <1>5, <1>6, <1>7 DEF r

\* Adding a command, under mTaskLock.
LEMMA Added ==
  ASSUME NEW q \in Seq(Commands), NEW c \in Commands
  PROVE  LET r == q \o <<c>>
         IN /\ r \in Seq(Commands) /\ r # << >>
            /\ \A C : Has(r, C) <=> Has(q, C) \/ c \in C
            /\ \A x, d : Before(q, x, d) /\ (c = x => Has(q, {d})) => Before(r, x, d)
            /\ \A x, d : NotAfter(q, x, d) /\ (c = d => ~Has(q, {x})) => NotAfter(r, x, d)
            /\ LastIsPause(r) => c = "PAUSE" \/ LastIsPause(q)
            /\ c \in Clearing => ~LastIsPause(r)
<1>. DEFINE r == q \o <<c>>
<1>1. /\ r \in Seq(Commands) /\ Len(q) \in Nat /\ Len(r) = Len(q) + 1
      /\ r[Len(q) + 1] = c /\ \A i \in 1 .. Len(q) : r[i] = q[i]
  BY ConcatProperties, LenProperties
<1>. HIDE DEF r
<1>2. r # << >>
  BY <1>1
<1>3. ASSUME NEW C
      PROVE  Has(r, C) <=> Has(q, C) \/ c \in C
  BY <1>1 DEF Has
<1>4. ASSUME NEW x, NEW d, Before(q, x, d), c = x => Has(q, {d})
      PROVE  Before(r, x, d)
  <2>. SUFFICES ASSUME NEW i \in 1 .. Len(r), r[i] = x
                PROVE  \E k \in 1 .. i - 1 : r[k] = d
    BY DEF Before
  <2>1. CASE i \in 1 .. Len(q)
    <3>1. PICK k \in 1 .. i - 1 : q[k] = d
      BY <1>1, <1>4, <2>1 DEF Before
    <3>. QED
      BY <1>1, <2>1, <3>1
  <2>2. CASE i = Len(q) + 1
    <3>1. PICK k \in 1 .. Len(q) : q[k] = d
      BY <1>1, <1>4, <2>2 DEF Has
    <3>2. k \in 1 .. i - 1 /\ r[k] = d
      BY <1>1, <2>2, <3>1
    <3>. QED
      BY <3>2
  <2>. QED
    BY <1>1, <2>1, <2>2
<1>5. ASSUME NEW x, NEW d, NotAfter(q, x, d), c = d => ~Has(q, {x})
      PROVE  NotAfter(r, x, d)
  <2>. SUFFICES ASSUME NEW i \in 1 .. Len(r), r[i] = d, NEW k \in 1 .. i - 1
                PROVE  r[k] # x
    BY DEF NotAfter
  <2>0. k \in 1 .. Len(q) /\ r[k] = q[k]
    BY <1>1
  <2>1. CASE i \in 1 .. Len(q)
    BY <1>1, <1>5, <2>0, <2>1 DEF NotAfter
  <2>2. CASE i = Len(q) + 1
    BY <1>1, <1>5, <2>0, <2>2 DEF Has
  <2>. QED
    BY <1>1, <2>1, <2>2
<1>6. ASSUME LastIsPause(r)
      PROVE  (c = "PAUSE" \/ LastIsPause(q)) /\ c \notin Clearing
  <2>1. PICK i \in 1 .. Len(r) : r[i] = "PAUSE" /\ \A j \in i + 1 .. Len(r) : r[j] \notin Clearing
    BY <1>6 DEF LastIsPause
  <2>2. CASE i = Len(q) + 1
    BY <1>1, <2>1, <2>2 DEF Clearing
  <2>3. CASE i \in 1 .. Len(q)
    <3>1. Len(q) + 1 \in i + 1 .. Len(r)
      BY <1>1, <2>3
    <3>2. c \notin Clearing
      BY <1>1, <2>1, <3>1
    <3>3. \A j \in i + 1 .. Len(q) : q[j] \notin Clearing
      <4>. SUFFICES ASSUME NEW j \in i + 1 .. Len(q)
                    PROVE  q[j] \notin Clearing
        OBVIOUS
      <4>1. j \in i + 1 .. Len(r) /\ j \in 1 .. Len(q)
        BY <1>1, <2>3
      <4>. QED
        BY <1>1, <2>1, <4>1
    <3>. QED
      BY <1>1, <2>1, <2>3, <3>2, <3>3 DEF LastIsPause
  <2>. QED
    BY <1>1, <2>2, <2>3
<1>. QED
  BY <1>1, <1>2, <1>3, <1>4, <1>5, <1>6, ZenonT(30) DEF r

\* DoDisconnect leaves nothing but CONNECTs in the queue.
LEMMA Purged ==
  ASSUME NEW q \in Seq(Commands)
  PROVE  LET r == Purge(q)
         IN /\ r \in Seq(Commands)
            /\ \A C : "CONNECT" \notin C => ~Has(r, C)
            /\ \A c, d : c # "CONNECT" => Before(r, c, d)
            /\ \A c, d : d # "CONNECT" => NotAfter(r, c, d)
            /\ ~LastIsPause(r)
<1>. DEFINE K == {k \in 1 .. Len(q) : q[k] = "CONNECT"}
            n == Cardinality(K)
            r == Purge(q)
<1>1. n \in Nat
  <2>1. IsFiniteSet(1 .. Len(q))
    BY LenProperties, FS_Interval
  <2>2. IsFiniteSet(K)
    BY <2>1, FS_Subset
  <2>. QED
    BY <2>2, FS_CardinalityType
<1>2. r = [i \in 1 .. n |-> "CONNECT"]
  BY DEF Purge
<1>. HIDE DEF n, r
<1>3. "CONNECT" \in Commands
  BY DEF Commands
<1>4. r \in Seq(Commands) /\ Len(r) = n
  BY <1>1, <1>2, <1>3, IsASeq
<1>5. \A i \in 1 .. Len(r) : r[i] = "CONNECT"
  BY <1>2, <1>4, ZenonT(30)
<1>. QED
  BY <1>4, <1>5 DEF Has, Before, NotAfter, LastIsPause, r

\* An empty queue holds nothing.
LEMMA Empty ==
  /\ \A C : ~Has(<< >>, C)
  /\ \A c, d : Before(<< >>, c, d) /\ NotAfter(<< >>, c, d)
  /\ ~LastIsPause(<< >>)
BY DEF Has, Before, NotAfter, LastIsPause

-----------------------------------------------------------------------------
(* Types. *)

\* A step leaves the queue alone, takes its first command, purges it or adds one
\* command.
LEMMA QueueStep ==
  ASSUME TypeOK, Next
  PROVE  \/ mCommand' = mCommand
         \/ mCommand # << >> /\ mCommand' = Tail(mCommand)
         \/ mCommand' = Purge(mCommand)
         \/ mCommand # << >> /\ mCommand' = Purge(Tail(mCommand))
         \/ \E c \in Commands : mCommand' = mCommand \o <<c>>
<1>. mCommand \in Seq(Commands) /\ mCommand \o << >> = mCommand
  BY ConcatEmptySeq DEF TypeOK
<1>1. CASE TaskStep
  BY <1>1, ZenonT(30) DEF TaskStep, NoCommand, LoopEnd, DoDisconnect, DisconnectFlags, DoConnectAgain, ReconnectFlags,
              DoConnect, ReConnect, ConnectFallback, ConnectOK, ConnectFailed, OpenNoLink, OpenOK,
              OpenFailed, CloseNoLink, DoCloseChannel, DoStartPlayback, DoStopPlayback, DoPlaybackFlow,
              DoUseLink, At, Pop
<1>2. CASE DecodeStep
  BY <1>2, ZenonT(30) DEF DecodeStep, DecodeTop, DecodeGate, DecodeFrame, DecideFlow, SendFlow, NoteFlow, AddCommand,
              taskVars, Commands
<1>3. CASE AppStep
  BY <1>3, ZenonT(30) DEF AppStep, Connect, Disconnect, OpenChannel, CloseChannel, StartPlayback, Queue, SetGate,
              QueueRest, Destroy, DestroyStep, DestroyResume, DestroyJoin, AddCommand, taskVars, Commands
<1>4. CASE \E ret \in {"CLOSEBYPEER", "TIMEOUT"} : OnDisconnect(ret)
  BY <1>4 DEF OnDisconnect, AddCommand, Commands
<1>. QED
  BY <1>1, <1>2, <1>3, <1>4, ZenonT(30) DEF Next

\* The queue holds commands.
LEMMA QueueTyped ==
  ASSUME TypeOK, Next
  PROVE  mCommand' \in Seq(Commands) /\ (mCommand # << >> => Len(mCommand) - 1 \in Nat)
<1>1. mCommand \in Seq(Commands)
  BY DEF TypeOK
<1>2. mCommand # << >> => Tail(mCommand) \in Seq(Commands) /\ Len(mCommand) - 1 \in Nat
  BY <1>1, Popped
<1>3. \A q \in Seq(Commands) : Purge(q) \in Seq(Commands)
  BY Purged
<1>4. \A c \in Commands : mCommand \o <<c>> \in Seq(Commands)
  BY <1>1, Added
<1>. QED
  BY <1>1, <1>2, <1>3, <1>4, QueueStep, ZenonT(30)

\* The calls that queue one command and nothing else.
Queues ==
  \/ Queue("StopPlayback", "STOPPLAYBACK") \/ Queue("UseLink", "USE")
  \/ Queue("PlaybackPauseGetData", "PAUSE") \/ Queue("PlaybackContinueGetData", "CONTINUE")

\* The flags, and the other variables.
Flags ==
  /\ mHandle \in BOOLEAN /\ mDataHandle \in BOOLEAN /\ mPlaybackHandle \in BOOLEAN /\ leaked \in BOOLEAN
  /\ mIsConnected \in BOOLEAN /\ mAreadyConnected \in BOOLEAN /\ mAddBuffer \in BOOLEAN
  /\ mRunThread \in BOOLEAN /\ liveOpen \in BOOLEAN /\ recPaused \in BOOLEAN /\ wanted \in BOOLEAN

Others ==
  /\ mCommand \in Seq(Commands) /\ cmdcount \in Nat
  /\ tpc \in {"idle", "sleep", "exited", "flags", "reflags", "reconnect", "connecting", "connecting2"}
  /\ dpc \in {"top", "gate", "body", "exited", "PAUSE", "CONTINUE", "nowPAUSE", "nowGETDATA"}
  /\ apc \in {"idle", "OPENCHANNEL", "STARTPLAYBACK", "resume", "join1", "join2", "deleted"}
  /\ mP2p \in {"NULL", "KCP", "UDX"}
  /\ connectNowStates \in {"0", "CONNECTED", "TIMEOUT", "AUTHOFAIL", "CONNECTFAIL"}
  /\ mRealStatus \in {"NONE", "REAL", "RECORD"} /\ mPlaybackStatus \in {"NONE", "GETDATA", "PAUSE"}
  /\ mDecodeStatus \in 0 .. 1
  /\ app \in Apps /\ calls \in 0 .. app.maxCalls /\ peers \in 0 .. app.maxPeer /\ flows \in 0 .. app.maxFlow

\* Letting go of a link keeps the types of what says whether a stream goes on.
LEMMA Let ==
  ASSUME Flags, NEW next, DestroyConnector(next)
  PROVE  leaked' \in BOOLEAN /\ liveOpen' \in BOOLEAN
BY ZenonT(30) DEF Flags, DestroyConnector, StreamEnds

\* Every variable keeps its type.
LEMMA TypeStep ==
  ASSUME TypeOK, Next
  PROVE  TypeOK'
<1>0. TypeOK => Flags /\ Others
  BY DEF TypeOK, Flags, Others
<1>a. Flags' /\ Others' => TypeOK'
  BY DEF TypeOK, Flags, Others
<1>. USE <1>0, <1>a, QueueTyped DEF linkVars, connVars, playVars, threadVars, countVars, taskVars, At, Pop
<1>1. CASE NoCommand
  <2>1. Flags'
    BY <1>1, ZenonT(30) DEF Flags, NoCommand
  <2>2. Others'
    BY <1>1 DEF Others, NoCommand
  <2>. QED
    BY <2>1, <2>2
<1>2. CASE LoopEnd
  <2>1. Flags'
    BY <1>2, ZenonT(30) DEF Flags, LoopEnd
  <2>2. Others'
    BY <1>2 DEF Others, LoopEnd
  <2>. QED
    BY <2>1, <2>2
<1>3. CASE DoDisconnect
  <2>1. Flags'
    <3>1. UNCHANGED <<mIsConnected, mAreadyConnected, mAddBuffer, mRunThread, wanted>> /\ Release
      BY <1>3, ZenonT(30) DEF DoDisconnect
    <3>. QED
      BY <3>1, Let DEF Flags, Release
  <2>2. Others'
    BY <1>3 DEF Others, DoDisconnect, Release, DestroyConnector
  <2>. QED
    BY <2>1, <2>2
<1>4. CASE DisconnectFlags
  <2>1. Flags'
    BY <1>4, ZenonT(30) DEF Flags, DisconnectFlags, ResetFlags
  <2>2. Others'
    BY <1>4 DEF Others, DisconnectFlags, ResetFlags
  <2>. QED
    BY <2>1, <2>2
<1>5. CASE DoConnectAgain
  <2>1. Flags'
    <3>1. UNCHANGED <<mIsConnected, mAreadyConnected, mAddBuffer, mRunThread, wanted>> /\ Release
      BY <1>5, ZenonT(30) DEF DoConnectAgain
    <3>. QED
      BY <3>1, Let DEF Flags, Release
  <2>2. Others'
    BY <1>5 DEF Others, DoConnectAgain, Release, DestroyConnector
  <2>. QED
    BY <2>1, <2>2
<1>6. CASE ReconnectFlags
  <2>1. Flags'
    BY <1>6, ZenonT(30) DEF Flags, ReconnectFlags, ResetFlags
  <2>2. Others'
    BY <1>6 DEF Others, ReconnectFlags, ResetFlags
  <2>. QED
    BY <2>1, <2>2
<1>7. CASE DoConnect
  <2>1. Flags'
    BY <1>7, ZenonT(30) DEF Flags, DoConnect
  <2>2. Others'
    <3>1. /\ tpc' = "reconnect" /\ mCommand # << >> /\ cmdcount' = Len(mCommand) - 1
          /\ UNCHANGED <<linkVars, connVars, playVars, threadVars, countVars>>
      BY <1>7, ZenonT(30) DEF DoConnect
    <3>. QED
      BY <3>1 DEF Others
  <2>. QED
    BY <2>1, <2>2
<1>8. CASE ReConnect
  <2>1. Flags'
    BY <1>8, ZenonT(30) DEF Flags, ReConnect
  <2>2. Others'
    BY <1>8 DEF Others, ReConnect
  <2>. QED
    BY <2>1, <2>2
<1>9. CASE ConnectFallback
  <2>1. Flags'
    <3>1. /\ DestroyConnector("UDX") /\ mHandle' \in BOOLEAN
          /\ UNCHANGED <<mDataHandle, mPlaybackHandle, connVars, mAddBuffer, recPaused, mRunThread, wanted>>
      BY <1>9, ZenonT(30) DEF ConnectFallback
    <3>. QED
      BY <3>1, Let, ZenonT(30) DEF Flags
  <2>2. Others'
    BY <1>9 DEF Others, ConnectFallback, DestroyConnector
  <2>. QED
    BY <2>1, <2>2
<1>10. CASE ConnectOK
  <2>1. Flags'
    BY <1>10, ZenonT(30) DEF Flags, ConnectOK
  <2>2. Others'
    BY <1>10 DEF Others, ConnectOK
  <2>. QED
    BY <2>1, <2>2
<1>11. CASE ConnectFailed
  <2>1. Flags'
    <3>1. UNCHANGED <<mIsConnected, mAreadyConnected, mAddBuffer, mRunThread, wanted>> /\ Release
      BY <1>11, ZenonT(30) DEF ConnectFailed
    <3>. QED
      BY <3>1, Let DEF Flags, Release
  <2>2. Others'
    BY <1>11 DEF Others, ConnectFailed, Release, DestroyConnector
  <2>. QED
    BY <2>1, <2>2
<1>12. CASE OpenNoLink
  <2>1. Flags'
    BY <1>12, ZenonT(30) DEF Flags, OpenNoLink
  <2>2. Others'
    BY <1>12 DEF Others, OpenNoLink
  <2>. QED
    BY <2>1, <2>2
<1>13. CASE OpenOK
  <2>1. Flags'
    BY <1>13, ZenonT(30) DEF Flags, OpenOK
  <2>2. Others'
    BY <1>13 DEF Others, OpenOK
  <2>. QED
    BY <2>1, <2>2
<1>14. CASE OpenFailed
  <2>1. Flags'
    BY <1>14, ZenonT(30) DEF Flags, OpenFailed
  <2>2. Others'
    BY <1>14 DEF Others, OpenFailed
  <2>. QED
    BY <2>1, <2>2
<1>15. CASE CloseNoLink
  <2>1. Flags'
    BY <1>15, ZenonT(30) DEF Flags, CloseNoLink
  <2>2. Others'
    BY <1>15 DEF Others, CloseNoLink
  <2>. QED
    BY <2>1, <2>2
<1>16. CASE DoCloseChannel
  <2>1. Flags'
    <3>1. liveOpen' \in BOOLEAN
      BY <1>16, ZenonT(30) DEF Flags, DoCloseChannel, StreamEnds
    <3>. QED
      BY <1>16, <3>1, ZenonT(30) DEF Flags, DoCloseChannel
  <2>2. Others'
    BY <1>16 DEF Others, DoCloseChannel
  <2>. QED
    BY <2>1, <2>2
<1>17. CASE DoStartPlayback
  <2>1. Flags'
    BY <1>17, ZenonT(30) DEF Flags, DoStartPlayback
  <2>2. Others'
    BY <1>17 DEF Others, DoStartPlayback
  <2>. QED
    BY <2>1, <2>2
<1>18. CASE DoStopPlayback
  <2>1. Flags'
    BY <1>18, ZenonT(30) DEF Flags, DoStopPlayback
  <2>2. Others'
    BY <1>18 DEF Others, DoStopPlayback
  <2>. QED
    BY <2>1, <2>2
<1>19. CASE DoPlaybackFlow
  <2>1. Flags'
    <3>1. recPaused' \in BOOLEAN
      BY <1>19, ZenonT(30) DEF Flags, DoPlaybackFlow
    <3>. QED
      BY <1>19, <3>1, ZenonT(30) DEF Flags, DoPlaybackFlow
  <2>2. Others'
    BY <1>19 DEF Others, DoPlaybackFlow
  <2>. QED
    BY <2>1, <2>2
<1>20. CASE DoUseLink
  <2>1. Flags'
    BY <1>20, ZenonT(30) DEF Flags, DoUseLink
  <2>2. Others'
    BY <1>20 DEF Others, DoUseLink
  <2>. QED
    BY <2>1, <2>2
<1>21. CASE DecodeStep
  <2>1. app.maxFlow \in Nat
    BY TaskAssumption DEF Others
  <2>2. flows' \in 0 .. app.maxFlow
    <3>1. flows' = flows \/ (flows < app.maxFlow /\ flows' = flows + 1)
      BY <1>21, ZenonT(30) DEF DecodeStep, DecodeTop, DecodeGate, DecodeFrame, DecideFlow, SendFlow, NoteFlow
    <3>2. flows \in 0 .. app.maxFlow
      BY ZenonT(30) DEF Others
    <3>. QED
      BY <2>1, <3>1, <3>2
  <2>. QED
    <3>1. Flags'
      <4>1. UNCHANGED <<linkVars, connVars, playVars, mRunThread, wanted>>
        BY <1>21, ZenonT(30) DEF DecodeStep, DecodeTop, DecodeGate, DecodeFrame, DecideFlow, SendFlow, NoteFlow
      <4>. QED
        BY <4>1, ZenonT(30) DEF Flags
    <3>2. Others'
      BY <1>21, <2>2, ZenonT(30) DEF Others, DecodeStep, DecodeTop, DecodeGate, DecodeFrame, DecideFlow, SendFlow, NoteFlow
    <3>. QED
      BY <3>1, <3>2
<1>22. ASSUME NEW ret \in {"CLOSEBYPEER", "TIMEOUT"}, OnDisconnect(ret)
       PROVE  TypeOK'
  <2>1. app.maxPeer \in Nat
    BY TaskAssumption DEF Others
  <2>2. peers' \in 0 .. app.maxPeer
    <3>1. peers < app.maxPeer /\ peers' = peers + 1
      BY <1>22, ZenonT(30) DEF OnDisconnect
    <3>2. peers \in 0 .. app.maxPeer
      BY ZenonT(30) DEF Others
    <3>. QED
      BY <2>1, <3>1, <3>2
  <2>. QED
    <3>1. Flags'
      <4>1. UNCHANGED <<linkVars, connVars, mAddBuffer, recPaused, mRunThread, wanted>>
        BY <1>22, ZenonT(30) DEF OnDisconnect
      <4>2. liveOpen' \in BOOLEAN
        BY <1>22, ZenonT(30) DEF OnDisconnect, Flags
      <4>. QED
        BY <4>1, <4>2, ZenonT(30) DEF Flags
    <3>2. Others'
      <4>1. UNCHANGED <<tpc, cmdcount, linkVars, connVars, mRealStatus, mDecodeStatus, threadVars, calls, flows, app>>
        BY <1>22, ZenonT(30) DEF OnDisconnect
      <4>. QED
        BY <2>2, <4>1 DEF Others
    <3>. QED
      BY <3>1, <3>2
<1>23. CASE Connect \/ Disconnect \/ OpenChannel \/ CloseChannel \/ StartPlayback
            \/ Queues \/ SetGate
  <2>1. app.maxCalls \in Nat
    BY TaskAssumption DEF Others
  <2>2. calls' \in 0 .. app.maxCalls
    <3>1. calls < app.maxCalls /\ calls' = calls + 1
      BY <1>23, ZenonT(30) DEF Connect, Disconnect, OpenChannel, CloseChannel, StartPlayback, Queues, Queue, SetGate, MayCall
    <3>2. calls \in 0 .. app.maxCalls
      BY ZenonT(30) DEF Others
    <3>. QED
      BY <2>1, <3>1, <3>2
  <2>3. CASE Connect
    <3>1. Flags'
      BY <2>2, <2>3, ZenonT(30) DEF Flags, Connect, MayCall
    <3>2. Others'
      BY <2>2, <2>3 DEF Others, Connect, MayCall
    <3>. QED
      BY <3>1, <3>2
  <2>4. CASE Disconnect
    <3>1. Flags'
      BY <2>2, <2>4, ZenonT(30) DEF Flags, Disconnect, MayCall
    <3>2. Others'
      BY <2>2, <2>4 DEF Others, Disconnect, MayCall
    <3>. QED
      BY <3>1, <3>2
  <2>5. CASE OpenChannel
    <3>1. Flags'
      BY <2>2, <2>5, ZenonT(30) DEF Flags, OpenChannel, MayCall
    <3>2. Others'
      BY <2>2, <2>5 DEF Others, OpenChannel, MayCall
    <3>. QED
      BY <3>1, <3>2
  <2>6. CASE CloseChannel
    <3>1. Flags'
      BY <2>2, <2>6, ZenonT(30) DEF Flags, CloseChannel, MayCall
    <3>2. Others'
      BY <2>2, <2>6 DEF Others, CloseChannel, MayCall
    <3>. QED
      BY <3>1, <3>2
  <2>7. CASE StartPlayback
    <3>1. Flags'
      BY <2>2, <2>7, ZenonT(30) DEF Flags, StartPlayback, MayCall
    <3>2. Others'
      BY <2>2, <2>7 DEF Others, StartPlayback, MayCall
    <3>. QED
      BY <3>1, <3>2
  <2>8. CASE Queues
    <3>0. PICK call \in AppCalls, cmd \in Commands : Queue(call, cmd)
      BY <2>8, ZenonT(30) DEF Queues, AppCalls, Commands
    <3>1. Flags'
      BY <3>0, ZenonT(30) DEF Flags, Queue, MayCall
    <3>2. Others'
      BY <2>2, <3>0 DEF Others, Queue, MayCall
    <3>. QED
      BY <3>1, <3>2
  <2>9. CASE SetGate
    <3>1. Flags'
      BY <2>2, <2>9, ZenonT(30) DEF Flags, SetGate
    <3>2. Others'
      BY <2>2, <2>9 DEF Others, SetGate
    <3>. QED
      BY <3>1, <3>2
  <2>. QED
    BY <1>23, <2>3, <2>4, <2>5, <2>6, <2>7, <2>8, <2>9
<1>24. CASE QueueRest
  <2>1. Flags'
    BY <1>24, ZenonT(30) DEF Flags, QueueRest
  <2>2. Others'
    BY <1>24 DEF Others, QueueRest
  <2>. QED
    BY <2>1, <2>2
<1>25. CASE Destroy
  <2>1. Flags'
    BY <1>25, ZenonT(30) DEF Flags, Destroy
  <2>2. Others'
    BY <1>25 DEF Others, Destroy
  <2>. QED
    BY <2>1, <2>2
<1>26. CASE DestroyResume
  <2>1. Flags'
    BY <1>26, ZenonT(30) DEF Flags, DestroyResume
  <2>2. Others'
    BY <1>26 DEF Others, DestroyResume
  <2>. QED
    BY <2>1, <2>2
<1>27. CASE DestroyJoin
  <2>1. Flags'
    BY <1>27, ZenonT(30) DEF Flags, DestroyJoin
  <2>2. Others'
    <3>1. /\ apc' = "join2" \/ apc' = "deleted"
          /\ UNCHANGED <<taskVars, linkVars, connVars, playVars, dpc, mPlaybackStatus, countVars>>
      BY <1>27, ZenonT(30) DEF DestroyJoin
    <3>. QED
      BY <3>1 DEF Others
  <2>. QED
    BY <2>1, <2>2
<1>. QED
  BY <1>1, <1>2, <1>3, <1>4, <1>5, <1>6, <1>7, <1>8, <1>9, <1>10, <1>11, <1>12, <1>13, <1>14, <1>15,
     <1>16, <1>17, <1>18, <1>19, <1>20, <1>21, <1>22, <1>23, <1>24, <1>25, <1>26, <1>27
     DEF Next, TaskStep, AppStep, DestroyStep, Queues

-----------------------------------------------------------------------------
(* Links and handles. *)

\* Only the task thread touches the link, the handles and the connection.
LEMMA OnlyTask ==
  ASSUME DecodeStep \/ AppStep \/ \E ret \in {"CLOSEBYPEER", "TIMEOUT"} : OnDisconnect(ret)
  PROVE  UNCHANGED <<tpc, cmdcount, linkVars, connVars, mRealStatus, recPaused, app>>
<1>1. CASE DecodeStep
  BY <1>1, ZenonT(30) DEF DecodeStep, DecodeTop, DecodeGate, DecodeFrame, DecideFlow, SendFlow, NoteFlow,
              taskVars, playVars, countVars
<1>2. CASE AppStep
  BY <1>2, ZenonT(30) DEF AppStep, Connect, Disconnect, OpenChannel, CloseChannel, StartPlayback, Queue, SetGate, MayCall,
              QueueRest, Destroy, DestroyStep, DestroyResume, DestroyJoin, taskVars, playVars, countVars
<1>3. CASE \E ret \in {"CLOSEBYPEER", "TIMEOUT"} : OnDisconnect(ret)
  BY <1>3 DEF OnDisconnect
<1>. QED
  BY <1>1, <1>2, <1>3

\* The task thread leaves the other threads' positions, mPlaybackStatus and the
\* application alone.
LEMMA TaskKeeps ==
  ASSUME TaskStep
  PROVE  UNCHANGED <<threadVars, countVars>>
<1>1. CASE NoCommand \/ LoopEnd \/ DoDisconnect \/ DoConnectAgain \/ DoConnect
  BY <1>1 DEF NoCommand, LoopEnd, DoDisconnect, DoConnectAgain, DoConnect
<1>2. CASE DisconnectFlags \/ ReconnectFlags
  BY <1>2 DEF DisconnectFlags, ReconnectFlags, ResetFlags
<1>3. CASE ReConnect \/ ConnectFallback \/ ConnectOK \/ ConnectFailed
  BY <1>3, ZenonT(30) DEF ReConnect, ConnectFallback, ConnectOK, ConnectFailed
<1>4. CASE OpenNoLink \/ OpenOK \/ OpenFailed \/ CloseNoLink \/ DoCloseChannel
  BY <1>4 DEF OpenNoLink, OpenOK, OpenFailed, CloseNoLink, DoCloseChannel
<1>5. CASE DoStartPlayback \/ DoStopPlayback \/ DoPlaybackFlow \/ DoUseLink
  BY <1>5 DEF DoStartPlayback, DoStopPlayback, DoPlaybackFlow, DoUseLink
<1>. QED
  BY <1>1, <1>2, <1>3, <1>4, <1>5 DEF TaskStep

\* Nothing of the link that the object lets go of goes on as its own live stream.
LEMMA Ended ==
  /\ StreamEnds /\ leaked' = leaked => ~LiveHere'
  /\ \A next : DestroyConnector(next) => mP2p' = next /\ ~LiveHere'
<1>1. ASSUME StreamEnds, leaked' = leaked
      PROVE  ~LiveHere'
  <2>1. CASE leaked
    BY <1>1, <2>1 DEF LiveHere
  <2>2. CASE ~leaked
    <3>1. ~liveOpen'
      BY <1>1, <2>2, ZenonT(30) DEF StreamEnds
    <3>. QED
      BY <3>1 DEF LiveHere
  <2>. QED
    BY <2>1, <2>2
<1>2. ASSUME NEW next, DestroyConnector(next)
      PROVE  mP2p' = next /\ ~LiveHere'
  BY <1>1, <1>2, ZenonT(30) DEF DestroyConnector, LiveHere
<1>. QED
  BY <1>1, <1>2, ZenonT(30)

\* The first half of DoDisconnect leaves no handle of a stream behind, and no link
\* that had a handle.
LEMMA Released ==
  ASSUME Release
  PROVE  /\ ~mDataHandle' /\ ~mPlaybackHandle' /\ ~recPaused' /\ mHandle' = mHandle
         /\ mHandle /\ mP2p # "NULL" => mP2p' = "NULL" /\ ~LiveHere'
         /\ ~(mHandle /\ mP2p # "NULL") => UNCHANGED <<mP2p, leaked, liveOpen>>
BY Ended, ZenonT(30) DEF Release

\* LinkInv and HandleInv, for every step of the task thread.
LEMMA LinkTaskStep ==
  ASSUME TypeOK, LinkInv, HandleInv, TaskStep
  PROVE  LinkInv' /\ HandleInv'
<1>. USE DEF LinkInv, HandleInv, Halfway, Connecting, linkVars, connVars, At, Pop
<1>1. CASE NoCommand \/ LoopEnd
  BY <1>1 DEF NoCommand, LoopEnd
<1>2. CASE DoDisconnect \/ DoConnectAgain \/ ConnectFailed
  <2>1. Release /\ mIsConnected' = mIsConnected /\ tpc' \in Halfway
    BY <1>2 DEF DoDisconnect, DoConnectAgain, ConnectFailed
  <2>. QED
    BY <2>1, Released
<1>3. CASE DisconnectFlags \/ ReconnectFlags
  BY <1>3 DEF DisconnectFlags, ReconnectFlags, ResetFlags
<1>4. CASE DoConnect \/ OpenNoLink \/ OpenOK \/ OpenFailed \/ CloseNoLink \/ DoCloseChannel \/ DoUseLink
  <2>1. tpc = "idle" /\ tpc' \in {"reconnect", "sleep"} /\ UNCHANGED <<linkVars, connVars>>
    BY <1>4, ZenonT(30) DEF DoConnect, OpenNoLink, OpenOK, OpenFailed, CloseNoLink, DoCloseChannel, DoUseLink
  <2>. QED
    BY <2>1
<1>5. CASE ReConnect
  BY <1>5 DEF ReConnect
<1>6. CASE ConnectFallback
  BY <1>6 DEF ConnectFallback, DestroyConnector
<1>7. CASE ConnectOK
  BY <1>7 DEF ConnectOK
<1>8. CASE DoStartPlayback
  BY <1>8 DEF DoStartPlayback
<1>9. CASE DoStopPlayback
  BY <1>9 DEF DoStopPlayback
<1>10. CASE DoPlaybackFlow
  BY <1>10 DEF DoPlaybackFlow
<1>. QED
  BY <1>1, <1>2, <1>3, <1>4, <1>5, <1>6, <1>7, <1>8, <1>9, <1>10, ZenonT(30) DEF TaskStep

\* LinkInv and HandleInv, for every step.
LEMMA LinkStep ==
  ASSUME TypeOK, LinkInv, HandleInv, Next
  PROVE  LinkInv' /\ HandleInv'
<1>1. CASE TaskStep
  BY <1>1, LinkTaskStep
<1>2. CASE DecodeStep \/ AppStep \/ \E ret \in {"CLOSEBYPEER", "TIMEOUT"} : OnDisconnect(ret)
  BY <1>2, OnlyTask DEF LinkInv, HandleInv, linkVars, connVars
<1>. QED
  BY <1>1, <1>2 DEF Next

-----------------------------------------------------------------------------
(* Flow control. *)

\* No step of the task thread makes a pause pending that was not.
LEMMA PauseTaskStep ==
  ASSUME TypeOK, LinkInv, Throttling, TaskStep, PausePending'
  PROVE  PausePending
<1>. USE DEF linkVars, playVars, taskVars, At, Pop
<1>0. mCommand \in Seq(Commands)
  BY DEF TypeOK
<1>1. CASE NoCommand \/ LoopEnd \/ DisconnectFlags \/ ReconnectFlags \/ ReConnect \/ ConnectFallback \/ ConnectOK
  <2>1. UNCHANGED <<mCommand, recPaused, mPlaybackHandle>>
    BY <1>1, ZenonT(30) DEF NoCommand, LoopEnd, DisconnectFlags, ReconnectFlags, ResetFlags, ReConnect,
                ConnectFallback, ConnectOK
  <2>. QED
    BY <2>1 DEF PausePending
<1>2. CASE DoDisconnect \/ DoConnectAgain \/ ConnectFailed
  <2>1. ~recPaused'
    BY <1>2, Released DEF DoDisconnect, DoConnectAgain, ConnectFailed
  <2>2. mCommand' = Purge(mCommand) \/ (mCommand # << >> /\ mCommand' = Purge(Tail(mCommand)))
    BY <1>2 DEF DoDisconnect, DoConnectAgain, ConnectFailed
  <2>3. ~LastIsPause(mCommand')
    BY <1>0, <2>2, Purged, Popped, ZenonT(30)
  <2>. QED
    BY <2>1, <2>3 DEF PausePending
<1>3. CASE DoConnect \/ OpenNoLink \/ OpenOK \/ OpenFailed \/ CloseNoLink \/ DoCloseChannel \/ DoUseLink
  <2>1. /\ mCommand # << >> /\ mCommand' = Tail(mCommand) /\ Head(mCommand) \notin Clearing
        /\ UNCHANGED <<recPaused, mPlaybackHandle>>
    BY <1>3 DEF DoConnect, OpenNoLink, OpenOK, OpenFailed, CloseNoLink, DoCloseChannel, DoUseLink, Clearing
  <2>2. /\ LastIsPause(mCommand') => LastIsPause(mCommand)
        /\ Has(mCommand, Clearing) => Has(mCommand', Clearing)
    BY <1>0, <2>1, Popped
  <2>. QED
    BY <2>1, <2>2 DEF PausePending
<1>4. CASE DoStartPlayback
  <2>1. /\ mCommand # << >> /\ mCommand' = Tail(mCommand)
        /\ ~(recPaused' /\ mPlaybackHandle')
    BY <1>4 DEF DoStartPlayback, LinkInv, Halfway
  <2>. QED
    BY <1>0, <2>1, Popped DEF PausePending
<1>5. CASE DoStopPlayback
  <2>1. /\ mCommand # << >> /\ mCommand' = Tail(mCommand) /\ ~mPlaybackHandle'
    BY <1>5 DEF DoStopPlayback, LinkInv
  <2>. QED
    BY <1>0, <2>1, Popped DEF PausePending
<1>6. CASE DoPlaybackFlow
  <2>1. PICK cmd \in {"PAUSE", "CONTINUE"} :
           /\ mCommand # << >> /\ mCommand' = Tail(mCommand) /\ Head(mCommand) = cmd
           /\ recPaused' = (IF mPlaybackHandle THEN cmd = "PAUSE" ELSE recPaused)
           /\ mPlaybackHandle' = mPlaybackHandle
    BY <1>6 DEF DoPlaybackFlow, Throttling
  <2>2. /\ LastIsPause(mCommand') => LastIsPause(mCommand)
        /\ cmd = "PAUSE" /\ ~Has(mCommand', Clearing) => LastIsPause(mCommand)
    BY <1>0, <2>1, Popped
  <2>. QED
    BY <2>1, <2>2, ZenonT(30) DEF PausePending
<1>. QED
  BY <1>1, <1>2, <1>3, <1>4, <1>5, <1>6 DEF TaskStep

\* The flow control, for every step.
LEMMA FlowStep ==
  ASSUME TypeOK, LinkInv, Throttling, FlowInv, Next
  PROVE  FlowInv'
<1>0. mCommand \in Seq(Commands)
  BY DEF TypeOK
<1>1. CASE TaskStep
  <2>1. UNCHANGED <<dpc, apc, mPlaybackStatus>>
    BY <1>1, TaskKeeps DEF threadVars
  <2>2. PausePending' => PausePending
    BY <1>1, PauseTaskStep
  <2>. QED
    BY <2>1, <2>2 DEF FlowInv
<1>2. ASSUME NEW c \in Commands, mCommand' = mCommand \o <<c>>, UNCHANGED <<recPaused, mPlaybackHandle>>
      PROVE  /\ c # "PAUSE" /\ PausePending' => PausePending
             /\ c \in Clearing => ~PausePending'
  BY <1>0, <1>2, Added DEF PausePending
<1>3. CASE DecodeTop \/ DecodeGate \/ DecodeFrame \/ DecideFlow \/ NoteFlow
  <2>1. PausePending' = PausePending /\ apc' = apc
    BY <1>3 DEF DecodeTop, DecodeGate, DecodeFrame, DecideFlow, NoteFlow, taskVars, linkVars, playVars, PausePending
  <2>. QED
    BY <1>3, <2>1 DEF DecodeTop, DecodeGate, DecodeFrame, DecideFlow, NoteFlow, FlowInv
<1>4. CASE SendFlow
  <2>1. /\ mCommand' = mCommand \o <<dpc>> /\ dpc \in {"PAUSE", "CONTINUE"} /\ dpc \in Commands
        /\ UNCHANGED <<recPaused, mPlaybackHandle, apc, mPlaybackStatus>>
        /\ dpc' = (IF dpc = "PAUSE" THEN "nowPAUSE" ELSE "nowGETDATA")
    BY <1>4 DEF SendFlow, AddCommand, linkVars, playVars, Commands
  <2>2. dpc = "CONTINUE" => ~PausePending'
    BY <1>2, <2>1 DEF Clearing
  <2>. QED
    BY <2>1, <2>2 DEF FlowInv
<1>5. CASE AppStep
  <2>0. UNCHANGED <<recPaused, mPlaybackHandle>>
    BY <1>5, OnlyTask DEF linkVars
  <2>1. dpc' = dpc
    BY <1>5, ZenonT(30) DEF AppStep, Connect, Disconnect, OpenChannel, CloseChannel, StartPlayback, Queue, SetGate, MayCall,
                QueueRest, Destroy, DestroyStep, DestroyResume, DestroyJoin, threadVars
  <2>2. CASE SetGate \/ Destroy \/ DestroyStep
    <3>1. PausePending' = PausePending /\ mPlaybackStatus' = mPlaybackStatus
      BY <2>0, <2>2 DEF SetGate, Destroy, DestroyStep, DestroyResume, DestroyJoin, taskVars, threadVars, PausePending
    <3>2. apc # "STARTPLAYBACK"
      BY <2>2, ZenonT(30) DEF SetGate, Destroy, DestroyStep, DestroyResume, DestroyJoin
    <3>. QED
      BY <2>1, <3>1, <3>2 DEF FlowInv
  <2>3. CASE Connect \/ Disconnect \/ OpenChannel \/ CloseChannel \/ Queues
    <3>0. ~Queue("PlaybackPauseGetData", "PAUSE")
      BY DEF Queue, MayCall, Throttling
    <3>1. /\ \E c \in Commands : mCommand' = mCommand \o <<c>> /\ c # "PAUSE"
          /\ apc = "idle" /\ mPlaybackStatus' = mPlaybackStatus
      <4>1. CASE Connect \/ Disconnect \/ OpenChannel \/ CloseChannel
        BY <4>1, ZenonT(30) DEF Connect, Disconnect, OpenChannel, CloseChannel, MayCall, AddCommand, Commands
      <4>2. CASE Queues
        BY <3>0, <4>2, ZenonT(30) DEF Queues, Queue, MayCall, AddCommand, Commands
      <4>. QED
        BY <2>3, <4>1, <4>2
    <3>2. PausePending' => PausePending
      BY <1>2, <2>0, <3>1
    <3>. QED
      BY <2>1, <3>1, <3>2 DEF FlowInv
  <2>4. CASE StartPlayback
    <3>1. \/ mCommand' = mCommand \o << >>
          \/ \E c \in Commands : mCommand' = mCommand \o <<c>> /\ c # "PAUSE"
      BY <2>4, ZenonT(30) DEF StartPlayback, AddCommand, Commands
    <3>2. mCommand \o << >> = mCommand
      BY <1>0, ConcatEmptySeq
    <3>3. PausePending' => PausePending
      <4>1. CASE mCommand' = mCommand
        BY <2>0, <4>1 DEF PausePending
      <4>2. CASE \E c \in Commands : mCommand' = mCommand \o <<c>> /\ c # "PAUSE"
        BY <1>2, <2>0, <4>2
      <4>. QED
        BY <3>1, <3>2, <4>1, <4>2, ZenonT(30)
    <3>4. apc' = "STARTPLAYBACK"
      BY <2>4 DEF StartPlayback
    <3>. QED
      BY <2>1, <3>3, <3>4 DEF FlowInv
  <2>5. CASE QueueRest
    <3>1. /\ apc \in Commands /\ mCommand' = mCommand \o <<apc>> /\ mPlaybackStatus' = mPlaybackStatus
          /\ apc \in {"OPENCHANNEL", "STARTPLAYBACK"}
      BY <2>5 DEF QueueRest, AddCommand, Commands, TypeOK
    <3>2. /\ PausePending' => PausePending
          /\ apc = "STARTPLAYBACK" => ~PausePending'
      BY <1>2, <2>0, <3>1 DEF Clearing
    <3>. QED
      BY <2>1, <3>1, <3>2 DEF FlowInv
  <2>. QED
    BY <1>5, <2>2, <2>3, <2>4, <2>5 DEF AppStep, Queues
<1>6. CASE \E ret \in {"CLOSEBYPEER", "TIMEOUT"} : OnDisconnect(ret)
  <2>1. UNCHANGED <<dpc, apc, mPlaybackStatus, recPaused, mPlaybackHandle>>
    BY <1>6 DEF OnDisconnect, threadVars, linkVars
  <2>2. mCommand' = mCommand \/ mCommand' = mCommand \o <<"CONNECT">>
    BY <1>6 DEF OnDisconnect, AddCommand
  <2>3. PausePending' => PausePending
    <3>1. CASE mCommand' = mCommand
      BY <2>1, <3>1 DEF PausePending
    <3>2. CASE mCommand' = mCommand \o <<"CONNECT">>
      BY <1>2, <2>1, <3>2 DEF Commands
    <3>. QED
      BY <2>2, <3>1, <3>2
  <2>. QED
    BY <2>1, <2>3 DEF FlowInv
<1>. QED
  BY <1>1, <1>3, <1>4, <1>5, <1>6 DEF Next, DecodeStep

-----------------------------------------------------------------------------
(* One source. *)

\* SourceInv, for every step of the task thread.
LEMMA SourceTaskStep ==
  ASSUME TypeOK, LinkInv, HandleInv, Steadily, SourceInv, OrderInv, TaskStep
  PROVE  SourceInv'
<1>0. mCommand \in Seq(Commands)
  BY DEF TypeOK
<1>. USE DEF LinkInv, HandleInv, Steadily, SourceInv, Halfway, Connecting, linkVars, connVars, playVars, At, Pop
<1>1. CASE NoCommand \/ LoopEnd
  BY <1>1 DEF NoCommand, LoopEnd, LiveHere
<1>2. CASE DoDisconnect \/ DoConnectAgain \/ ConnectFailed
  <2>1. Release /\ mRealStatus' = mRealStatus /\ tpc' \in Halfway
    BY <1>2 DEF DoDisconnect, DoConnectAgain, ConnectFailed
  <2>2. ~LiveHere'
    BY <2>1, Released DEF LiveHere
  <2>. QED
    BY <2>1, <2>2, Released
<1>3. CASE DisconnectFlags \/ ReconnectFlags
  BY <1>3 DEF DisconnectFlags, ReconnectFlags, ResetFlags, LiveHere
<1>4. CASE DoConnect \/ OpenNoLink \/ OpenFailed
  <2>1. /\ tpc = "idle" /\ tpc' = "reconnect" /\ UNCHANGED <<linkVars, mRealStatus, liveOpen>>
        /\ ~mHandle
    BY <1>4 DEF DoConnect, OpenNoLink, OpenFailed, TypeOK
  <2>. QED
    BY <2>1 DEF LiveHere
<1>5. CASE OpenOK
  <2>1. ~mPlaybackHandle
    BY <1>0, <1>5, Popped DEF OpenOK, OrderInv
  <2>. QED
    BY <1>5, <2>1 DEF OpenOK, LiveHere
<1>6. CASE DoCloseChannel
  <2>1. ~mPlaybackHandle
    <3>1. mCommand # << >> /\ Head(mCommand) = "CLOSECHANNEL"
      BY <1>6 DEF DoCloseChannel
    <3>2. Has(mCommand, {"CLOSECHANNEL"})
      BY <1>0, <3>1, LenProperties, EmptySeq, HeadTailProperties DEF Has
    <3>. QED
      BY <3>2 DEF OrderInv
  <2>. QED
    BY <1>6, <2>1 DEF DoCloseChannel, StreamEnds, LiveHere
<1>7. CASE CloseNoLink \/ DoUseLink \/ DoPlaybackFlow
  BY <1>7 DEF CloseNoLink, DoUseLink, DoPlaybackFlow, LiveHere
<1>8. CASE ReConnect
  BY <1>8 DEF ReConnect, LiveHere
<1>9. CASE ConnectFallback
  BY <1>9, Ended DEF ConnectFallback
<1>10. CASE ConnectOK
  BY <1>10 DEF ConnectOK, LiveHere
<1>11. CASE DoStartPlayback
  <2>1. ~LiveHere
    BY <1>0, <1>11, Popped DEF DoStartPlayback, OrderInv
  <2>. QED
    BY <1>11, <2>1 DEF DoStartPlayback, LiveHere
<1>12. CASE DoStopPlayback
  BY <1>12 DEF DoStopPlayback, LiveHere
<1>. QED
  BY <1>1, <1>2, <1>3, <1>4, <1>5, <1>6, <1>7, <1>8, <1>9, <1>10, <1>11, <1>12, ZenonT(30) DEF TaskStep

\* OrderInv, for every step of the task thread.
LEMMA OrderTaskStep ==
  ASSUME TypeOK, LinkInv, HandleInv, Steadily, SourceInv, OrderInv, TaskStep
  PROVE  OrderInv'
<1>0. mCommand \in Seq(Commands) /\ apc' = apc
  BY TaskKeeps DEF TypeOK, threadVars
<1>. USE DEF linkVars, playVars, taskVars, At, Pop
<1>1. CASE NoCommand \/ LoopEnd \/ DisconnectFlags \/ ReconnectFlags \/ ReConnect \/ ConnectFallback \/ ConnectOK
  <2>1. UNCHANGED <<mCommand, mPlaybackHandle>>
    BY <1>1, ZenonT(30) DEF NoCommand, LoopEnd, DisconnectFlags, ReconnectFlags, ResetFlags, ReConnect,
                ConnectFallback, ConnectOK
  <2>2. LiveHere' => LiveHere
    <3>1. CASE ConnectFallback
      BY <3>1, Ended, ZenonT(30) DEF ConnectFallback
    <3>2. CASE ~ConnectFallback
      BY <1>1, <3>2, ZenonT(30) DEF NoCommand, LoopEnd, DisconnectFlags, ReconnectFlags, ResetFlags, ReConnect,
                  ConnectOK, LiveHere
    <3>. QED
      BY <3>1, <3>2
  <2>. QED
    BY <1>0, <2>1, <2>2 DEF OrderInv
<1>2. CASE DoDisconnect \/ DoConnectAgain \/ ConnectFailed
  <2>1. ~mPlaybackHandle' /\ ~LiveHere'
    BY <1>2, Released DEF DoDisconnect, DoConnectAgain, ConnectFailed, SourceInv, LiveHere
  <2>2. mCommand' = Purge(mCommand) \/ (mCommand # << >> /\ mCommand' = Purge(Tail(mCommand)))
    BY <1>2 DEF DoDisconnect, DoConnectAgain, ConnectFailed
  <2>3. PICK q \in Seq(Commands) : mCommand' = Purge(q)
    BY <1>0, <2>2, Popped, ZenonT(30)
  <2>4. /\ ~Has(mCommand', {"OPENCHANNEL"}) /\ ~Has(mCommand', {"STARTPLAYBACK"})
        /\ NotAfter(mCommand', "STARTPLAYBACK", "CLOSECHANNEL")
    BY <2>3, Purged
  <2>. QED
    BY <2>1, <2>4 DEF OrderInv
<1>3. ASSUME mCommand # << >>, mCommand' = Tail(mCommand)
      PROVE  /\ Has(mCommand', {"OPENCHANNEL"}) => Has(mCommand, {"OPENCHANNEL"})
             /\ Has(mCommand', {"STARTPLAYBACK"}) => Has(mCommand, {"STARTPLAYBACK"})
             /\ Has(mCommand', {"CLOSECHANNEL"}) => Has(mCommand, {"CLOSECHANNEL"})
             /\ Head(mCommand) # "STOPPLAYBACK" =>
                  /\ Has(mCommand, {"STOPPLAYBACK"}) => Has(mCommand', {"STOPPLAYBACK"})
                  /\ Before(mCommand, "OPENCHANNEL", "STOPPLAYBACK") => Before(mCommand', "OPENCHANNEL", "STOPPLAYBACK")
             /\ Head(mCommand) # "CLOSECHANNEL" =>
                  /\ Has(mCommand, {"CLOSECHANNEL"}) => Has(mCommand', {"CLOSECHANNEL"})
                  /\ Before(mCommand, "STARTPLAYBACK", "CLOSECHANNEL") => Before(mCommand', "STARTPLAYBACK", "CLOSECHANNEL")
             /\ NotAfter(mCommand', "STARTPLAYBACK", "CLOSECHANNEL")
             /\ Head(mCommand) = "STARTPLAYBACK" => ~Has(mCommand', {"CLOSECHANNEL"})
             /\ Has(mCommand, {Head(mCommand)})
  <2>1. Has(mCommand, {Head(mCommand)})
    BY <1>0, <1>3, LenProperties, EmptySeq, HeadTailProperties DEF Has
  <2>2. NotAfter(mCommand, "STARTPLAYBACK", "CLOSECHANNEL")
    BY DEF OrderInv
  <2>. QED
    BY <1>0, <1>3, <2>1, <2>2, Popped
<1>4. CASE DoConnect \/ OpenNoLink \/ OpenFailed \/ DoUseLink \/ DoPlaybackFlow
  <2>1. /\ mCommand # << >> /\ mCommand' = Tail(mCommand)
        /\ Head(mCommand) \notin {"STOPPLAYBACK", "CLOSECHANNEL"}
        /\ UNCHANGED <<mPlaybackHandle, liveOpen, leaked>>
    BY <1>4, ZenonT(30) DEF DoConnect, OpenNoLink, OpenFailed, DoUseLink, DoPlaybackFlow
  <2>2. LiveHere' => LiveHere
    BY <2>1, ZenonT(30) DEF LiveHere
  <2>. QED
    BY <1>0, <1>3, <2>1, <2>2 DEF OrderInv
<1>5. CASE CloseNoLink \/ DoCloseChannel
  <2>1. /\ mCommand # << >> /\ mCommand' = Tail(mCommand)
        /\ Head(mCommand) = "CLOSECHANNEL"
        /\ ~LiveHere' /\ mPlaybackHandle' = mPlaybackHandle
    <3>1. CASE CloseNoLink
      BY <3>1 DEF CloseNoLink, SourceInv, LiveHere
    <3>2. CASE DoCloseChannel
      <4>1. StreamEnds /\ UNCHANGED <<leaked, mPlaybackHandle>>
        BY <3>2, ZenonT(30) DEF DoCloseChannel, Steadily
      <4>. QED
        BY <3>2, <4>1, Ended, ZenonT(30) DEF DoCloseChannel
    <3>. QED
      BY <1>5, <3>1, <3>2
  <2>. QED
    BY <1>0, <1>3, <2>1 DEF OrderInv
<1>6. CASE OpenOK
  <2>1. /\ mCommand # << >> /\ mCommand' = Tail(mCommand)
        /\ Head(mCommand) = "OPENCHANNEL" /\ mPlaybackHandle' = mPlaybackHandle
    BY <1>6 DEF OpenOK
  <2>2. ~mPlaybackHandle'
    BY <1>0, <2>1, Popped DEF OrderInv
  <2>3. ~Has(mCommand', {"STARTPLAYBACK"}) /\ apc # "STARTPLAYBACK"
    BY <1>3, <2>1, ZenonT(30) DEF OrderInv
  <2>4. Before(mCommand', "STARTPLAYBACK", "CLOSECHANNEL")
    BY <2>3 DEF Before, Has
  <2>. QED
    BY <1>0, <1>3, <2>1, <2>2, <2>3, <2>4 DEF OrderInv
<1>7. CASE DoStartPlayback
  <2>1. /\ mCommand # << >> /\ mCommand' = Tail(mCommand)
        /\ Head(mCommand) = "STARTPLAYBACK" /\ LiveHere' = LiveHere
    BY <1>7 DEF DoStartPlayback, LiveHere
  <2>2. ~LiveHere'
    BY <1>0, <2>1, Popped DEF OrderInv
  <2>3. ~Has(mCommand', {"OPENCHANNEL"}) /\ apc # "OPENCHANNEL" /\ ~Has(mCommand', {"CLOSECHANNEL"})
    BY <1>3, <2>1, ZenonT(30) DEF OrderInv
  <2>4. Before(mCommand', "OPENCHANNEL", "STOPPLAYBACK")
    BY <2>3 DEF Before, Has
  <2>. QED
    BY <1>0, <1>3, <2>1, <2>2, <2>3, <2>4 DEF OrderInv
<1>8. CASE DoStopPlayback
  <2>1. /\ mCommand # << >> /\ mCommand' = Tail(mCommand)
        /\ Head(mCommand) = "STOPPLAYBACK" /\ LiveHere' = LiveHere /\ ~mPlaybackHandle'
    BY <1>8 DEF DoStopPlayback, LinkInv, LiveHere
  <2>. QED
    BY <1>0, <1>3, <2>1 DEF OrderInv
<1>. QED
  BY <1>1, <1>2, <1>4, <1>5, <1>6, <1>7, <1>8 DEF TaskStep

\* ShownInv, for every step of the task thread.
LEMMA ShownTaskStep ==
  ASSUME TypeOK, LinkInv, HandleInv, Steadily, SourceInv, OrderInv, ShownInv, TaskStep
  PROVE  ShownInv'
<1>0. mCommand \in Seq(Commands) /\ app' = app
  BY TaskKeeps DEF TypeOK, countVars
<1>. USE DEF linkVars, playVars, taskVars, At, Pop, Halfway, Connecting
<1>1. CASE NoCommand \/ LoopEnd
  BY <1>0, <1>1 DEF NoCommand, LoopEnd, ShownInv
<1>2. CASE DoDisconnect \/ DoConnectAgain \/ ConnectFailed
  BY <1>2 DEF DoDisconnect, DoConnectAgain, ConnectFailed, ShownInv
<1>3. CASE DisconnectFlags \/ ReconnectFlags
  BY <1>3 DEF DisconnectFlags, ReconnectFlags, ResetFlags, ShownInv
<1>4. CASE ReConnect \/ ConnectFallback \/ ConnectOK \/ DoConnect \/ OpenNoLink \/ OpenFailed \/ CloseNoLink
  <2>1. mRealStatus' # "REAL"
    BY <1>4, ZenonT(30) DEF ReConnect, ConnectFallback, ConnectOK, DoConnect, OpenNoLink, OpenFailed, CloseNoLink,
                SourceInv, HandleInv, Steadily
  <2>. QED
    BY <2>1 DEF ShownInv
<1>5. CASE OpenOK
  BY <1>5 DEF OpenOK, ShownInv
<1>6. CASE DoCloseChannel
  <2>1. mRealStatus' # "REAL"
    BY <1>6 DEF DoCloseChannel, Steadily
  <2>. QED
    BY <2>1 DEF ShownInv
<1>7. ASSUME mCommand # << >>, mCommand' = Tail(mCommand), Head(mCommand) # "CLOSECHANNEL",
             Has(mCommand, {"CLOSECHANNEL"})
      PROVE  Has(mCommand', {"CLOSECHANNEL"})
  BY <1>0, <1>7, Popped
<1>8. CASE DoStartPlayback
  <2>1. /\ tpc = "idle" /\ mCommand # << >> /\ mCommand' = Tail(mCommand)
        /\ Head(mCommand) = "STARTPLAYBACK"
    BY <1>8 DEF DoStartPlayback
  <2>2. mRealStatus' # "RECORD" => UNCHANGED <<mRealStatus, mAddBuffer, mDecodeStatus>>
    BY <1>8 DEF DoStartPlayback
  <2>. QED
    BY <1>0, <1>7, <2>1, <2>2 DEF ShownInv
<1>9. CASE DoStopPlayback \/ DoUseLink \/ DoPlaybackFlow
  <2>1. /\ tpc = "idle" /\ mCommand # << >> /\ mCommand' = Tail(mCommand)
        /\ Head(mCommand) # "CLOSECHANNEL" /\ UNCHANGED <<mRealStatus, mAddBuffer>>
    BY <1>9 DEF DoStopPlayback, DoUseLink, DoPlaybackFlow
  <2>2. mRealStatus = "REAL" => mDecodeStatus' = mDecodeStatus
    BY <1>9 DEF DoStopPlayback, DoUseLink, DoPlaybackFlow, SourceInv
  <2>. QED
    BY <1>0, <1>7, <2>1, <2>2 DEF ShownInv
<1>. QED
  BY <1>1, <1>2, <1>3, <1>4, <1>5, <1>6, <1>8, <1>9 DEF TaskStep

\* The commands that turn no stream on and no live stream off.
Harmless == {"CONNECT", "DISCONNECT", "STOPPLAYBACK", "USE", "PAUSE", "CONTINUE"}

\* What the other threads may do to the queue of a patient application: add a
\* command about the flow or the connection at any time, what CloseChannel and
\* StopPlayback add when the queue is empty, and the rest of a call.
LEMMA PatientStep ==
  ASSUME TypeOK, Steadily, LinkInv, SourceInv,
         DecodeStep \/ AppStep \/ \E ret \in {"CLOSEBYPEER", "TIMEOUT"} : OnDisconnect(ret)
  PROVE  /\ liveOpen' => liveOpen
         /\ "SetGate" \notin app.calls => mDecodeStatus' = mDecodeStatus \/ mDecodeStatus' = 1
         /\ \/ /\ mCommand' = mCommand /\ mAddBuffer' = mAddBuffer
               /\ apc' = apc \/ apc' \in {"resume", "join1", "join2", "deleted"}
            \/ /\ \E c \in {"PAUSE", "CONTINUE", "CONNECT"} : mCommand' = mCommand \o <<c>>
               /\ apc' = apc /\ mAddBuffer' = mAddBuffer
            \/ /\ apc \in {"OPENCHANNEL", "STARTPLAYBACK"} /\ mCommand' = mCommand \o <<apc>>
               /\ apc' = "idle" /\ mAddBuffer' = mAddBuffer
            \/ /\ Settled /\ apc' \in {"idle", "OPENCHANNEL"} /\ mAddBuffer' = mAddBuffer
               /\ \E c \in Harmless :
                    /\ mCommand' = mCommand \o <<c>>
                    /\ apc' = "OPENCHANNEL" => c = "STOPPLAYBACK"
            \/ /\ Settled /\ apc' = "idle" /\ mAddBuffer' = mAddBuffer
               /\ mCommand' = mCommand \o <<"OPENCHANNEL">> /\ mRealStatus # "RECORD"
            \/ /\ Settled /\ apc' \in {"idle", "STARTPLAYBACK"} /\ mRealStatus = "REAL"
               /\ mCommand' = mCommand \o <<"CLOSECHANNEL">>
            \/ /\ Settled /\ apc' = "STARTPLAYBACK" /\ mRealStatus # "REAL"
               /\ mCommand' = mCommand \o << >> \/ mCommand' = mCommand \o <<"STOPPLAYBACK">>
<1>1. CASE DecodeStep
  <2>1. UNCHANGED <<liveOpen, mDecodeStatus, apc, mAddBuffer>>
    BY <1>1, ZenonT(30) DEF DecodeStep, DecodeTop, DecodeGate, DecodeFrame, DecideFlow, SendFlow, NoteFlow, playVars
  <2>2. mCommand' = mCommand \/ \E c \in {"PAUSE", "CONTINUE", "CONNECT"} : mCommand' = mCommand \o <<c>>
    BY <1>1, ZenonT(30) DEF DecodeStep, DecodeTop, DecodeGate, DecodeFrame, DecideFlow, SendFlow, NoteFlow, AddCommand, taskVars
  <2>. QED
    BY <2>1, <2>2, ZenonT(30)
<1>2. CASE AppStep
  <2>1. CASE Connect \/ Disconnect \/ Queues
    <3>1. Settled /\ UNCHANGED <<liveOpen, mDecodeStatus, apc, mAddBuffer>> /\ apc = "idle"
      BY <2>1, ZenonT(30) DEF Connect, Disconnect, Queues, Queue, MayCall, Steadily, Settled
    <3>2. \E c \in Harmless : mCommand' = mCommand \o <<c>>
      BY <2>1, ZenonT(30) DEF Connect, Disconnect, Queues, Queue, AddCommand, Harmless
    <3>3. apc' # "OPENCHANNEL" /\ apc' \in {"idle", "OPENCHANNEL"}
      BY <3>1
    <3>4. \E c \in Harmless : mCommand' = mCommand \o <<c>> /\ (apc' = "OPENCHANNEL" => c = "STOPPLAYBACK")
      BY <3>2, <3>3, ZenonT(30)
    <3>5. /\ liveOpen' => liveOpen
          /\ "SetGate" \notin app.calls => mDecodeStatus' = mDecodeStatus \/ mDecodeStatus' = 1
      BY <3>1, ZenonT(30)
    <3>. QED
      BY <3>1, <3>3, <3>4, <3>5, ZenonT(30)
  <2>2. CASE OpenChannel
    <3>1. Settled /\ UNCHANGED <<liveOpen, mDecodeStatus, mAddBuffer>> /\ apc = "idle"
      BY <2>2, ZenonT(30) DEF OpenChannel, MayCall, Steadily, Settled
    <3>2. \/ mCommand' = mCommand \o <<"STOPPLAYBACK">> /\ apc' = "OPENCHANNEL"
          \/ mCommand' = mCommand \o <<"OPENCHANNEL">> /\ apc' = apc /\ mRealStatus # "RECORD"
      BY <2>2 DEF OpenChannel, AddCommand
    <3>3. "STOPPLAYBACK" \in Harmless
      BY DEF Harmless
    <3>4. CASE mCommand' = mCommand \o <<"STOPPLAYBACK">> /\ apc' = "OPENCHANNEL"
      BY <3>1, <3>3, <3>4, ZenonT(30)
    <3>5. CASE mCommand' = mCommand \o <<"OPENCHANNEL">> /\ apc' = apc /\ mRealStatus # "RECORD"
      BY <3>1, <3>5, ZenonT(30)
    <3>. QED
      BY <3>2, <3>4, <3>5, ZenonT(30)
  <2>3. CASE CloseChannel
    BY <2>3, ZenonT(30) DEF CloseChannel, MayCall, AddCommand, Steadily, Settled
  <2>4. CASE StartPlayback
    <3>1. Settled /\ apc' = "STARTPLAYBACK" /\ UNCHANGED <<liveOpen, mDecodeStatus>>
      BY <2>4 DEF StartPlayback, MayCall, Steadily, Settled
    <3>2. \/ mRealStatus = "REAL" /\ mCommand' = mCommand \o <<"CLOSECHANNEL">>
          \/ mRealStatus # "REAL" /\ mCommand' = mCommand \o << >>
          \/ mRealStatus # "REAL" /\ mCommand' = mCommand \o <<"STOPPLAYBACK">>
      BY <2>4 DEF StartPlayback, AddCommand, TypeOK
    <3>. QED
      BY <3>1, <3>2
  <2>5. CASE SetGate
    BY <2>5 DEF SetGate, taskVars, threadVars
  <2>6. CASE QueueRest
    BY <2>6, ZenonT(30) DEF QueueRest, AddCommand, playVars, TypeOK, Commands
  <2>7. CASE Destroy \/ DestroyStep
    <3>1. /\ UNCHANGED <<mCommand, liveOpen, mAddBuffer>>
          /\ mDecodeStatus' = mDecodeStatus \/ mDecodeStatus' = 1
      BY <2>7, ZenonT(30) DEF Destroy, DestroyStep, DestroyResume, DestroyJoin, taskVars, playVars
    <3>2. apc' \in {"resume", "join1", "join2", "deleted"}
      BY <2>7, ZenonT(30) DEF Destroy, DestroyStep, DestroyResume, DestroyJoin
    <3>. QED
      BY <3>1, <3>2, ZenonT(30)
  <2>. QED
    BY <1>2, <2>1, <2>2, <2>3, <2>4, <2>5, <2>6, <2>7, ZenonT(30) DEF AppStep, Queues
<1>3. CASE \E ret \in {"CLOSEBYPEER", "TIMEOUT"} : OnDisconnect(ret)
  <2>1. liveOpen' => liveOpen
    BY <1>3, ZenonT(30) DEF OnDisconnect
  <2>2. /\ UNCHANGED <<mDecodeStatus, mAddBuffer, apc>>
        /\ mCommand' = mCommand \/ mCommand' = mCommand \o <<"CONNECT">>
    BY <1>3 DEF OnDisconnect, AddCommand, threadVars
  <2>. QED
    BY <2>1, <2>2
<1>. QED
  BY <1>1, <1>2, <1>3, ZenonT(30)

\* The steps of the other threads.
LEMMA OtherSourceStep ==
  ASSUME TypeOK, Steadily, LinkInv, SourceInv, OrderInv, ShownInv,
         DecodeStep \/ AppStep \/ \E ret \in {"CLOSEBYPEER", "TIMEOUT"} : OnDisconnect(ret)
  PROVE  SourceInv' /\ OrderInv' /\ ShownInv'
<1>0. /\ mCommand \in Seq(Commands)
      /\ UNCHANGED <<tpc, mP2p, mHandle, mPlaybackHandle, mRealStatus, app>>
      /\ LiveHere' => LiveHere
      /\ "SetGate" \notin app.calls => mDecodeStatus' = mDecodeStatus \/ mDecodeStatus' = 1
  BY OnlyTask, PatientStep, ZenonT(30) DEF TypeOK, linkVars, LiveHere
<1>1. SourceInv'
  BY <1>0, ZenonT(30) DEF SourceInv
<1>2. ASSUME NEW c \in Commands, mCommand' = mCommand \o <<c>>
      PROVE  /\ \A C : Has(mCommand', C) <=> Has(mCommand, C) \/ c \in C
             /\ \A x, d : Before(mCommand, x, d) /\ (c = x => Has(mCommand, {d})) => Before(mCommand', x, d)
             /\ \A x, d : NotAfter(mCommand, x, d) /\ (c = d => ~Has(mCommand, {x})) => NotAfter(mCommand', x, d)
  BY <1>0, <1>2, Added, ZenonT(30)
<1>3. ASSUME Settled
      PROVE  /\ \A C : ~Has(mCommand, C)
             /\ \A c, d : Before(mCommand, c, d) /\ NotAfter(mCommand, c, d)
  BY <1>3, Empty DEF Settled
<1>4. mCommand \o << >> = mCommand
  BY <1>0, ConcatEmptySeq
<1>5. CASE /\ mCommand' = mCommand /\ mAddBuffer' = mAddBuffer
           /\ apc' = apc \/ apc' \in {"resume", "join1", "join2", "deleted"}
  BY <1>0, <1>1, <1>5, ZenonT(30) DEF OrderInv, ShownInv
<1>6. CASE /\ \E c \in {"PAUSE", "CONTINUE", "CONNECT"} : mCommand' = mCommand \o <<c>>
           /\ apc' = apc /\ mAddBuffer' = mAddBuffer
  <2>1. PICK c \in {"PAUSE", "CONTINUE", "CONNECT"} : mCommand' = mCommand \o <<c>>
    BY <1>6
  <2>2. c \in Commands
    BY DEF Commands
  <2>3. OrderInv'
    BY <1>0, <1>2, <1>6, <2>1, <2>2, ZenonT(30) DEF OrderInv
  <2>4. ShownInv'
    BY <1>0, <1>2, <1>6, <2>1, <2>2, ZenonT(30) DEF ShownInv
  <2>. QED
    BY <1>1, <2>3, <2>4
<1>7. CASE /\ apc \in {"OPENCHANNEL", "STARTPLAYBACK"} /\ mCommand' = mCommand \o <<apc>>
           /\ apc' = "idle" /\ mAddBuffer' = mAddBuffer
  <2>1. apc \in Commands
    BY <1>7 DEF Commands
  <2>2. OrderInv'
    <3>1. CASE apc = "OPENCHANNEL"
      BY <1>0, <1>2, <1>7, <2>1, <3>1, ZenonT(30) DEF OrderInv
    <3>2. CASE apc = "STARTPLAYBACK"
      BY <1>0, <1>2, <1>7, <2>1, <3>2, ZenonT(30) DEF OrderInv
    <3>. QED
      BY <1>7, <3>1, <3>2
  <2>3. ShownInv'
    BY <1>0, <1>2, <1>7, <2>1, ZenonT(30) DEF ShownInv
  <2>. QED
    BY <1>1, <2>2, <2>3
<1>8. CASE /\ Settled /\ apc' \in {"idle", "OPENCHANNEL"} /\ mAddBuffer' = mAddBuffer
           /\ \E c \in Harmless :
                /\ mCommand' = mCommand \o <<c>>
                /\ apc' = "OPENCHANNEL" => c = "STOPPLAYBACK"
  <2>1. PICK c \in Harmless :
                /\ mCommand' = mCommand \o <<c>>
                /\ apc' = "OPENCHANNEL" => c = "STOPPLAYBACK"
    BY <1>8
  <2>2. c \in Commands /\ c \notin {"OPENCHANNEL", "STARTPLAYBACK", "CLOSECHANNEL"}
    BY DEF Commands, Harmless
  <2>3. OrderInv'
    BY <1>0, <1>2, <1>3, <1>8, <2>1, <2>2, ZenonT(30) DEF OrderInv
  <2>4. ShownInv'
    BY <1>0, <1>2, <1>3, <1>8, <2>1, <2>2, ZenonT(30) DEF ShownInv
  <2>. QED
    BY <1>1, <2>3, <2>4
<1>9. CASE /\ Settled /\ apc' = "idle" /\ mAddBuffer' = mAddBuffer
           /\ mCommand' = mCommand \o <<"OPENCHANNEL">> /\ mRealStatus # "RECORD"
  <2>1. "OPENCHANNEL" \in Commands /\ ~mPlaybackHandle'
    BY <1>0, <1>9, ZenonT(30) DEF Commands, SourceInv
  <2>2. OrderInv'
    BY <1>0, <1>2, <1>3, <1>9, <2>1, ZenonT(30) DEF OrderInv
  <2>3. ShownInv'
    BY <1>0, <1>2, <1>3, <1>9, <2>1, ZenonT(30) DEF ShownInv
  <2>. QED
    BY <1>1, <2>2, <2>3
<1>10. CASE /\ Settled /\ apc' \in {"idle", "STARTPLAYBACK"} /\ mRealStatus = "REAL"
            /\ mCommand' = mCommand \o <<"CLOSECHANNEL">>
  <2>1. "CLOSECHANNEL" \in Commands /\ ~mPlaybackHandle'
    BY <1>0, <1>10 DEF Commands, SourceInv
  <2>2. OrderInv'
    BY <1>0, <1>2, <1>3, <1>10, <2>1, ZenonT(30) DEF OrderInv
  <2>3. ShownInv'
    BY <1>0, <1>2, <1>3, <1>10, <2>1, ZenonT(30) DEF ShownInv
  <2>. QED
    BY <1>1, <2>2, <2>3
<1>11. CASE /\ Settled /\ apc' = "STARTPLAYBACK" /\ mRealStatus # "REAL"
            /\ mCommand' = mCommand \o << >> \/ mCommand' = mCommand \o <<"STOPPLAYBACK">>
  <2>1. "STOPPLAYBACK" \in Commands /\ ~LiveHere'
    BY <1>0, <1>11 DEF Commands, SourceInv
  <2>2. OrderInv'
    <3>1. CASE mCommand' = mCommand
      BY <1>0, <1>3, <1>11, <2>1, <3>1, ZenonT(30) DEF OrderInv
    <3>2. CASE mCommand' = mCommand \o <<"STOPPLAYBACK">>
      BY <1>0, <1>2, <1>3, <1>11, <2>1, <3>2, ZenonT(30) DEF OrderInv
    <3>. QED
      BY <1>4, <1>11, <3>1, <3>2
  <2>3. ShownInv'
    BY <1>0, <1>11 DEF ShownInv
  <2>. QED
    BY <1>1, <2>2, <2>3
<1>. QED
  BY <1>5, <1>6, <1>7, <1>8, <1>9, <1>10, <1>11, PatientStep, ZenonT(30)

-----------------------------------------------------------------------------
(* The invariant and what follows from it. *)

\* The invariant holds of a new JAConnect object.
LEMMA InitIInv == Init => IInv
<1>. SUFFICES ASSUME Init
              PROVE  IInv
  OBVIOUS
<1>1. TypeOK
  <2>1. /\ mCommand \in Seq(Commands) /\ app \in Apps
        /\ app.maxCalls \in Nat /\ app.maxPeer \in Nat /\ app.maxFlow \in Nat
    BY TaskAssumption, EmptySeq DEF Init
  <2>2. Flags
    BY ZenonT(30) DEF Init, Flags
  <2>3. Others
    BY <2>1 DEF Init, Others
  <2>. QED
    BY <2>2, <2>3 DEF TypeOK, Flags, Others
<1>2. LinkInv /\ HandleInv
  BY DEF Init, LinkInv, HandleInv, Halfway, Connecting
<1>3. FlowInv
  BY Empty DEF Init, FlowInv, PausePending
<1>4. SourceInv /\ OrderInv /\ ShownInv
  BY Empty DEF Init, SourceInv, OrderInv, ShownInv, Halfway, Connecting, LiveHere
<1>. QED
  BY <1>1, <1>2, <1>3, <1>4 DEF IInv

\* Every step of any thread keeps it.
LEMMA NextIInv ==
  ASSUME IInv, Next
  PROVE  IInv'
<1>. USE DEF IInv
<1>1. TypeOK'
  BY TypeStep
<1>2. LinkInv' /\ HandleInv'
  BY LinkStep
<1>0. app' = app
  <2>1. CASE TaskStep
    BY <2>1, TaskKeeps DEF countVars
  <2>2. CASE DecodeStep \/ AppStep \/ \E ret \in {"CLOSEBYPEER", "TIMEOUT"} : OnDisconnect(ret)
    BY <2>2, OnlyTask
  <2>. QED
    BY <2>1, <2>2 DEF Next
<1>3. ASSUME Throttling'
      PROVE  FlowInv'
  <2>1. Throttling
    BY <1>0, <1>3 DEF Throttling
  <2>. QED
    BY <2>1, FlowStep
<1>4. ASSUME Steadily'
      PROVE  SourceInv' /\ OrderInv' /\ ShownInv'
  <2>2. Steadily
    BY <1>0, <1>4 DEF Steadily
  <2>3. CASE TaskStep
    BY <2>2, <2>3, SourceTaskStep, OrderTaskStep, ShownTaskStep
  <2>4. CASE DecodeStep \/ AppStep \/ \E ret \in {"CLOSEBYPEER", "TIMEOUT"} : OnDisconnect(ret)
    BY <2>2, <2>4, OtherSourceStep
  <2>. QED
    BY <2>3, <2>4 DEF Next
<1>. QED
  BY <1>1, <1>2, <1>3, <1>4

\* The inductive invariant holds in every execution, whatever the application,
\* the camera and the schedule of the threads.
THEOREM Invariance == Spec => []IInv
<1>1. IInv /\ UNCHANGED vars => IInv'
  <2>. SUFFICES ASSUME IInv, UNCHANGED vars
                PROVE  IInv'
    OBVIOUS
  <2>. USE DEF IInv, vars, taskVars, linkVars, connVars, playVars, threadVars, countVars
  <2>1. TypeOK'
    BY DEF TypeOK
  <2>2. LinkInv' /\ HandleInv'
    BY DEF LinkInv, HandleInv
  <2>3. Throttling' => FlowInv'
    BY DEF Throttling, FlowInv, PausePending
  <2>4. Steadily' => SourceInv' /\ OrderInv' /\ ShownInv'
    BY ZenonT(30) DEF Steadily, SourceInv, OrderInv, ShownInv, LiveHere
  <2>. QED
    BY <2>1, <2>2, <2>3, <2>4
<1>2. IInv /\ [Next]_vars => IInv'
  BY <1>1, NextIInv
<1>. QED
  BY InitIInv, <1>2, PTL DEF Spec

\* Every variable keeps its type; in particular cmdcount, the task thread's count
\* of the commands left, never goes below zero.
THEOREM TypeCorrect == Spec => []TypeOK
BY Invariance, PTL DEF IInv

\* A handler of the task thread that tests mIsConnected, mPlaybackHandle or
\* mDataHandle finds a link behind it, however commands, disconnections and
\* failed connections interleave.
THEOREM HandlersFindLink == Spec => []HandlersHaveLink
<1>1. IInv => HandlersHaveLink
  BY DEF IInv, LinkInv, HandlersHaveLink, Halfway
<1>. QED
  BY <1>1, Invariance, PTL

\* As long as the application leaves PlaybackPauseGetData to the decode thread and
\* the camera does as it is told: a recording that the camera has paused is one whose
\* decode thread knows it and will send CONTINUE, for any number of decisions and of
\* restarts of the playback, and with streams that fail.
THEOREM FlowGoesOn == Spec => []FlowNotStuck
<1>1. IInv => FlowNotStuck
  BY Empty DEF IInv, FlowInv, FlowNotStuck, PausePending
<1>. QED
  BY <1>1, Invariance, PTL

\* A live stream and a recording of the link that the object has never feed the ring
\* together once the queue has settled, for every patient application whose streams
\* do not fail and that has left no shared link to others.
THEOREM SourcesExclude == Spec => []OneSource
<1>1. IInv => OneSource
  BY DEF IInv, SourceInv, Steadily, OneSource, LiveHere
<1>. QED
  BY <1>1, Invariance, PTL

\* A channel that GetRealStatus reports as live has a connection, accepts frames
\* and is decoded.
THEOREM LiveShown == Spec => []LiveIsShown
<1>1. IInv => LiveIsShown
  BY Empty DEF IInv, SourceInv, HandleInv, ShownInv, Steadily, Settled, LiveIsShown, Halfway, Connecting
<1>. QED
  BY <1>1, Invariance, PTL
=============================================================================
