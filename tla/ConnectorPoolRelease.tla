------------------------ MODULE ConnectorPoolRelease -------------------------
(***************************************************************************)
(* The links that channels share: the inductive invariant, and the steps   *)
(* for what it says of types, of who holds a connector and of its release. *)
(***************************************************************************)
EXTENDS ConnectorPool, FiniteSetTheorems, TLAPS

\* A leaf that names no prover is tried with the SMT solver, a second time when its
\* translation does not finish, and then with Zenon.
USE SMTT(30), Z3T(30), ZenonT(30)

-----------------------------------------------------------------------------
(* The inductive invariant. *)

Holders(k) == {c \in Channels : mP2p[c] = k}

\* Whatever has happened: the task threads past CreateConnector have a connector,
\* and one connector is in the list.
HoldInv ==
  /\ \A c \in Channels : mP2p[c] = 0 => st[c] \in {"idle", "create", "old"}
  /\ \A i, j \in Conns : conn[i].listed /\ conn[j].listed => i = j

\* A callback queues at most two CMD_CONNECT for a channel, one as the global
\* context and one for its stream.
Twice == {k \in Conns : cb[k] \in {"ring", "global"}}
Once == {k \in Conns : cb[k] = "streams"}
ToldInv == \A c \in Channels : told[c] + 2 * Cardinality(Twice) + Cardinality(Once) <= session.maxTold

\* Without a race of DestroyConnector: mUse is right, with the counts that were
\* left behind; a channel in DestroyConnector past GetUse() is the only one there,
\* and it removes the connector exactly when nothing else is counted.
Past == {"drop", "remove", "close", "delete"}
UsesAt(k) ==
  /\ conn[k].mUse = Cardinality(Holders(k)) + lost[k]
  /\ conn[k].alive <=> conn[k].mUse > 0
  /\ conn[k].listed => conn[k].alive
HoldsAt(c) ==
  /\ mP2p[c] # 0 /\ st[c] \notin {"close", "delete"} => conn[mP2p[c]].listed
  /\ st[c] \in {"connect", "dial", "store", "up"} => conn[mP2p[c]].mHandle \/ refused[mP2p[c]]
  /\ st[c] \in {"dial", "store"} => conn[mP2p[c]].lock = c /\ conn[mP2p[c]].mHandle
  /\ st[c] = "drop" => conn[mP2p[c]].mUse > 1
  /\ st[c] \in {"remove", "close", "delete"} => conn[mP2p[c]].mUse = 1
  /\ st[c] \in Past => ~Releasing(c, mP2p[c])
ReleaseInv == (\A k \in Conns : UsesAt(k)) /\ \A c \in Channels : HoldsAt(c)

\* Without any race: the cached success, the link and the callback of a connector
\* belong together, and a channel that dials finds no link and no callback.
Storing(k) == \E c \in Channels : st[c] = "store" /\ mP2p[c] = k /\ dialed[c] = "ok"
LinkAt(k) ==
  /\ link[k] = "up" \/ cb[k] # "none" =>
       conn[k].mHandle /\ ~conn[k].mDoneDisconnect /\ (conn[k].mConnectResult = "ok" \/ Storing(k))
  /\ cb[k] # "none" => link[k] = "down"
  /\ conn[k].listed /\ conn[k].mConnectResult = "ok" => link[k] = "up" \/ cb[k] # "none"
  /\ conn[k].mHandle => conn[k].alive
DialAt(c) ==
  /\ st[c] = "dial" \/ (st[c] = "store" /\ dialed[c] # "ok") => link[mP2p[c]] # "up" /\ cb[mP2p[c]] = "none"
  /\ st[c] \in {"dial", "store"} => conn[mP2p[c]].mConnectResult = "unset"
  /\ st[c] = "dial" => ~conn[mP2p[c]].mDoneDisconnect
  /\ st[c] = "delete" => ~conn[mP2p[c]].mHandle
LinkInv == (\A k \in Conns : LinkAt(k)) /\ \A c \in Channels : DialAt(c)

\* Without any race: a connected channel was told so and is not refused, so that
\* OnDisconnect queues a CMD_CONNECT for it when its stream is on a dead link.
KnownAt(c) == st[c] = "up" => known[c] /\ ~badPwd[c]
ToldAt(c) ==
  st[c] = "up" /\ c \in conn[mP2p[c]].live /\ link[mP2p[c]] # "up" =>
    told[c] > 0 \/ cb[mP2p[c]] \in {"ring", "global", "streams"}
StreamInv == \A c \in Channels : KnownAt(c) /\ ToldAt(c)

IInv ==
  /\ TypeOK /\ HoldInv /\ ToldInv
  /\ "release" \notin raced => ReleaseInv
  /\ raced = {} => LinkInv /\ StreamInv

-----------------------------------------------------------------------------
(* Channels, connectors and who holds them. *)

\* There are finitely many channels and connectors, and 0, which stands for no
\* connector and no context, is neither.
LEMMA Sizes ==
  /\ IsFiniteSet(Channels) /\ Cardinality(Channels) \in Nat /\ IsFiniteSet(Conns)
  /\ Conns \subseteq Nat \ {0} /\ NoOne \notin Channels /\ NoOne \notin Conns
<1>1. IsFiniteSet(Channels) /\ Links \in Nat /\ NoOne \notin Channels
  BY PoolAssumption DEF NoOne
<1>2. IsFiniteSet(Conns)
  BY <1>1, FS_Interval DEF Conns
<1>3. Cardinality(Channels) \in Nat
  BY <1>1, FS_CardinalityType
<1>. QED
  BY <1>1, <1>2, <1>3 DEF Conns, NoOne

\* The session bounds the commands and the faults, and its answers are results.
LEMMA Bounds ==
  ASSUME TypeOK
  PROVE  session.maxTold \in Nat /\ session.maxFaults \in Nat /\ session.answers \subseteq Results
BY PoolAssumption DEF TypeOK

\* A connector has finitely many holders, no more than there are channels.
LEMMA HoldersFinite ==
  ASSUME NEW k
  PROVE  /\ IsFiniteSet(Holders(k)) /\ Cardinality(Holders(k)) \in Nat
         /\ Cardinality(Holders(k)) <= Cardinality(Channels)
<1>1. Holders(k) \in SUBSET Channels
  BY DEF Holders
<1>2. IsFiniteSet(Holders(k)) /\ Cardinality(Holders(k)) <= Cardinality(Channels)
  BY <1>1, Sizes, FS_Subset, ZenonT(30)
<1>. QED
  BY <1>2, FS_CardinalityType

\* No holder, one, or more.
LEMMA HolderCounts ==
  ASSUME NEW k, NEW c \in Channels, mP2p[c] = k
  PROVE  /\ Cardinality(Holders(k)) > 0
         /\ Cardinality(Holders(k)) > 1 <=> \E d \in Channels \ {c} : mP2p[d] = k
<1>1. c \in Holders(k) /\ IsFiniteSet(Holders(k)) /\ Cardinality(Holders(k)) \in Nat
  BY HoldersFinite DEF Holders
<1>2. /\ IsFiniteSet(Holders(k) \ {c})
      /\ Cardinality(Holders(k) \ {c}) = Cardinality(Holders(k)) - 1
  BY <1>1, FS_RemoveElement
<1>3. Cardinality(Holders(k) \ {c}) \in Nat /\ (Cardinality(Holders(k) \ {c}) = 0 <=> Holders(k) \ {c} = {})
  BY <1>2, FS_CardinalityType, FS_EmptySet, ZenonT(30)
<1>4. Holders(k) \ {c} = {} <=> ~\E d \in Channels \ {c} : mP2p[d] = k
  BY DEF Holders
<1>. QED
  BY <1>1, <1>2, <1>3, <1>4

\* ReConnect sets mP2p: the counts grow by one at the new connector only, and a
\* connector that the channel still held keeps its count.
LEMMA Overwritten ==
  ASSUME TypeOK, NEW c \in Channels, NEW k \in Conns, Overwrite(c, k)
  PROVE  /\ Cardinality(Holders(k)') + lost'[k] = Cardinality(Holders(k)) + lost[k] + 1
         /\ \A i \in Conns \ {k} : Cardinality(Holders(i)') + lost'[i] = Cardinality(Holders(i)) + lost[i]
         /\ mP2p' = [mP2p EXCEPT ![c] = k] /\ mP2p'[c] = k /\ lost' \in [Conns -> Nat]
<1>0. /\ mP2p' = [mP2p EXCEPT ![c] = k] /\ mP2p \in [Channels -> Conns \cup {0}] /\ lost \in [Conns -> Nat]
      /\ lost' = [i \in Conns |-> IF i = mP2p[c] THEN lost[i] + 1 ELSE lost[i]]
  BY DEF Overwrite, TypeOK
<1>1. lost' \in [Conns -> Nat] /\ mP2p'[c] = k
  BY <1>0
<1>2. ASSUME NEW i \in Conns
      PROVE  /\ lost'[i] = IF i = mP2p[c] THEN lost[i] + 1 ELSE lost[i]
             /\ IsFiniteSet(Holders(i)) /\ Cardinality(Holders(i)) \in Nat /\ lost[i] \in Nat
  BY <1>0, HoldersFinite
<1>3. ASSUME NEW i \in Conns \ {k}
      PROVE  Cardinality(Holders(i)') + lost'[i] = Cardinality(Holders(i)) + lost[i]
  <2>1. CASE i = mP2p[c]
    <3>1. Holders(i)' = Holders(i) \ {c} /\ c \in Holders(i)
      BY <1>0, <2>1 DEF Holders
    <3>2. Cardinality(Holders(i) \ {c}) = Cardinality(Holders(i)) - 1
      BY <1>2, <3>1, FS_RemoveElement, ZenonT(30)
    <3>. QED
      BY <1>2, <2>1, <3>1, <3>2
  <2>2. CASE i # mP2p[c]
    <3>1. Holders(i)' = Holders(i)
      BY <1>0, <2>2 DEF Holders
    <3>. QED
      BY <1>2, <2>2, <3>1
  <2>. QED
    BY <2>1, <2>2
<1>4. Cardinality(Holders(k)') + lost'[k] = Cardinality(Holders(k)) + lost[k] + 1
  <2>1. CASE k = mP2p[c]
    <3>1. Holders(k)' = Holders(k)
      BY <1>0, <2>1 DEF Holders
    <3>. QED
      BY <1>2, <2>1, <3>1
  <2>2. CASE k # mP2p[c]
    <3>1. Holders(k)' = Holders(k) \cup {c} /\ c \notin Holders(k)
      BY <1>0, <2>2 DEF Holders
    <3>2. Cardinality(Holders(k) \cup {c}) = Cardinality(Holders(k)) + 1
      BY <1>2, <3>1, FS_AddElement, ZenonT(30)
    <3>. QED
      BY <1>2, <2>2, <3>1, <3>2
  <2>. QED
    BY <2>1, <2>2
<1>. QED
  BY <1>0, <1>1, <1>3, <1>4

\* A channel lets go of its connector.
LEMMA HolderGoes ==
  ASSUME mP2p \in [Channels -> Conns \cup {0}], NEW c \in Channels, NEW k \in Conns, mP2p[c] = k,
         mP2p' = [mP2p EXCEPT ![c] = 0]
  PROVE  /\ Cardinality(Holders(k)') = Cardinality(Holders(k)) - 1
         /\ Holders(k)' = Holders(k) \ {c}
         /\ \A i \in Conns \ {k} : Holders(i)' = Holders(i)
<1>1. k # 0
  BY Sizes DEF NoOne
<1>2. Holders(k)' = Holders(k) \ {c} /\ c \in Holders(k)
  BY <1>1 DEF Holders
<1>3. \A i \in Conns \ {k} : Holders(i)' = Holders(i)
  BY Sizes DEF Holders, NoOne
<1>4. Cardinality(Holders(k) \ {c}) = Cardinality(Holders(k)) - 1
  BY <1>2, HoldersFinite, FS_RemoveElement, ZenonT(30)
<1>. QED
  BY <1>2, <1>3, <1>4

\* A channel that is past CreateConnector has a connector.
LEMMA Has ==
  ASSUME TypeOK, HoldInv, NEW c \in Channels, st[c] \notin {"idle", "create", "old"}
  PROVE  mP2p[c] \in Conns
BY DEF TypeOK, HoldInv

\* One connector is changed.
LEMMA Put ==
  ASSUME NEW f \in [Conns -> Connector], NEW k \in Conns, NEW r \in Connector, NEW g, g = [f EXCEPT ![k] = r]
  PROVE  g \in [Conns -> Connector] /\ g[k] = r /\ \A i \in Conns \ {k} : g[i] = f[i]
OBVIOUS

-----------------------------------------------------------------------------
(* What the steps do to a connector. *)

SameUse(k) == conn'[k].alive = conn[k].alive /\ conn'[k].listed = conn[k].listed /\ conn'[k].mUse = conn[k].mUse
SameHandle(k) == conn'[k].mHandle = conn[k].mHandle /\ conn'[k].mDoneDisconnect = conn[k].mDoneDisconnect
SameResult(k) == conn'[k].mConnectResult = conn[k].mConnectResult
SameLive(k) == conn'[k].live = conn[k].live
SameLock(k) == conn'[k].lock = conn[k].lock
Aside(k) == conn' \in [Conns -> Connector] /\ \A i \in Conns \ {k} : conn'[i] = conn[i]

\* CreateConnector, for a connector it finds, only counts one more user.
LEMMA JoinDoes ==
  ASSUME TypeOK, NEW c \in Channels, Join(c)
  PROVE  \E k \in Conns : /\ conn[k].listed /\ Overwrite(c, k)
                          /\ raced' = raced \cup Race("release", Releasing(c, k))
                          /\ Aside(k) /\ SameHandle(k) /\ SameResult(k) /\ SameLive(k) /\ SameLock(k)
                          /\ conn'[k].alive = conn[k].alive /\ conn'[k].listed = conn[k].listed
                          /\ conn'[k].mUse = conn[k].mUse + 1
<1>1. PICK k \in Conns : /\ conn[k].listed /\ Overwrite(c, k)
                         /\ conn' = [conn EXCEPT ![k].mUse = @ + 1]
                         /\ raced' = raced \cup Race("release", Releasing(c, k))
  BY ZenonT(30) DEF Join, Note
<1>. DEFINE r == [conn[k] EXCEPT !.mUse = @ + 1]
<1>4. conn \in [Conns -> Connector] /\ conn' = [conn EXCEPT ![k] = r]
  BY <1>1 DEF TypeOK
<1>5. /\ r \in Connector /\ r.mUse = conn[k].mUse + 1 /\ r.alive = conn[k].alive /\ r.listed = conn[k].listed
      /\ r.mHandle = conn[k].mHandle /\ r.mDoneDisconnect = conn[k].mDoneDisconnect
      /\ r.mConnectResult = conn[k].mConnectResult /\ r.live = conn[k].live /\ r.lock = conn[k].lock
  BY <1>4 DEF Connector
<1>. HIDE DEF r
<1>6. Aside(k) /\ conn'[k] = r
  BY <1>4, <1>5, Put DEF Aside
<1>. QED
  BY <1>1, <1>5, <1>6, ZenonT(30) DEF SameHandle, SameResult, SameLive, SameLock

\* CreateConnector, for one it makes, leaves the other connectors alone; the new
\* one is in the list, with one user, no handle, no result and no context.
LEMMA NewDoes ==
  ASSUME TypeOK, NEW c \in Channels, NewConnector(c)
  PROVE  \E k \in Conns : /\ ~conn[k].alive /\ Overwrite(c, k) /\ \A i \in Conns : ~conn[i].listed
                          /\ Aside(k) /\ conn'[k].alive /\ conn'[k].listed /\ conn'[k].mUse = 1
                          /\ ~conn'[k].mHandle /\ conn'[k].mConnectResult = "unset" /\ conn'[k].live = {}
<1>1. PICK k \in Conns : /\ ~conn[k].alive /\ Overwrite(c, k)
                         /\ conn' = [conn EXCEPT ![k] = [NoConn EXCEPT !.alive = TRUE, !.listed = TRUE, !.mUse = 1]]
  BY ZenonT(30) DEF NewConnector
<1>2. \A i \in Conns : ~conn[i].listed
  BY ZenonT(30) DEF NewConnector
<1>3. 1 \in Nat
  OBVIOUS
<1>. DEFINE r == [NoConn EXCEPT !.alive = TRUE, !.listed = TRUE, !.mUse = 1]
<1>4. conn \in [Conns -> Connector] /\ conn' = [conn EXCEPT ![k] = r]
  BY <1>1 DEF TypeOK
<1>5. /\ r \in Connector /\ r.alive = TRUE /\ r.listed = TRUE /\ r.mUse = 1 /\ r.mHandle = FALSE
      /\ r.mConnectResult = "unset" /\ r.live = {}
  BY <1>3, ZenonT(30) DEF Connector, NoConn, Results
<1>. HIDE DEF r
<1>6. Aside(k) /\ conn'[k] = r
  BY <1>4, <1>5, Put DEF Aside
<1>. QED
  BY <1>1, <1>2, <1>5, <1>6, ZenonT(30)

\* createP2PHandle makes a handle, or gets none, and keeps the count, the result and
\* the contexts; the mark of the peer that hung up goes with the handle it was for.
LEMMA HandleDoes ==
  ASSUME TypeOK, NEW c \in Channels, CreateHandle(c), NEW k \in Conns, k = mP2p[c]
  PROVE  /\ Aside(k) /\ SameUse(k) /\ SameResult(k) /\ SameLive(k) /\ SameLock(k)
         /\ conn'[k].mHandle \/ refused'[k]
         /\ \A i \in Conns \ {k} : refused'[i] = refused[i]
<1>1. PICK given \in BOOLEAN :
        /\ conn' = [conn EXCEPT ![k].mHandle = given, ![k].mDoneDisconnect = @ /\ ~conn[k].mHandle,
                                ![k].global = IF @ = NoOne THEN c ELSE @]
        /\ refused' = [refused EXCEPT ![k] = ~given]
  BY ZenonT(30) DEF CreateHandle
<1>2. refused'[k] = ~given /\ \A i \in Conns \ {k} : refused'[i] = refused[i]
  BY <1>1 DEF TypeOK
<1>. DEFINE done == conn[k].mDoneDisconnect /\ ~conn[k].mHandle
            main == IF conn[k].global = NoOne THEN c ELSE conn[k].global
            r == [conn[k] EXCEPT !.mHandle = given, !.mDoneDisconnect = done, !.global = main]
<1>4. conn \in [Conns -> Connector] /\ conn' = [conn EXCEPT ![k] = r]
  BY <1>1, ZenonT(30) DEF TypeOK
<1>5. /\ r \in Connector /\ r.mUse = conn[k].mUse /\ r.alive = conn[k].alive /\ r.listed = conn[k].listed
      /\ r.mHandle = given /\ r.mConnectResult = conn[k].mConnectResult /\ r.live = conn[k].live
      /\ r.lock = conn[k].lock
  <2>1. done \in BOOLEAN /\ conn[k] \in Connector
    BY <1>4
  <2>2. main \in Channels \cup {NoOne}
    BY <2>1 DEF Connector
  <2>. HIDE DEF done, main
  <2>. QED
    BY <2>1, <2>2, ZenonT(30) DEF Connector
<1>. HIDE DEF r
<1>6. Aside(k) /\ conn'[k] = r
  BY <1>4, <1>5, Put DEF Aside
<1>7. conn'[k].mHandle \/ refused'[k]
  BY <1>2, <1>5, <1>6
<1>. QED
  BY <1>2, <1>5, <1>6, <1>7 DEF SameUse, SameResult, SameLive, SameLock

\* connect3 takes the lock and leaves the rest to the answer.
LEMMA DialDoes ==
  ASSUME TypeOK, NEW c \in Channels, Dial(c), NEW k \in Conns, k = mP2p[c]
  PROVE  Aside(k) /\ SameUse(k) /\ SameHandle(k) /\ SameResult(k) /\ SameLive(k) /\ conn'[k].lock = c
<1>. DEFINE r == [conn[k] EXCEPT !.lock = c]
<1>4. conn \in [Conns -> Connector] /\ conn' = [conn EXCEPT ![k] = r]
  BY DEF TypeOK, Dial
<1>5. /\ r \in Connector /\ r.mUse = conn[k].mUse /\ r.alive = conn[k].alive /\ r.listed = conn[k].listed
      /\ r.mHandle = conn[k].mHandle /\ r.mDoneDisconnect = conn[k].mDoneDisconnect
      /\ r.mConnectResult = conn[k].mConnectResult /\ r.live = conn[k].live /\ r.lock = c
  BY <1>4 DEF Connector, NoOne
<1>. HIDE DEF r
<1>6. Aside(k) /\ conn'[k] = r
  BY <1>4, <1>5, Put DEF Aside
<1>. QED
  BY <1>5, <1>6 DEF SameUse, SameHandle, SameResult, SameLive

\* connect3 stores the answer and gives the lock back.
LEMMA StoreDoes ==
  ASSUME TypeOK, NEW c \in Channels, Store(c), NEW k \in Conns, k = mP2p[c]
  PROVE  /\ Aside(k) /\ SameUse(k) /\ SameHandle(k) /\ SameLive(k)
         /\ conn'[k].mConnectResult = dialed[c] /\ conn'[k].lock = NoOne
<1>. DEFINE r == [conn[k] EXCEPT !.mConnectResult = dialed[c], !.lock = NoOne]
<1>4. conn \in [Conns -> Connector] /\ conn' = [conn EXCEPT ![k] = r] /\ dialed[c] \in Results \cup {"unset"}
  BY ZenonT(30) DEF TypeOK, Store
<1>5. /\ r \in Connector /\ r.mUse = conn[k].mUse /\ r.alive = conn[k].alive /\ r.listed = conn[k].listed
      /\ r.mHandle = conn[k].mHandle /\ r.mDoneDisconnect = conn[k].mDoneDisconnect
      /\ r.mConnectResult = dialed[c] /\ r.live = conn[k].live /\ r.lock = NoOne
  <2>1. PICK res \in Results \cup {"unset"} : res = dialed[c]
    BY <1>4
  <2>2. conn[k] \in Connector /\ r = [conn[k] EXCEPT !.mConnectResult = res, !.lock = NoOne]
    BY <1>4, <2>1
  <2>. HIDE DEF r
  <2>. QED
    BY <2>1, <2>2, ZenonT(30) DEF Connector, NoOne
<1>. HIDE DEF r
<1>6. Aside(k) /\ conn'[k] = r
  BY <1>4, <1>5, Put DEF Aside
<1>. QED
  BY <1>5, <1>6 DEF SameUse, SameHandle, SameLive

\* openChannel adds the live context of the channel, nothing else.
LEMMA OpenDoes ==
  ASSUME TypeOK, NEW c \in Channels, OpenStream(c), NEW k \in Conns, k = mP2p[c]
  PROVE  /\ Aside(k) /\ SameUse(k) /\ SameHandle(k) /\ SameResult(k) /\ SameLock(k)
         /\ conn'[k].live = conn[k].live \cup {c}
<1>. DEFINE r == [conn[k] EXCEPT !.live = @ \cup {c}]
<1>1. conn \in [Conns -> Connector] /\ conn' = [conn EXCEPT ![k] = r]
  BY DEF TypeOK, OpenStream
<1>3. /\ r \in Connector /\ r.mUse = conn[k].mUse /\ r.alive = conn[k].alive /\ r.listed = conn[k].listed
      /\ r.mHandle = conn[k].mHandle /\ r.mDoneDisconnect = conn[k].mDoneDisconnect
      /\ r.mConnectResult = conn[k].mConnectResult /\ r.live = conn[k].live \cup {c} /\ r.lock = conn[k].lock
  BY <1>1 DEF Connector, NoOne
<1>. HIDE DEF r
<1>4. Aside(k) /\ conn'[k] = r
  BY <1>1, <1>3, Put DEF Aside
<1>. QED
  BY <1>3, <1>4 DEF SameUse, SameHandle, SameResult, SameLock

\* A refused stream leaves the context there; without a handle nothing is tried.
LEMMA OpenFailsDoes ==
  ASSUME TypeOK, NEW c \in Channels, OpenFails(c), NEW k \in Conns, k = mP2p[c]
  PROVE  /\ Aside(k) /\ SameUse(k) /\ SameHandle(k) /\ SameResult(k) /\ SameLock(k)
         /\ conn'[k].live \subseteq conn[k].live \cup {c}
<1>. DEFINE r == [conn[k] EXCEPT !.live = @ \cup {c}]
<1>1. conn \in [Conns -> Connector] /\ (conn' = [conn EXCEPT ![k] = r] \/ conn' = conn)
  BY DEF TypeOK, OpenFails
<1>2. CASE conn' = conn
  BY <1>1, <1>2 DEF Aside, SameUse, SameHandle, SameResult, SameLock
<1>3. /\ r \in Connector /\ r.mUse = conn[k].mUse /\ r.alive = conn[k].alive /\ r.listed = conn[k].listed
      /\ r.mHandle = conn[k].mHandle /\ r.mDoneDisconnect = conn[k].mDoneDisconnect
      /\ r.mConnectResult = conn[k].mConnectResult /\ r.live = conn[k].live \cup {c} /\ r.lock = conn[k].lock
  BY <1>1 DEF Connector, NoOne
<1>. HIDE DEF r
<1>4. CASE conn' = [conn EXCEPT ![k] = r]
  <2>1. Aside(k) /\ conn'[k] = r
    BY <1>1, <1>3, <1>4, Put DEF Aside
  <2>. QED
    BY <1>3, <2>1 DEF SameUse, SameHandle, SameResult, SameLock
<1>. QED
  BY <1>1, <1>2, <1>4

\* openChannel removes the live context of the channel, nothing else.
LEMMA CloseStreamDoes ==
  ASSUME TypeOK, NEW c \in Channels, CloseStream(c), NEW k \in Conns, k = mP2p[c]
  PROVE  /\ Aside(k) /\ SameUse(k) /\ SameHandle(k) /\ SameResult(k) /\ SameLock(k)
         /\ conn'[k].live = conn[k].live \ {c}
<1>. DEFINE r == [conn[k] EXCEPT !.live = @ \ {c}]
<1>1. conn \in [Conns -> Connector] /\ conn' = [conn EXCEPT ![k] = r]
  BY DEF TypeOK, CloseStream
<1>3. /\ r \in Connector /\ r.mUse = conn[k].mUse /\ r.alive = conn[k].alive /\ r.listed = conn[k].listed
      /\ r.mHandle = conn[k].mHandle /\ r.mDoneDisconnect = conn[k].mDoneDisconnect
      /\ r.mConnectResult = conn[k].mConnectResult /\ r.live = conn[k].live \ {c} /\ r.lock = conn[k].lock
  BY <1>1 DEF Connector, NoOne
<1>. HIDE DEF r
<1>4. Aside(k) /\ conn'[k] = r
  BY <1>1, <1>3, Put DEF Aside
<1>. QED
  BY <1>3, <1>4 DEF SameUse, SameHandle, SameResult, SameLock

\* DestroyConnector with other users changes nothing but the count.
LEMMA DropDoes ==
  ASSUME TypeOK, NEW c \in Channels, Drop(c), NEW k \in Conns, k = mP2p[c]
  PROVE  /\ Aside(k) /\ SameHandle(k) /\ SameResult(k) /\ SameLive(k) /\ SameLock(k)
         /\ conn'[k].alive = conn[k].alive /\ conn'[k].listed = conn[k].listed /\ conn'[k].mUse = UseDown(k)
<1>. DEFINE r == [conn[k] EXCEPT !.mUse = UseDown(k)]
<1>1. conn \in [Conns -> Connector] /\ conn' = [conn EXCEPT ![k] = r]
  BY DEF TypeOK, Drop
<1>2. UseDown(k) \in Nat
  BY <1>1 DEF UseDown, Connector
<1>3. /\ r \in Connector /\ r.mUse = UseDown(k) /\ r.alive = conn[k].alive /\ r.listed = conn[k].listed
      /\ r.mHandle = conn[k].mHandle /\ r.mDoneDisconnect = conn[k].mDoneDisconnect
      /\ r.mConnectResult = conn[k].mConnectResult /\ r.live = conn[k].live /\ r.lock = conn[k].lock
  BY <1>1, <1>2 DEF Connector, NoOne
<1>. HIDE DEF r
<1>4. Aside(k) /\ conn'[k] = r
  BY <1>1, <1>3, Put DEF Aside
<1>. QED
  BY <1>3, <1>4 DEF SameHandle, SameResult, SameLive, SameLock

\* DestroyConnector of the last user first takes the connector off the list.
LEMMA RemoveDoes ==
  ASSUME TypeOK, NEW c \in Channels, Remove(c), NEW k \in Conns, k = mP2p[c]
  PROVE  /\ Aside(k) /\ SameHandle(k) /\ SameResult(k) /\ SameLive(k) /\ SameLock(k)
         /\ conn'[k].alive = conn[k].alive /\ ~conn'[k].listed /\ conn'[k].mUse = conn[k].mUse
<1>. DEFINE r == [conn[k] EXCEPT !.listed = FALSE]
<1>1. conn \in [Conns -> Connector] /\ conn' = [conn EXCEPT ![k] = r]
  BY DEF TypeOK, Remove
<1>3. /\ r \in Connector /\ r.mUse = conn[k].mUse /\ r.alive = conn[k].alive /\ ~r.listed
      /\ r.mHandle = conn[k].mHandle /\ r.mDoneDisconnect = conn[k].mDoneDisconnect
      /\ r.mConnectResult = conn[k].mConnectResult /\ r.live = conn[k].live /\ r.lock = conn[k].lock
  <2>1. PICK no \in BOOLEAN : no = FALSE
    BY ZenonT(30)
  <2>2. conn[k] \in Connector /\ r = [conn[k] EXCEPT !.listed = no]
    BY <1>1, <2>1, ZenonT(30)
  <2>. HIDE DEF r
  <2>3. /\ r \in Connector
        /\ r.mUse = conn[k].mUse /\ r.alive = conn[k].alive /\ r.listed = no
        /\ r.mHandle = conn[k].mHandle /\ r.mDoneDisconnect = conn[k].mDoneDisconnect
        /\ r.mConnectResult = conn[k].mConnectResult /\ r.live = conn[k].live /\ r.lock = conn[k].lock
    BY <2>2 DEF Connector, NoOne
  <2>. QED
    BY <2>1, <2>3
<1>. HIDE DEF r
<1>4. Aside(k) /\ conn'[k] = r
  BY <1>1, <1>3, Put DEF Aside
<1>. QED
  BY <1>3, <1>4 DEF SameHandle, SameResult, SameLive, SameLock

\* closeP2P drops the handle, the result and the contexts, not the mark of the
\* peer that hung up; without a handle it does nothing.
LEMMA CloseDoes ==
  ASSUME TypeOK, NEW c \in Channels, Close(c), NEW k \in Conns, k = mP2p[c]
  PROVE  /\ Aside(k) /\ SameUse(k) /\ SameLock(k) /\ ~conn'[k].mHandle /\ conn'[k].live \subseteq conn[k].live
         /\ UNCHANGED <<conn, link>> \/ conn'[k].mConnectResult = "unset"
<1>. DEFINE r == [conn[k] EXCEPT !.mHandle = FALSE, !.mConnectResult = "unset", !.global = NoOne, !.live = {}]
<1>1. /\ conn \in [Conns -> Connector]
      /\ conn' = [conn EXCEPT ![k] = r] \/ (~conn[k].mHandle /\ UNCHANGED <<conn, link>>)
  BY ZenonT(30) DEF TypeOK, Close
<1>2. CASE ~conn[k].mHandle /\ UNCHANGED <<conn, link>>
  BY <1>1, <1>2 DEF Aside, SameUse, SameLock
<1>3. /\ r \in Connector /\ r.mUse = conn[k].mUse /\ r.alive = conn[k].alive /\ r.listed = conn[k].listed
      /\ ~r.mHandle /\ r.mConnectResult = "unset" /\ r.live = {} /\ r.lock = conn[k].lock
  <2>1. PICK no \in BOOLEAN : no = FALSE
    BY ZenonT(30)
  <2>2. conn[k] \in Connector /\ r = [conn[k] EXCEPT !.mHandle = no, !.mConnectResult = "unset", !.global = NoOne, !.live = {}]
    BY <1>1, <2>1, ZenonT(30)
  <2>. HIDE DEF r
  <2>3. /\ r \in Connector
        /\ r.mUse = conn[k].mUse /\ r.alive = conn[k].alive /\ r.listed = conn[k].listed
        /\ r.mHandle = no /\ r.mConnectResult = "unset" /\ r.live = {} /\ r.lock = conn[k].lock
    BY <2>2, ZenonT(30) DEF Connector, NoOne
  <2>. QED
    BY <2>1, <2>3
<1>. HIDE DEF r
<1>4. CASE conn' = [conn EXCEPT ![k] = r]
  <2>1. Aside(k) /\ conn'[k] = r
    BY <1>1, <1>3, <1>4, Put DEF Aside
  <2>. QED
    BY <1>3, <2>1 DEF SameUse, SameLock
<1>. QED
  BY <1>1, <1>2, <1>4

\* OnKDisconnect ends by clearing the result and marking the handle.
LEMMA MarkDoes ==
  ASSUME TypeOK, NEW k \in Conns, Mark(k)
  PROVE  /\ Aside(k) /\ SameUse(k) /\ SameLive(k) /\ SameLock(k)
         /\ conn'[k].mHandle = conn[k].mHandle /\ conn'[k].mDoneDisconnect = TRUE /\ conn'[k].mConnectResult = "unset"
<1>. DEFINE r == [conn[k] EXCEPT !.mConnectResult = "unset", !.mDoneDisconnect = TRUE]
<1>1. conn \in [Conns -> Connector] /\ conn' = [conn EXCEPT ![k] = r]
  BY ZenonT(30) DEF TypeOK, Mark
<1>3. /\ r \in Connector /\ r.mUse = conn[k].mUse /\ r.alive = conn[k].alive /\ r.listed = conn[k].listed
      /\ r.mHandle = conn[k].mHandle /\ r.mDoneDisconnect = TRUE
      /\ r.mConnectResult = "unset" /\ r.live = conn[k].live /\ r.lock = conn[k].lock
  BY <1>1, ZenonT(30) DEF Connector, NoOne
<1>. HIDE DEF r
<1>4. Aside(k) /\ conn'[k] = r
  BY <1>1, <1>3, Put DEF Aside
<1>. QED
  BY <1>3, <1>4 DEF SameUse, SameLive, SameLock

\* The deleted connector is as if it had never been there.
LEMMA DeleteDoes ==
  ASSUME TypeOK, NEW c \in Channels, Delete(c), NEW k \in Conns, k = mP2p[c]
  PROVE  /\ Aside(k) /\ conn'[k].mUse = 0 /\ ~conn'[k].alive /\ ~conn'[k].listed
         /\ ~conn'[k].mHandle /\ conn'[k].live = {}
<1>1. conn \in [Conns -> Connector] /\ conn' = [conn EXCEPT ![k] = NoConn]
  BY DEF TypeOK, Delete
<1>2. /\ NoConn \in Connector /\ NoConn.mUse = 0 /\ NoConn.alive = FALSE /\ NoConn.listed = FALSE
      /\ NoConn.mHandle = FALSE /\ NoConn.live = {}
  BY Sizes DEF NoConn, Connector, NoOne, Results
<1>3. Aside(k) /\ conn'[k] = NoConn
  BY <1>1, <1>2, Put DEF Aside
<1>. QED
  BY <1>2, <1>3

-----------------------------------------------------------------------------
(* Who moves whom. *)

\* The other channels stay as they are.
Own(c) ==
  \A d \in Channels \ {c} : /\ st'[d] = st[d] /\ mP2p'[d] = mP2p[d] /\ after'[d] = after[d]
                            /\ dialed'[d] = dialed[d] /\ told'[d] = told[d]
Flags(c) == \A d \in Channels \ {c} : known'[d] = known[d] /\ badPwd'[d] = badPwd[d]

\* The task thread of a channel moves no other channel and no callback, and does
\* not undo a race.
LEMMA OwnStep ==
  ASSUME TypeOK, NEW c \in Channels, Step(c) \/ App(c)
  PROVE  Own(c) /\ Flags(c) /\ UNCHANGED <<cb, why>> /\ raced \subseteq raced'
<1>0. /\ st \in [Channels -> {"idle", "create", "handle", "connect", "dial", "store", "up", "leave", "drop",
                              "remove", "close", "delete", "old"}]
      /\ mP2p \in [Channels -> Conns \cup {0}] /\ after \in [Channels -> {"idle", "create", "old"}]
      /\ dialed \in [Channels -> Results \cup {"unset"}] /\ told \in [Channels -> 0 .. session.maxTold]
  BY DEF TypeOK
<1>00. known \in [Channels -> BOOLEAN] /\ badPwd \in [Channels -> BOOLEAN]
  BY DEF TypeOK
<1>. USE DEF Go, At, chanVars, Note
<1>1. CASE NoHandle(c) \/ CachedResult(c) \/ Store(c)
  <2>1. PICK r : Result(c, r)
    BY <1>1 DEF NoHandle, CachedResult, Store
  <2>2. Flags(c)
    BY <1>00, <2>1 DEF Flags, Result
  <2>3. \A d \in Channels \ {c} : st'[d] = st[d] /\ after'[d] = after[d]
    BY <1>0, <2>1 DEF Result
  <2>. QED
    BY <1>0, <1>1, <2>2, <2>3 DEF NoHandle, CachedResult, Store, Own
<1>2. CASE OldLibrary(c)
  <2>1. Flags(c)
    BY <1>00, <1>2 DEF Flags, OldLibrary
  <2>. QED
    BY <1>0, <1>2, <2>1 DEF OldLibrary, Own
<1>3. CASE ~(NoHandle(c) \/ CachedResult(c) \/ Store(c) \/ OldLibrary(c))
  <2>1. UNCHANGED <<known, badPwd>>
    BY <1>3, ZenonT(30) DEF Step, App, ConnectAgain, Connect, DoConnect, Join, NewConnector, HaveHandle, CreateHandle, Dial,
      Answer, Leave, Drop, Remove, Close, Delete, Disconnect, OpenStream, OpenFails, CloseStream
  <2>2. Flags(c)
    BY <2>1 DEF Flags
  <2>3. CASE ConnectAgain(c) \/ Connect(c) \/ Disconnect(c)
    BY <1>0, <2>2, <2>3, ZenonT(30) DEF ConnectAgain, Connect, DoConnect, Disconnect, DoDisconnect, Own
  <2>6. CASE Join(c) \/ NewConnector(c)
    BY <1>0, <2>2, <2>6, ZenonT(30) DEF Join, NewConnector, Overwrite, Own
  <2>7. CASE HaveHandle(c) \/ CreateHandle(c) \/ Dial(c)
    BY <1>0, <2>2, <2>7, ZenonT(30) DEF HaveHandle, CreateHandle, Dial, Own
  <2>4. CASE Answer(c) \/ Leave(c) \/ Remove(c) \/ Close(c) \/ OpenStream(c) \/ OpenFails(c) \/ CloseStream(c)
    BY <1>0, <2>2, <2>4, ZenonT(30) DEF Answer, Leave, Remove, Close, OpenStream, OpenFails, CloseStream, Own
  <2>5. CASE Drop(c) \/ Delete(c)
    BY <1>0, <2>2, <2>5 DEF Drop, Delete, Gone, Own
  <2>. QED
    BY <1>3, <2>3, <2>4, <2>5, <2>6, <2>7 DEF Step, App
<1>. QED
  BY <1>1, <1>2, <1>3

\* The callback and the library leave the task threads alone but for CMD_CONNECT.
LEMMA CallStep ==
  ASSUME TypeOK, NEW k \in Conns, OnKDisconnect(k) \/ HangUp(k)
  PROVE  /\ UNCHANGED <<mP2p, mHandle, st, after, dialed, raced>> /\ UNCHANGED <<known, badPwd>>
         /\ UNCHANGED <<session, faults, lost, refused>>
         /\ conn' = conn \/ Mark(k)
         /\ link' = link \/ HangUp(k)
BY DEF OnKDisconnect, Lookup, TellGlobal, TellStreams, Mark, HangUp, chanVars, faultVars

\* The counts that a channel leaves behind and the handles it was refused change at
\* the connector that it joins, makes, opens or deletes only.
LEMMA Faults ==
  ASSUME TypeOK, NEW c \in Channels, Step(c) \/ App(c)
  PROVE  /\ session' = session /\ faults' \in 0 .. session.maxFaults
         /\ UNCHANGED <<lost, refused>> \/ Join(c) \/ NewConnector(c) \/ CreateHandle(c) \/ Delete(c)
<1>0. faults \in 0 .. session.maxFaults /\ session.maxFaults \in Nat
  BY Bounds DEF TypeOK
<1>1. CASE Join(c) \/ NewConnector(c) \/ Delete(c)
  BY <1>0, <1>1 DEF Join, NewConnector, Delete
<1>2. CASE CreateHandle(c)
  <2>1. session' = session /\ (faults' = faults \/ Fault)
    BY <1>2, ZenonT(30) DEF CreateHandle
  <2>. QED
    BY <1>0, <1>2, <2>1 DEF Fault
<1>3. CASE OpenFails(c)
  <2>1. session' = session /\ UNCHANGED <<lost, refused>> /\ (faults' = faults \/ Fault)
    BY <1>3, ZenonT(30) DEF OpenFails
  <2>. QED
    BY <1>0, <2>1 DEF Fault
<1>4. CASE ~(Join(c) \/ NewConnector(c) \/ Delete(c) \/ CreateHandle(c) \/ OpenFails(c))
  <2>1. UNCHANGED faultVars
    BY <1>4, ZenonT(30) DEF Step, App, ConnectAgain, Connect, DoConnect, HaveHandle, NoHandle, CachedResult, Dial,
      Answer, Store, OldLibrary, Leave, Drop, Remove, Close, Disconnect, OpenStream, CloseStream
  <2>. QED
    BY <1>0, <2>1 DEF faultVars
<1>. QED
  BY <1>1, <1>2, <1>3, <1>4

-----------------------------------------------------------------------------
(* The commands of the callbacks. *)

\* There are finitely many callbacks, which can be counted.
LEMMA CallsFinite ==
  /\ IsFiniteSet(Twice) /\ IsFiniteSet(Once) /\ Cardinality(Twice) \in Nat /\ Cardinality(Once) \in Nat
<1>1. Twice \in SUBSET Conns /\ Once \in SUBSET Conns
  BY DEF Twice, Once
<1>2. IsFiniteSet(Twice) /\ IsFiniteSet(Once)
  BY <1>1, Sizes, FS_Subset, ZenonT(30)
<1>. QED
  BY <1>2, FS_CardinalityType

\* OnDisconnect queues at most one command for a channel.
LEMMA OneMore ==
  ASSUME TypeOK, NEW k \in Conns, NEW who, OnDisconnect(k, who), NEW c \in Channels
  PROVE  told'[c] \in Nat /\ told'[c] >= told[c] /\ told'[c] <= told[c] + 1
BY DEF OnDisconnect, TypeOK

\* ToldInv, for every step.
LEMMA ToldStep ==
  ASSUME TypeOK, ToldInv, Next
  PROVE  ToldInv' /\ \A c \in Channels : told'[c] \in Nat
<1>0. /\ \A c \in Channels : told[c] \in Nat
      /\ cb \in [Conns -> {"none", "ring", "global", "streams", "mark"}] /\ session.maxTold \in Nat
      /\ told \in [Channels -> Nat] /\ session' = session
  <2>1. session' = session
    BY Faults, CallStep DEF Next
  <2>. QED
    BY <2>1, Bounds DEF TypeOK
<1>. USE CallsFinite
<1>1. ASSUME NEW c \in Channels, Step(c) \/ App(c)
      PROVE  ToldInv' /\ \A d \in Channels : told'[d] \in Nat
  <2>1. cb' = cb /\ \A d \in Channels \ {c} : told'[d] = told[d]
    BY <1>1, OwnStep DEF Own
  <2>2. told'[c] \in Nat /\ told'[c] <= told[c]
    <3>1. told' = told \/ (told[c] > 0 /\ told' = [told EXCEPT ![c] = @ - 1])
      BY <1>1, ZenonT(30) DEF Step, App, ConnectAgain, Connect, Join, NewConnector, HaveHandle, CreateHandle, NoHandle,
        CachedResult, Store, OldLibrary, Dial, Answer, Leave, Drop, Remove, Close, Delete, Disconnect, OpenStream,
        OpenFails, CloseStream
    <3>. QED
      BY <1>0, <3>1
  <2>3. Twice' = Twice /\ Once' = Once
    BY <2>1 DEF Twice, Once
  <2>. QED
    BY <1>0, <2>1, <2>2, <2>3 DEF ToldInv
<1>2. ASSUME NEW k \in Conns, HangUp(k)
      PROVE  ToldInv' /\ \A d \in Channels : told'[d] \in Nat
  <2>. DEFINE Busy == {i \in Conns : cb[i] # "none"}
  <2>1. IsFiniteSet(Busy) /\ Cardinality(Busy) \in Nat
    <3>1. Busy \in SUBSET Conns
      OBVIOUS
    <3>2. IsFiniteSet(Busy)
      BY <3>1, Sizes, FS_Subset, ZenonT(30)
    <3>. QED
      BY <3>2, FS_CardinalityType
  <2>2. Cardinality(Twice) + Cardinality(Once) <= Cardinality(Busy)
    <3>1. Twice \cup Once \in SUBSET Busy /\ Twice \cap Once = {}
      BY DEF Twice, Once
    <3>2. Cardinality(Twice \cup Once) <= Cardinality(Busy)
      BY <2>1, <3>1, FS_Subset, ZenonT(30)
    <3>3. Cardinality(Twice \cup Once) = Cardinality(Twice) + Cardinality(Once) - Cardinality(Twice \cap Once)
      BY FS_Union, ZenonT(30)
    <3>4. Cardinality(Twice \cap Once) = 0
      BY <3>1, FS_EmptySet
    <3>. QED
      BY <3>2, <3>3, <3>4
  <2>3. /\ told' = told /\ cb' = [cb EXCEPT ![k] = "ring"] /\ cb[k] = "none"
        /\ \A c \in Channels : told[c] + 2 * Cardinality(Busy) + 2 <= session.maxTold
    BY <1>2 DEF HangUp, Ring
  <2>4. Twice' = Twice \cup {k} /\ k \notin Twice /\ Once' = Once
    BY <1>0, <2>3 DEF Twice, Once
  <2>5. Cardinality(Twice') = Cardinality(Twice) + 1
    BY <2>4, FS_AddElement, ZenonT(30)
  <2>. HIDE DEF Busy
  <2>. QED
    BY <1>0, <2>1, <2>2, <2>3, <2>4, <2>5 DEF ToldInv
<1>3. ASSUME NEW k \in Conns, Lookup(k)
      PROVE  ToldInv' /\ \A d \in Channels : told'[d] \in Nat
  <2>1. told' = told /\ cb[k] = "ring" /\ (cb' = [cb EXCEPT ![k] = "global"] \/ cb' = [cb EXCEPT ![k] = "none"])
    BY <1>3 DEF Lookup, Ring, Return
  <2>2. (Twice' = Twice \/ Twice' = Twice \ {k}) /\ k \in Twice /\ Once' = Once
    BY <1>0, <2>1 DEF Twice, Once
  <2>3. Cardinality(Twice \ {k}) = Cardinality(Twice) - 1
    BY <2>2, FS_RemoveElement, ZenonT(30)
  <2>4. Cardinality(Twice') <= Cardinality(Twice) /\ Cardinality(Twice') \in Nat
    <3>1. IsFiniteSet(Twice \ {k})
      BY <2>2, FS_RemoveElement
    <3>2. Cardinality(Twice \ {k}) \in Nat
      BY <3>1, FS_CardinalityType
    <3>3. CASE Twice' = Twice
      BY <3>3
    <3>4. CASE Twice' = Twice \ {k}
      BY <2>3, <3>2, <3>4
    <3>. QED
      BY <2>2, <3>3, <3>4
  <2>. QED
    BY <1>0, <2>1, <2>2, <2>4 DEF ToldInv
<1>4. ASSUME NEW k \in Conns, TellGlobal(k)
      PROVE  ToldInv' /\ \A d \in Channels : told'[d] \in Nat
  <2>1. cb[k] = "global" /\ cb' = [cb EXCEPT ![k] = "streams"] /\ OnDisconnect(k, {conn[k].global})
    BY <1>4 DEF TellGlobal, Ring
  <2>2. Twice' = Twice \ {k} /\ k \in Twice /\ Once' = Once \cup {k} /\ k \notin Once
    BY <1>0, <2>1 DEF Twice, Once
  <2>3. Cardinality(Twice \ {k}) = Cardinality(Twice) - 1 /\ Cardinality(Once \cup {k}) = Cardinality(Once) + 1
    BY <2>2, FS_RemoveElement, FS_AddElement, ZenonT(30)
  <2>4. \A d \in Channels : told'[d] \in Nat /\ told'[d] <= told[d] + 1
    BY <2>1, OneMore
  <2>. QED
    BY <1>0, <2>2, <2>3, <2>4 DEF ToldInv
<1>5. ASSUME NEW k \in Conns, TellStreams(k)
      PROVE  ToldInv' /\ \A d \in Channels : told'[d] \in Nat
  <2>1. cb[k] = "streams" /\ cb' = [cb EXCEPT ![k] = "mark"] /\ OnDisconnect(k, conn[k].live)
    BY <1>5 DEF TellStreams, Ring
  <2>2. Twice' = Twice /\ Once' = Once \ {k} /\ k \in Once
    BY <1>0, <2>1 DEF Twice, Once
  <2>3. Cardinality(Once \ {k}) = Cardinality(Once) - 1
    BY <2>2, FS_RemoveElement, ZenonT(30)
  <2>4. \A d \in Channels : told'[d] \in Nat /\ told'[d] <= told[d] + 1
    BY <2>1, OneMore
  <2>. QED
    BY <1>0, <2>2, <2>3, <2>4 DEF ToldInv
<1>6. ASSUME NEW k \in Conns, Mark(k)
      PROVE  ToldInv' /\ \A d \in Channels : told'[d] \in Nat
  <2>1. cb[k] = "mark" /\ cb' = [cb EXCEPT ![k] = "none"] /\ told' = told
    BY <1>6 DEF Mark, Return, Ring
  <2>2. Twice' = Twice /\ Once' = Once
    BY <1>0, <2>1 DEF Twice, Once
  <2>. QED
    BY <1>0, <2>1, <2>2 DEF ToldInv
<1>. QED
  BY <1>1, <1>2, <1>3, <1>4, <1>5, <1>6 DEF Next, OnKDisconnect

-----------------------------------------------------------------------------
(* Types. *)

\* A step of a channel that leaves the connectors as they are.
Light(c) ==
  \/ ConnectAgain(c) \/ Connect(c) \/ HaveHandle(c) \/ NoHandle(c) \/ CachedResult(c) \/ Answer(c) \/ OldLibrary(c)
  \/ Leave(c) \/ Disconnect(c)

\* They leave the connectors alone.
LEMMA LightDoes ==
  ASSUME NEW c \in Channels, Light(c)
  PROVE  UNCHANGED <<conn, mP2p, lost, refused>>
BY ZenonT(30) DEF Light, ConnectAgain, Connect, DoConnect, HaveHandle, NoHandle, CachedResult, Answer, OldLibrary, Leave,
  Disconnect, faultVars

\* The others work on the connector the channel has.
Heavy(c) ==
  \/ CreateHandle(c) \/ Dial(c) \/ Store(c) \/ OpenStream(c) \/ OpenFails(c) \/ CloseStream(c)
  \/ Drop(c) \/ Remove(c) \/ Close(c) \/ Delete(c)

\* The connector is there, and the only one a task thread works on.
LEMMA HeavyHas ==
  ASSUME TypeOK, HoldInv, NEW c \in Channels, Heavy(c)
  PROVE  mP2p[c] \in Conns /\ Aside(mP2p[c])
<1>1. mP2p[c] \in Conns
  <2>1. CASE OpenStream(c) \/ OpenFails(c) \/ CloseStream(c)
    BY <2>1 DEF OpenStream, OpenFails, CloseStream, Holds, TypeOK
  <2>2. CASE CreateHandle(c) \/ Dial(c) \/ Store(c) \/ Drop(c) \/ Remove(c) \/ Close(c) \/ Delete(c)
    BY <2>2, Has, ZenonT(30) DEF CreateHandle, Dial, Store, Drop, Remove, Close, Delete, At
  <2>. QED
    BY <2>1, <2>2, ZenonT(30) DEF Heavy
<1>2. CASE CreateHandle(c) \/ Dial(c) \/ Store(c)
  BY <1>1, <1>2, HandleDoes, DialDoes, StoreDoes, ZenonT(30)
<1>3. CASE OpenStream(c) \/ OpenFails(c) \/ CloseStream(c) \/ Drop(c)
  BY <1>1, <1>3, OpenDoes, OpenFailsDoes, CloseStreamDoes, DropDoes, ZenonT(30)
<1>4. CASE Remove(c) \/ Close(c) \/ Delete(c)
  BY <1>1, <1>4, RemoveDoes, CloseDoes, DeleteDoes, ZenonT(30)
<1>. QED
  BY <1>2, <1>3, <1>4, ZenonT(30) DEF Heavy

\* These, and the two ways through CreateConnector, are all a channel does.
LEMMA Steps ==
  ASSUME NEW c \in Channels, Step(c) \/ App(c)
  PROVE  Light(c) \/ Heavy(c) \/ Join(c) \/ NewConnector(c)
BY DEF Step, App, Light, Heavy

\* A connector keeps its type.
LEMMA ConnTypeStep ==
  ASSUME TypeOK, HoldInv, Next
  PROVE  conn' \in [Conns -> Connector]
<1>0. conn \in [Conns -> Connector]
  BY DEF TypeOK
<1>1. ASSUME NEW c \in Channels, Step(c) \/ App(c)
      PROVE  conn' \in [Conns -> Connector]
  <2>1. CASE Light(c)
    BY <1>0, <2>1, LightDoes
  <2>2. CASE Heavy(c)
    BY <2>2, HeavyHas DEF Aside
  <2>3. CASE Join(c)
    BY <2>3, JoinDoes DEF Aside
  <2>4. CASE NewConnector(c)
    BY <2>4, NewDoes DEF Aside
  <2>. QED
    BY <1>1, <2>1, <2>2, <2>3, <2>4, Steps
<1>2. ASSUME NEW k \in Conns, OnKDisconnect(k) \/ HangUp(k)
      PROVE  conn' \in [Conns -> Connector]
  BY <1>0, <1>2, CallStep, MarkDoes, ZenonT(30) DEF Aside
<1>. QED
  BY <1>1, <1>2 DEF Next

\* The links and the callbacks.
LinkTypes ==
  /\ link \in [Conns -> {"none", "up", "down"}]
  /\ cb \in [Conns -> {"none", "ring", "global", "streams", "mark"}]
  /\ why \in [Conns -> {"none", "peer", "timeout"}]

\* The links and the callbacks keep their type.
LEMMA LinkTypeStep ==
  ASSUME TypeOK, HoldInv, Next
  PROVE  LinkTypes'
<1>0. LinkTypes
  BY DEF TypeOK, LinkTypes
<1>1. ASSUME NEW c \in Channels, Step(c) \/ App(c)
      PROVE  LinkTypes'
  <2>1. UNCHANGED <<cb, why>>
    BY <1>1, OwnStep
  <2>2. link' = link \/ Answer(c) \/ link' = [link EXCEPT ![mP2p[c]] = "none"]
    BY <1>1, ZenonT(30) DEF Step, App, ConnectAgain, Connect, DoConnect, Join, NewConnector, HaveHandle, CreateHandle, NoHandle,
      CachedResult, Store, OldLibrary, Dial, Leave, Drop, Remove, Close, Delete, Disconnect, OpenStream, OpenFails, CloseStream
  <2>3. CASE Answer(c)
    BY <1>0, <2>1, <2>3, ZenonT(30) DEF LinkTypes, Answer
  <2>. QED
    BY <1>0, <2>1, <2>2, <2>3 DEF LinkTypes
<1>2. ASSUME NEW k \in Conns, HangUp(k)
      PROVE  LinkTypes'
  BY <1>0, <1>2 DEF LinkTypes, HangUp, Ring
<1>3. ASSUME NEW k \in Conns, OnKDisconnect(k)
      PROVE  LinkTypes'
  BY <1>0, <1>3 DEF LinkTypes, OnKDisconnect, Lookup, TellGlobal, TellStreams, Mark, Ring, Return
<1>. QED
  BY <1>1, <1>2, <1>3 DEF Next

\* The task threads.
Places == {"idle", "create", "handle", "connect", "dial", "store", "up", "leave", "drop", "remove", "close", "delete", "old"}
TaskTypes ==
  /\ mP2p \in [Channels -> Conns \cup {0}] /\ mHandle \in [Channels -> BOOLEAN] /\ st \in [Channels -> Places]
  /\ after \in [Channels -> {"idle", "create", "old"}]
  /\ dialed \in [Channels -> Results \cup {"unset"}]
  /\ raced \subseteq {"release", "dead"}

\* The places of the task threads and what they have been answered keep their type.
LEMMA TaskTypeStep ==
  ASSUME TypeOK, HoldInv, Next
  PROVE  TaskTypes'
<1>0. TaskTypes
  BY DEF TypeOK, TaskTypes, Places
<1>. USE <1>0 DEF TaskTypes, At, Go, Note, Race, Places
<1>1. ASSUME NEW c \in Channels, ConnectAgain(c) \/ Connect(c)
      PROVE  TaskTypes'
  <2>1. DoConnect(c)
    BY <1>1 DEF ConnectAgain, Connect
  <2>. QED
    BY <2>1 DEF DoConnect, DoDisconnect
<1>8. ASSUME NEW c \in Channels, HaveHandle(c) \/ OldLibrary(c) \/ Leave(c)
      PROVE  TaskTypes'
  BY <1>8, ZenonT(30) DEF HaveHandle, OldLibrary, Leave
<1>10. ASSUME NEW c \in Channels, Disconnect(c)
       PROVE  TaskTypes'
  BY <1>10 DEF Disconnect, DoDisconnect
<1>9. ASSUME NEW c \in Channels, Answer(c)
      PROVE  TaskTypes'
  <2>1. PICK r \in Results : dialed' = [dialed EXCEPT ![c] = r]
    BY <1>9, Bounds DEF Answer
  <2>. QED
    BY <1>9, <2>1 DEF Answer
<1>2. ASSUME NEW c \in Channels, NoHandle(c) \/ CachedResult(c)
      PROVE  TaskTypes'
  <2>1. PICK r : Result(c, r)
    BY <1>2 DEF NoHandle, CachedResult
  <2>2. UNCHANGED <<mP2p, mHandle, dialed>> /\ raced' \subseteq {"release", "dead"}
    BY <1>2 DEF NoHandle, CachedResult
  <2>. QED
    BY <2>1, <2>2 DEF Result
<1>3. ASSUME NEW c \in Channels, Store(c)
      PROVE  TaskTypes'
  BY <1>3 DEF Store, Result
<1>4. ASSUME NEW c \in Channels, Join(c) \/ NewConnector(c)
      PROVE  TaskTypes'
  <2>1. PICK k \in Conns : mP2p' = [mP2p EXCEPT ![c] = k]
    BY <1>4 DEF Join, NewConnector, Overwrite
  <2>. QED
    BY <1>4, <2>1 DEF Join, NewConnector
<1>11. ASSUME NEW c \in Channels, CreateHandle(c)
       PROVE  TaskTypes'
  <2>1. PICK given \in BOOLEAN : mHandle' = [mHandle EXCEPT ![c] = given]
    BY <1>11, ZenonT(30) DEF CreateHandle
  <2>2. st' = [st EXCEPT ![c] = "connect"] /\ UNCHANGED <<mP2p, after, dialed, raced>>
    BY <1>11, ZenonT(30) DEF CreateHandle
  <2>. QED
    BY <2>1, <2>2
<1>5. ASSUME NEW c \in Channels, Dial(c) \/ OpenStream(c) \/ OpenFails(c) \/ CloseStream(c) \/ Remove(c) \/ Close(c)
      PROVE  TaskTypes'
  BY <1>5, ZenonT(60) DEF Dial, OpenStream, OpenFails, CloseStream, Remove, Close
<1>6. ASSUME NEW c \in Channels, Drop(c) \/ Delete(c)
      PROVE  TaskTypes'
  BY <1>6 DEF Drop, Delete, Gone
<1>7. ASSUME NEW k \in Conns, OnKDisconnect(k) \/ HangUp(k)
      PROVE  TaskTypes'
  BY <1>7, CallStep, ZenonT(30)
<1>. QED
  BY <1>1, <1>2, <1>3, <1>4, <1>5, <1>6, <1>7, <1>8, <1>9, <1>10, <1>11 DEF Next, Step, App

\* What the channels know of their camera keeps its type.
LEMMA FlagTypeStep ==
  ASSUME TypeOK, Next
  PROVE  known' \in [Channels -> BOOLEAN] /\ badPwd' \in [Channels -> BOOLEAN]
<1>0. known \in [Channels -> BOOLEAN] /\ badPwd \in [Channels -> BOOLEAN]
  BY DEF TypeOK
<1>1. ASSUME NEW c \in Channels, Step(c) \/ App(c)
      PROVE  \/ UNCHANGED <<known, badPwd>>
             \/ \E r : Result(c, r)
             \/ OldLibrary(c)
  BY <1>1, ZenonT(30) DEF Step, App, ConnectAgain, Connect, DoConnect, Join, NewConnector, HaveHandle, CreateHandle, NoHandle,
      CachedResult, Store, OldLibrary, Dial, Answer, Leave, Drop, Remove, Close, Delete, Disconnect, OpenStream, OpenFails,
      CloseStream, chanVars
<1>2. ASSUME NEW c \in Channels, NEW r, Result(c, r)
      PROVE  known' \in [Channels -> BOOLEAN] /\ badPwd' \in [Channels -> BOOLEAN]
  BY <1>0, <1>2, ZenonT(30) DEF Result
<1>3. ASSUME NEW c \in Channels, OldLibrary(c)
      PROVE  known' \in [Channels -> BOOLEAN] /\ badPwd' \in [Channels -> BOOLEAN]
  BY <1>0, <1>3 DEF OldLibrary
<1>4. ASSUME NEW k \in Conns, OnKDisconnect(k) \/ HangUp(k)
      PROVE  UNCHANGED <<known, badPwd>>
  BY <1>4, CallStep
<1>. QED
  BY <1>0, <1>1, <1>2, <1>3, <1>4 DEF Next

\* The faults and what they leave behind.
FaultTypes ==
  /\ session \in Sessions /\ faults \in 0 .. session.maxFaults
  /\ lost \in [Conns -> Nat] /\ refused \in [Conns -> BOOLEAN]

\* The session stays what it is, and the faults keep their type.
LEMMA FaultTypeStep ==
  ASSUME TypeOK, HoldInv, Next
  PROVE  FaultTypes' /\ session' = session
<1>0. FaultTypes
  BY DEF TypeOK, FaultTypes
<1>1. ASSUME NEW c \in Channels, Step(c) \/ App(c)
      PROVE  FaultTypes' /\ session' = session
  <2>1. session' = session /\ faults' \in 0 .. session.maxFaults
    BY <1>1, Faults
  <2>2. CASE UNCHANGED <<lost, refused>>
    BY <1>0, <2>1, <2>2 DEF FaultTypes
  <2>3. CASE Join(c) \/ NewConnector(c)
    <3>1. PICK k \in Conns : Overwrite(c, k)
      BY <2>3, ZenonT(30) DEF Join, NewConnector
    <3>2. lost' \in [Conns -> Nat] /\ refused' = refused
      BY <2>3, <3>1, Overwritten, ZenonT(30) DEF Join, NewConnector
    <3>. QED
      BY <1>0, <2>1, <3>2 DEF FaultTypes
  <2>4. CASE CreateHandle(c)
    <3>1. lost' = lost /\ \E given \in BOOLEAN : refused' = [refused EXCEPT ![mP2p[c]] = ~given]
      BY <2>4, ZenonT(30) DEF CreateHandle
    <3>. QED
      BY <1>0, <2>1, <3>1 DEF FaultTypes
  <2>5. CASE Delete(c)
    <3>1. lost' = [lost EXCEPT ![mP2p[c]] = 0] /\ refused' = [refused EXCEPT ![mP2p[c]] = FALSE]
      BY <2>5 DEF Delete
    <3>. QED
      BY <1>0, <2>1, <3>1 DEF FaultTypes
  <2>. QED
    BY <1>1, <2>2, <2>3, <2>4, <2>5, Faults
<1>2. ASSUME NEW k \in Conns, OnKDisconnect(k) \/ HangUp(k)
      PROVE  FaultTypes' /\ session' = session
  BY <1>0, <1>2, CallStep DEF FaultTypes
<1>. QED
  BY <1>1, <1>2 DEF Next

\* Every step keeps the type of the state.
LEMMA TypeStep ==
  ASSUME TypeOK, HoldInv, ToldInv, Next
  PROVE  TypeOK'
<1>0. session' = session /\ session.maxTold \in Nat
  BY FaultTypeStep, Bounds
<1>1. told' \in [Channels -> 0 .. session'.maxTold]
  <2>0. told \in [Channels -> 0 .. session.maxTold]
    BY DEF TypeOK
  <2>1. told' \in [Channels -> Nat]
    <3>1. \A c \in Channels : told'[c] \in Nat
      BY ToldStep
    <3>2. \/ told' = told
          \/ \E c \in Channels : told' = [told EXCEPT ![c] = @ - 1]
          \/ \E k \in Conns : \E who : OnDisconnect(k, who)
      <4>1. ASSUME NEW c \in Channels, Step(c) \/ App(c)
            PROVE  told' = told \/ told' = [told EXCEPT ![c] = @ - 1]
        BY <4>1, ZenonT(30) DEF Step, App, ConnectAgain, Connect, Join, NewConnector, HaveHandle, CreateHandle, NoHandle,
          CachedResult, Store, OldLibrary, Dial, Answer, Leave, Drop, Remove, Close, Delete, Disconnect, OpenStream,
          OpenFails, CloseStream
      <4>2. ASSUME NEW k \in Conns, OnKDisconnect(k) \/ HangUp(k)
            PROVE  told' = told \/ \E who : OnDisconnect(k, who)
        BY <4>2, ZenonT(30) DEF OnKDisconnect, HangUp, Lookup, TellGlobal, TellStreams, Mark
      <4>. QED
        BY <4>1, <4>2 DEF Next
    <3>3. told' = [c \in Channels |-> told'[c]]
      <4>1. ASSUME NEW k \in Conns, NEW who, OnDisconnect(k, who)
            PROVE  told' = [c \in Channels |-> told'[c]]
        BY <4>1 DEF OnDisconnect
      <4>. QED
        BY <2>0, <3>2, <4>1
    <3>. QED
      BY <3>1, <3>3
  <2>2. \A c \in Channels : told'[c] <= session.maxTold
    <3>1. Cardinality(Twice') \in Nat /\ Cardinality(Once') \in Nat
      <4>1. (Cardinality(Twice) \in Nat /\ Cardinality(Once) \in Nat)'
        BY CallsFinite, PTL
      <4>. QED
        BY <4>1
    <3>. QED
      BY <1>0, <2>1, <3>1, ToldStep DEF ToldInv
  <2>. QED
    BY <1>0, <2>1, <2>2
<1>. QED
  BY <1>1, ConnTypeStep, LinkTypeStep, TaskTypeStep, FlagTypeStep, FaultTypeStep DEF TypeOK, LinkTypes, TaskTypes,
    FaultTypes, Places

-----------------------------------------------------------------------------
(* The holders of a connector. *)

\* The steps that neither take a connector nor let one go.
Steady == mP2p' = mP2p /\ lost' = lost /\ \A k \in Conns : SameUse(k)

\* The users of a connector change only where CreateConnector takes it and where
\* DestroyConnector counts down, takes it off the list or deletes it.
LEMMA Steadily ==
  ASSUME TypeOK, HoldInv
  PROVE  /\ \A c \in Channels : Light(c) \/ CreateHandle(c) \/ Dial(c) \/ Store(c) \/ OpenStream(c) \/ OpenFails(c)
                                \/ CloseStream(c) \/ Close(c) => Steady
         /\ \A k \in Conns : OnKDisconnect(k) \/ HangUp(k) => Steady
<1>1. ASSUME NEW c \in Channels, Light(c)
      PROVE  Steady
  BY <1>1, LightDoes DEF Steady, SameUse
<1>2. ASSUME NEW c \in Channels,
             CreateHandle(c) \/ Dial(c) \/ Store(c) \/ OpenStream(c) \/ OpenFails(c) \/ CloseStream(c) \/ Close(c)
      PROVE  Steady
  <2>1. mP2p' = mP2p /\ lost' = lost
    BY <1>2, ZenonT(30) DEF CreateHandle, Dial, Store, OpenStream, OpenFails, CloseStream, Close, faultVars
  <2>2. mP2p[c] \in Conns /\ Aside(mP2p[c])
    BY <1>2, HeavyHas DEF Heavy
  <2>3. SameUse(mP2p[c])
    BY <1>2, <2>2, HandleDoes, DialDoes, StoreDoes, OpenDoes, OpenFailsDoes, CloseStreamDoes, CloseDoes, ZenonT(30)
  <2>. QED
    BY <2>1, <2>2, <2>3 DEF Steady, SameUse, Aside
<1>3. ASSUME NEW k \in Conns, OnKDisconnect(k) \/ HangUp(k)
      PROVE  Steady
  <2>1. CASE Mark(k)
    <3>1. Aside(k) /\ SameUse(k)
      BY <2>1, MarkDoes, ZenonT(30)
    <3>. QED
      BY <1>3, <3>1, CallStep DEF Steady, SameUse, Aside
  <2>. QED
    BY <1>3, <2>1, CallStep DEF Steady, SameUse
<1>. QED
  BY <1>1, <1>2, <1>3

\* Without a change of users the holders of every connector stay the same.
LEMMA SteadyHolders ==
  ASSUME Steady
  PROVE  \A k : Holders(k)' = Holders(k)
BY DEF Steady, Holders

\* Where a task thread goes.
LEMMA Moves ==
  ASSUME TypeOK, NEW c \in Channels, Step(c) \/ App(c)
  PROVE  \/ (ConnectAgain(c) \/ Connect(c) \/ Disconnect(c)) /\ st[c] = "up" /\ st'[c] \in {"leave", "create", "idle"}
         \/ (ConnectAgain(c) \/ Connect(c)) /\ st[c] = "idle" /\ st'[c] = "create"
         \/ (Join(c) \/ NewConnector(c)) /\ st[c] = "create" /\ st'[c] = "handle"
         \/ (HaveHandle(c) \/ CreateHandle(c)) /\ st[c] = "handle" /\ st'[c] = "connect"
         \/ NoHandle(c) /\ st[c] = "connect" /\ st'[c] \in {"leave", "idle"}
         \/ CachedResult(c) /\ st[c] = "connect" /\ st'[c] \in {"up", "leave", "idle"}
         \/ Dial(c) /\ st[c] = "connect" /\ st'[c] = "dial"
         \/ Answer(c) /\ st[c] = "dial" /\ st'[c] = "store"
         \/ Store(c) /\ st[c] = "store" /\ st'[c] \in {"up", "leave", "idle"}
         \/ OldLibrary(c) /\ st[c] = "old" /\ st'[c] = "idle"
         \/ (OpenStream(c) \/ CloseStream(c)) /\ st[c] \in {"idle", "up"} /\ st'[c] = st[c]
         \/ OpenFails(c) /\ st[c] \in {"idle", "up"} /\ st'[c] = "create"
         \/ Leave(c) /\ st[c] = "leave" /\ st'[c] \in {"drop", "remove"}
         \/ Remove(c) /\ st[c] = "remove" /\ st'[c] = "close"
         \/ Close(c) /\ st[c] = "close" /\ st'[c] = "delete"
         \/ (Drop(c) \/ Delete(c)) /\ st[c] \in {"drop", "delete"} /\ st'[c] \in {"idle", "create", "old"}
<1>0. st \in [Channels -> Places] /\ after \in [Channels -> {"idle", "create", "old"}]
  BY DEF TypeOK, Places
<1>. USE <1>0 DEF At, Go
<1>1. CASE ConnectAgain(c) \/ Connect(c)
  <2>1. DoConnect(c)
    BY <1>1 DEF ConnectAgain, Connect
  <2>. QED
    BY <1>1, <2>1 DEF DoConnect, DoDisconnect
<1>2. CASE HaveHandle(c) \/ OldLibrary(c) \/ Leave(c) \/ Answer(c)
  BY <1>2, ZenonT(90) DEF HaveHandle, OldLibrary, Leave, Answer
<1>8. CASE Disconnect(c)
  BY <1>8 DEF Disconnect, DoDisconnect
<1>3. CASE CachedResult(c) \/ Store(c)
  BY <1>3, ZenonT(30) DEF CachedResult, Store, Result
<1>9. CASE NoHandle(c)
  <2>1. PICK r \in {"failed", "notFound"} : Result(c, r)
    BY <1>9 DEF NoHandle
  <2>. QED
    BY <1>9, <2>1 DEF NoHandle, Result
<1>4. CASE Join(c) \/ NewConnector(c)
  BY <1>4 DEF Join, NewConnector
<1>5. CASE CreateHandle(c) \/ Dial(c) \/ Remove(c) \/ Close(c)
  BY <1>5, ZenonT(60) DEF CreateHandle, Dial, Remove, Close
<1>7. CASE OpenStream(c) \/ OpenFails(c) \/ CloseStream(c)
  BY <1>7 DEF OpenStream, OpenFails, CloseStream, Holds
<1>6. CASE Drop(c) \/ Delete(c)
  BY <1>6 DEF Drop, Delete, Gone
<1>. QED
  BY <1>1, <1>2, <1>3, <1>4, <1>5, <1>6, <1>7, <1>8, <1>9, ZenonT(30) DEF Step, App

\* A task thread changes its connector in CreateConnector, and lets go of it in
\* DestroyConnector.
LEMMA Takes ==
  ASSUME TypeOK, HoldInv, NEW c \in Channels, Step(c) \/ App(c)
  PROVE  \/ mP2p'[c] = mP2p[c] /\ ~Join(c) /\ ~NewConnector(c) /\ ~Drop(c) /\ ~Delete(c)
         \/ (Join(c) \/ NewConnector(c)) /\ mP2p'[c] \in Conns
         \/ (Drop(c) \/ Delete(c)) /\ mP2p'[c] = 0
<1>0. mP2p \in [Channels -> Conns \cup {0}]
  BY DEF TypeOK
<1>1. CASE Drop(c) \/ Delete(c)
  BY <1>0, <1>1 DEF Drop, Delete, Gone
<1>2. CASE Join(c) \/ NewConnector(c)
  <2>1. PICK k \in Conns : mP2p' = [mP2p EXCEPT ![c] = k]
    BY <1>2 DEF Join, NewConnector, Overwrite
  <2>. QED
    BY <1>0, <1>2, <2>1
<1>3. CASE ~(Join(c) \/ NewConnector(c) \/ Drop(c) \/ Delete(c))
  <2>1. CASE Remove(c)
    BY <1>3, <2>1, ZenonT(30) DEF Remove
  <2>2. CASE ~Remove(c)
    BY <1>3, <2>2, Steps, Steadily, ZenonT(30) DEF Steady, Heavy
  <2>. QED
    BY <2>1, <2>2
<1>. QED
  BY <1>1, <1>2, <1>3

\* A channel that moves past CreateConnector has a connector.
LEMMA PlaceStep ==
  ASSUME TypeOK, HoldInv, NEW c \in Channels, Step(c) \/ App(c)
  PROVE  mP2p'[c] = 0 => st'[c] \in {"idle", "create", "old"}
<1>0. 0 \notin Conns /\ (mP2p[c] = 0 => st[c] \in {"idle", "create", "old"})
  BY Sizes DEF HoldInv, NoOne
<1>1. CASE Drop(c) \/ Delete(c)
  BY <1>1, Moves, ZenonT(30) DEF Drop, Delete, At
<1>2. CASE Join(c) \/ NewConnector(c)
  BY <1>0, <1>2, Takes, ZenonT(30) DEF Join, NewConnector, Drop, Delete, At
<1>3. CASE mP2p'[c] = mP2p[c] /\ ~Join(c) /\ ~NewConnector(c) /\ mP2p[c] = 0
  BY <1>0, <1>3, Moves
<1>. QED
  BY <1>1, <1>2, <1>3, Takes

\* HoldInv, for every step.
LEMMA HoldStep ==
  ASSUME TypeOK, HoldInv, Next
  PROVE  HoldInv'
<1>1. \A c \in Channels : mP2p'[c] = 0 => st'[c] \in {"idle", "create", "old"}
  <2>1. ASSUME NEW c \in Channels, Step(c) \/ App(c), NEW d \in Channels
        PROVE  mP2p'[d] = 0 => st'[d] \in {"idle", "create", "old"}
    <3>1. CASE d = c
      BY <2>1, <3>1, PlaceStep
    <3>2. CASE d # c
      BY <2>1, <3>2, OwnStep DEF Own, HoldInv
    <3>. QED
      BY <3>1, <3>2
  <2>2. ASSUME NEW k \in Conns, OnKDisconnect(k) \/ HangUp(k)
        PROVE  UNCHANGED <<mP2p, st>>
    BY <2>2, CallStep
  <2>. QED
    BY <2>1, <2>2, ZenonT(30) DEF Next, HoldInv
<1>2. CASE Steady
  BY <1>1, <1>2 DEF HoldInv, Steady, SameUse
<1>3. ASSUME NEW c \in Channels, Join(c)
      PROVE  HoldInv'
  <2>1. PICK k \in Conns : Aside(k) /\ conn'[k].listed = conn[k].listed
    BY <1>3, JoinDoes
  <2>. QED
    BY <1>1, <2>1 DEF HoldInv, Aside
<1>4. ASSUME NEW c \in Channels, NewConnector(c)
      PROVE  HoldInv'
  <2>1. PICK k \in Conns : Aside(k) /\ \A i \in Conns : ~conn[i].listed
    BY <1>4, NewDoes
  <2>. QED
    BY <1>1, <2>1 DEF HoldInv, Aside
<1>5. ASSUME NEW c \in Channels, Drop(c) \/ Remove(c) \/ Delete(c)
      PROVE  HoldInv'
  <2>1. PICK k \in Conns : k = mP2p[c] /\ Aside(k)
    BY <1>5, HeavyHas DEF Heavy
  <2>2. conn'[k].listed => conn[k].listed
    BY <1>5, <2>1, DropDoes, RemoveDoes, DeleteDoes, ZenonT(30)
  <2>. QED
    BY <1>1, <2>1, <2>2 DEF HoldInv, Aside
<1>. QED
  BY <1>2, <1>3, <1>4, <1>5, Steadily, Steps DEF Next, Heavy

-----------------------------------------------------------------------------
(* Without a race of DestroyConnector. *)

\* mUse and the list, for every step.
LEMMA UsesStep ==
  ASSUME TypeOK, HoldInv, ReleaseInv, Next, NEW i \in Conns
  PROVE  UsesAt(i)'
<1>0. /\ conn \in [Conns -> Connector] /\ lost \in [Conns -> Nat] /\ \A k \in Conns : conn[k].mUse \in Nat
      /\ mP2p \in [Channels -> Conns \cup {0}] /\ UsesAt(i)
  BY DEF TypeOK, Connector, ReleaseInv
<1>1. CASE Steady
  BY <1>0, <1>1, SteadyHolders DEF UsesAt, Steady, SameUse
<1>2. ASSUME NEW c \in Channels, Join(c)
      PROVE  UsesAt(i)'
  <2>1. PICK k \in Conns : /\ Overwrite(c, k) /\ Aside(k) /\ conn[k].listed
                           /\ conn'[k].alive = conn[k].alive /\ conn'[k].listed = conn[k].listed
                           /\ conn'[k].mUse = conn[k].mUse + 1
    BY <1>2, JoinDoes
  <2>2. /\ Cardinality(Holders(k)') + lost'[k] = Cardinality(Holders(k)) + lost[k] + 1
        /\ \A j \in Conns \ {k} : Cardinality(Holders(j)') + lost'[j] = Cardinality(Holders(j)) + lost[j]
    BY <2>1, Overwritten, ZenonT(30)
  <2>3. CASE i = k
    BY <1>0, <2>1, <2>2, <2>3 DEF UsesAt
  <2>4. CASE i # k
    BY <1>0, <2>1, <2>2, <2>4 DEF UsesAt, Aside
  <2>. QED
    BY <2>3, <2>4
<1>3. ASSUME NEW c \in Channels, NewConnector(c)
      PROVE  UsesAt(i)'
  <2>1. PICK k \in Conns : /\ Overwrite(c, k) /\ Aside(k) /\ ~conn[k].alive
                           /\ conn'[k].alive /\ conn'[k].listed /\ conn'[k].mUse = 1
    BY <1>3, NewDoes
  <2>2. /\ Cardinality(Holders(k)') + lost'[k] = Cardinality(Holders(k)) + lost[k] + 1
        /\ \A j \in Conns \ {k} : Cardinality(Holders(j)') + lost'[j] = Cardinality(Holders(j)) + lost[j]
    BY <2>1, Overwritten, ZenonT(30)
  <2>3. Cardinality(Holders(k)) + lost[k] = 0
    BY <1>0, <2>1 DEF ReleaseInv, UsesAt
  <2>5. CASE i = k
    BY <2>1, <2>2, <2>3, <2>5 DEF UsesAt
  <2>6. CASE i # k
    BY <1>0, <2>1, <2>2, <2>6 DEF UsesAt, Aside
  <2>. QED
    BY <2>5, <2>6
<1>4. ASSUME NEW c \in Channels, Drop(c)
      PROVE  UsesAt(i)'
  <2>1. PICK k \in Conns : /\ k = mP2p[c] /\ Aside(k) /\ conn'[k].mUse = UseDown(k) /\ conn'[k].listed = conn[k].listed
                           /\ conn'[k].alive = conn[k].alive
    BY <1>4, HeavyHas, DropDoes, ZenonT(30) DEF Heavy
  <2>2. /\ Cardinality(Holders(k)') = Cardinality(Holders(k)) - 1
        /\ \A j \in Conns \ {k} : Holders(j)' = Holders(j)
    BY <1>0, <1>4, <2>1, HolderGoes, ZenonT(30) DEF Drop, Gone
  <2>3. conn[k].mUse > 1
    BY <1>4, <2>1 DEF Drop, At, ReleaseInv, HoldsAt
  <2>4. lost' = lost
    BY <1>4 DEF Drop, faultVars
  <2>5. Cardinality(Holders(k)) \in Nat
    BY HoldersFinite
  <2>6. CASE i = k
    BY <1>0, <2>1, <2>2, <2>3, <2>4, <2>5, <2>6 DEF UsesAt, UseDown
  <2>7. CASE i # k
    BY <1>0, <2>1, <2>2, <2>4, <2>7 DEF UsesAt, Aside
  <2>. QED
    BY <2>6, <2>7
<1>5. ASSUME NEW c \in Channels, Remove(c)
      PROVE  UsesAt(i)'
  <2>1. PICK k \in Conns : /\ k = mP2p[c] /\ Aside(k) /\ conn'[k].mUse = conn[k].mUse /\ ~conn'[k].listed
                           /\ conn'[k].alive = conn[k].alive
    BY <1>5, HeavyHas, RemoveDoes, ZenonT(30) DEF Heavy
  <2>2. mP2p' = mP2p /\ lost' = lost
    BY <1>5 DEF Remove, faultVars
  <2>3. Holders(i)' = Holders(i)
    BY <2>2 DEF Holders
  <2>. QED
    BY <1>0, <2>1, <2>2, <2>3 DEF UsesAt, Aside
<1>6. ASSUME NEW c \in Channels, Delete(c)
      PROVE  UsesAt(i)'
  <2>1. PICK k \in Conns : k = mP2p[c] /\ Aside(k) /\ conn'[k].mUse = 0 /\ ~conn'[k].listed /\ ~conn'[k].alive
    BY <1>6, HeavyHas, DeleteDoes DEF Heavy
  <2>2. /\ Cardinality(Holders(k)') = Cardinality(Holders(k)) - 1
        /\ \A j \in Conns \ {k} : Holders(j)' = Holders(j)
    BY <1>0, <1>6, <2>1, HolderGoes, ZenonT(30) DEF Delete, Gone
  <2>3. lost'[k] = 0 /\ \A j \in Conns \ {k} : lost'[j] = lost[j]
    BY <1>0, <1>6, <2>1 DEF Delete
  <2>4. Cardinality(Holders(k)') = 0
    <3>1. conn[k].mUse = 1 /\ UsesAt(k)
      BY <1>6, <2>1, ZenonT(30) DEF Delete, At, ReleaseInv, HoldsAt
    <3>2. Cardinality(Holders(k)) > 0 /\ Cardinality(Holders(k)) \in Nat
      BY <2>1, HolderCounts, HoldersFinite
    <3>. QED
      BY <1>0, <2>2, <3>1, <3>2 DEF UsesAt
  <2>5. CASE i = k
    BY <2>1, <2>3, <2>4, <2>5 DEF UsesAt
  <2>6. CASE i # k
    BY <1>0, <2>1, <2>2, <2>3, <2>6 DEF UsesAt, Aside
  <2>. QED
    BY <2>5, <2>6
<1>. QED
  BY <1>1, <1>2, <1>3, <1>4, <1>5, <1>6, Steadily, Steps DEF Next, Heavy

\* A connector that a channel holds exists, and the channel that releases it is
\* alone with it.
LEMMA Held ==
  ASSUME TypeOK, ReleaseInv, NEW c \in Channels, NEW k \in Conns, k = mP2p[c]
  PROVE  /\ conn[k].alive
         /\ st[c] \in {"remove", "close", "delete"} => \A d \in Channels \ {c} : mP2p[d] # k
<1>0. UsesAt(k) /\ HoldsAt(c) /\ lost[k] \in Nat /\ Cardinality(Holders(k)) \in Nat
  BY HoldersFinite DEF ReleaseInv, TypeOK
<1>1. /\ Cardinality(Holders(k)) > 0
      /\ Cardinality(Holders(k)) > 1 <=> \E d \in Channels \ {c} : mP2p[d] = k
  BY HolderCounts
<1>2. conn[k].alive
  BY <1>0, <1>1 DEF UsesAt
<1>3. ASSUME st[c] \in {"remove", "close", "delete"}
      PROVE  \A d \in Channels \ {c} : mP2p[d] # k
  <2>1. conn[k].mUse = 1
    BY <1>0, <1>3 DEF HoldsAt
  <2>2. ~(Cardinality(Holders(k)) > 1)
    BY <1>0, <2>1 DEF UsesAt
  <2>. QED
    BY <1>1, <2>2
<1>. QED
  BY <1>2, <1>3

\* What a step of channel c leaves to another channel d that holds connector j.
Kept(c, d, j) ==
  /\ conn'[j].listed = conn[j].listed
  /\ conn[j].mHandle \/ refused[j] => conn'[j].mHandle \/ refused'[j]
  /\ conn[j].lock = d => conn'[j].lock = d /\ (conn[j].mHandle => conn'[j].mHandle)
  /\ conn'[j].mUse = conn[j].mUse \/ (Join(c) /\ mP2p'[c] = j) \/ (Drop(c) /\ mP2p[c] = j)

\* Nobody else takes the connector away from a channel that uses it.
LEMMA OthersKeep ==
  ASSUME TypeOK, HoldInv, ReleaseInv, NEW c \in Channels, Step(c) \/ App(c), NEW d \in Channels \ {c},
         NEW j \in Conns, j = mP2p[d]
  PROVE  Kept(c, d, j)
<1>0. NoOne \notin Channels
  BY Sizes
<1>. USE DEF Kept
<1>1. CASE Light(c)
  BY <1>1, LightDoes
<1>2. CASE Join(c)
  <2>1. PICK k \in Conns : /\ Overwrite(c, k) /\ Aside(k) /\ SameHandle(k) /\ SameLock(k)
                           /\ conn'[k].listed = conn[k].listed
    BY <1>2, JoinDoes
  <2>2. mP2p'[c] = k /\ refused' = refused
    BY <1>2, <2>1, Overwritten DEF Join
  <2>3. CASE j = k
    BY <1>2, <2>1, <2>2, <2>3 DEF SameHandle, SameLock
  <2>4. CASE j # k
    BY <2>1, <2>2, <2>4 DEF Aside
  <2>. QED
    BY <2>3, <2>4
<1>3. CASE NewConnector(c)
  <2>1. PICK k \in Conns : Aside(k) /\ ~conn[k].alive
    BY <1>3, NewDoes
  <2>2. k # j /\ refused' = refused
    BY <1>3, <2>1, Held, ZenonT(30) DEF NewConnector
  <2>. QED
    BY <2>1, <2>2 DEF Aside
<1>4. CASE Heavy(c) /\ mP2p[c] # j
  <2>1. conn'[j] = conn[j]
    BY <1>4, HeavyHas DEF Aside
  <2>2. refused'[j] = refused[j]
    <3>1. CASE CreateHandle(c)
      BY <1>4, <3>1, HeavyHas, HandleDoes, ZenonT(30)
    <3>2. CASE Delete(c)
      BY <1>4, <3>2 DEF Delete, TypeOK
    <3>3. CASE ~CreateHandle(c) /\ ~Delete(c)
      <4>1. ~Join(c) /\ ~NewConnector(c)
        BY <1>4, ZenonT(30) DEF Heavy, Join, NewConnector, CreateHandle, Dial, Store, OpenStream, OpenFails, CloseStream,
          Holds, Drop, Remove, Close, Delete, At
      <4>. QED
        BY <3>3, <4>1, Faults, ZenonT(30)
    <3>. QED
      BY <3>1, <3>2, <3>3
  <2>. QED
    BY <2>1, <2>2
<1>5. CASE mP2p[c] = j /\ (Remove(c) \/ Close(c) \/ Delete(c))
  <2>1. st[c] \in {"remove", "close", "delete"}
    BY <1>5 DEF Remove, Close, Delete, At
  <2>. QED
    BY <1>5, <2>1, Held
<1>6. CASE mP2p[c] = j /\ (CreateHandle(c) \/ OpenStream(c) \/ OpenFails(c) \/ CloseStream(c) \/ Drop(c))
  <2>1. CASE CreateHandle(c)
    <3>1. conn[j].lock = NoOne
      BY <1>6, <2>1 DEF CreateHandle, Unlocked
    <3>. QED
      BY <1>0, <1>6, <2>1, <3>1, HandleDoes, ZenonT(30) DEF SameUse, SameLock
  <2>. USE DEF faultVars
  <2>2. CASE OpenStream(c)
    <3>1. refused' = refused
      BY <2>2 DEF OpenStream
    <3>. QED
      BY <1>6, <2>2, <3>1, OpenDoes, ZenonT(30) DEF SameUse, SameHandle, SameLock
  <2>5. CASE OpenFails(c)
    <3>1. refused' = refused
      BY <2>5 DEF OpenFails
    <3>. QED
      BY <1>6, <2>5, <3>1, OpenFailsDoes, ZenonT(30) DEF SameUse, SameHandle, SameLock
  <2>3. CASE CloseStream(c)
    <3>1. refused' = refused
      BY <2>3 DEF CloseStream
    <3>. QED
      BY <1>6, <2>3, <3>1, CloseStreamDoes, ZenonT(30) DEF SameUse, SameHandle, SameLock
  <2>4. CASE Drop(c)
    <3>1. refused' = refused
      BY <2>4 DEF Drop
    <3>. QED
      BY <1>6, <2>4, <3>1, DropDoes DEF SameHandle, SameLock
  <2>. QED
    BY <1>6, <2>1, <2>2, <2>3, <2>4, <2>5, ZenonT(30)
<1>7. CASE mP2p[c] = j /\ Dial(c)
  <2>1. conn[j].lock = NoOne /\ refused' = refused
    BY <1>7 DEF Dial, Unlocked, faultVars
  <2>. QED
    BY <1>0, <1>7, <2>1, DialDoes, ZenonT(60) DEF SameUse, SameHandle
<1>8. CASE mP2p[c] = j /\ Store(c)
  <2>1. conn[j].lock = c /\ refused' = refused
    BY <1>8 DEF Store, At, ReleaseInv, HoldsAt, faultVars
  <2>. QED
    BY <1>8, <2>1, StoreDoes DEF SameUse, SameHandle
<1>. QED
  BY <1>1, <1>2, <1>3, <1>4, <1>5, <1>6, <1>7, <1>8, Steps, ZenonT(30) DEF Heavy

\* Of the other channels, none past GetUse() meets one that comes or goes.
LEMMA OtherHolds ==
  ASSUME TypeOK, HoldInv, ReleaseInv, NEW c \in Channels, Step(c) \/ App(c), "release" \notin raced',
         NEW d \in Channels \ {c}
  PROVE  HoldsAt(d)'
<1>0. /\ HoldsAt(d) /\ HoldsAt(c) /\ st'[d] = st[d] /\ mP2p'[d] = mP2p[d] /\ 0 \notin Conns
      /\ mP2p \in [Channels -> Conns \cup {0}] /\ st \in [Channels -> Places]
      /\ \A e \in Channels \ {c} : st'[e] = st[e] /\ mP2p'[e] = mP2p[e]
  BY OwnStep, Sizes DEF ReleaseInv, Own, TypeOK, NoOne, Places
<1>1. CASE mP2p[d] \notin Conns
  <2>1. st[d] \in {"idle", "create", "old"} /\ mP2p'[d] = 0
    BY <1>0, <1>1, Has
  <2>. QED
    BY <1>0, <2>1, ZenonT(30) DEF HoldsAt, Past
<1>2. CASE mP2p[d] \in Conns
  <2>0. PICK j \in Conns : j = mP2p[d] /\ j = mP2p'[d]
    BY <1>0, <1>2, ZenonT(30)
  <2>1. /\ conn'[j].listed = conn[j].listed
        /\ conn[j].mHandle \/ refused[j] => conn'[j].mHandle \/ refused'[j]
        /\ conn[j].lock = d => conn'[j].lock = d /\ (conn[j].mHandle => conn'[j].mHandle)
        /\ conn'[j].mUse = conn[j].mUse \/ (Join(c) /\ mP2p'[c] = j) \/ (Drop(c) /\ mP2p[c] = j)
    <3>1. Kept(c, d, j)
      BY <2>0, OthersKeep
    <3>. QED
      BY <3>1, ZenonT(30) DEF Kept
  <2>2. st[d] \in Past => ~(Join(c) /\ mP2p'[c] = j) /\ ~(Leave(c) /\ mP2p[c] = j)
    <3>. SUFFICES ASSUME st[d] \in Past, (Join(c) /\ mP2p'[c] = j) \/ (Leave(c) /\ mP2p[c] = j)
                  PROVE  FALSE
      OBVIOUS
    <3>1. Releasing(c, j)
      BY <2>0, ZenonT(30) DEF Releasing, Past
    <3>2. CASE Join(c) /\ mP2p'[c] = j
      <4>1. PICK k \in Conns : Overwrite(c, k) /\ raced' = raced \cup Race("release", Releasing(c, k))
        BY <3>2, JoinDoes, ZenonT(30)
      <4>2. k = j
        BY <3>2, <4>1, Overwritten, ZenonT(30)
      <4>. QED
        BY <3>1, <4>1, <4>2 DEF Race
    <3>3. CASE Leave(c) /\ mP2p[c] = j
      BY <3>1, <3>3, ZenonT(30) DEF Leave, Note, Race
    <3>. QED
      BY <3>2, <3>3, ZenonT(30)
  <2>4. st[d] \in Past /\ mP2p[c] = j => st[c] \notin Past
    BY <1>0, <2>0 DEF HoldsAt, Releasing, Past
  <2>5. st[d] \in Past => conn'[j].mUse = conn[j].mUse
    <3>1. Drop(c) => st[c] \in Past
      BY DEF Drop, At, Past
    <3>. QED
      BY <2>1, <2>2, <2>4, <3>1
  <2>6. st[d] \in Past => ~Releasing(d, j)'
    <3>. SUFFICES ASSUME st[d] \in Past, NEW e \in Channels \ {d}, mP2p'[e] = j, st'[e] \in Past
                  PROVE  FALSE
      BY ZenonT(30) DEF Releasing, Past
    <3>1. CASE e = c
      <4>1. (st[c] \in Past /\ ~Join(c) /\ ~NewConnector(c) /\ ~Drop(c) /\ ~Delete(c)) \/ Leave(c)
        BY <3>1, Moves, ZenonT(60) DEF Past, Drop, Delete, Join, NewConnector, At
      <4>2. mP2p[c] = j
        BY <3>1, <4>1, Takes, ZenonT(30) DEF Leave, Join, NewConnector, Drop, Delete, At
      <4>. QED
        BY <2>2, <2>4, <4>1, <4>2
    <3>2. CASE e # c
      BY <1>0, <2>0, <3>2, ZenonT(30) DEF HoldsAt, Releasing, Past
    <3>. QED
      BY <3>1, <3>2, ZenonT(30)
  <2>7. st[d] = "drop" => conn'[j].mUse > 1
    BY <1>0, <2>0, <2>5 DEF HoldsAt, Past
  <2>8. st[d] \in {"remove", "close", "delete"} => conn'[j].mUse = 1
    BY <1>0, <2>0, <2>5 DEF HoldsAt, Past
  <2>. QED
    BY <1>0, <2>0, <2>1, <2>6, <2>7, <2>8 DEF HoldsAt
<1>. QED
  BY <1>1, <1>2

\* The channel that moves.
LEMMA OwnHolds ==
  ASSUME TypeOK, HoldInv, ReleaseInv, NEW c \in Channels, Step(c) \/ App(c), "release" \notin raced'
  PROVE  HoldsAt(c)'
<1>0. /\ HoldsAt(c) /\ after[c] \in {"idle", "create", "old"}
      /\ \A e \in Channels \ {c} : st'[e] = st[e] /\ mP2p'[e] = mP2p[e]
  BY OwnStep, ZenonT(30) DEF ReleaseInv, Own, TypeOK
<1>2. CASE Join(c)
  <2>1. PICK k \in Conns : Overwrite(c, k) /\ conn[k].listed /\ conn'[k].listed = conn[k].listed
    BY <1>2, JoinDoes, ZenonT(30)
  <2>2. mP2p'[c] = k
    BY <2>1, Overwritten
  <2>3. st'[c] = "handle"
    BY <1>2 DEF Join, Go, TypeOK
  <2>. QED
    BY <2>1, <2>2, <2>3, ZenonT(30) DEF HoldsAt, Past
<1>3. CASE NewConnector(c)
  <2>1. PICK k \in Conns : Overwrite(c, k) /\ conn'[k].listed
    BY <1>3, NewDoes, ZenonT(30)
  <2>2. mP2p'[c] = k
    BY <2>1, Overwritten
  <2>3. st'[c] = "handle"
    BY <1>3 DEF NewConnector, Go, TypeOK
  <2>. QED
    BY <2>1, <2>2, <2>3, ZenonT(30) DEF HoldsAt, Past
<1>4. CASE Leave(c)
  <2>1. UNCHANGED <<conn, mP2p>> /\ st[c] = "leave" /\ raced' = raced \cup Race("release", Releasing(c, mP2p[c]))
    BY <1>4 DEF Leave, At, Note
  <2>2. PICK k \in Conns : k = mP2p[c] /\ k = mP2p'[c]
    BY <2>1, Has
  <2>3. ~Releasing(c, k)
    BY <2>1, <2>2 DEF Race
  <2>4. ~Releasing(c, k)'
    BY <1>0, <2>3 DEF Releasing
  <2>5. st'[c] = IF conn[k].mUse > 1 THEN "drop" ELSE "remove"
    BY <1>4, <2>2 DEF Leave, Go, TypeOK
  <2>6. conn[k].mUse > 1 \/ conn[k].mUse = 1
    <3>1. conn[k].alive /\ UsesAt(k) /\ conn[k].mUse \in Nat
      BY <2>2, Held DEF ReleaseInv, TypeOK, Connector
    <3>. QED
      BY <3>1 DEF UsesAt
  <2>7. conn[k].listed
    BY <1>0, <2>1, <2>2, Sizes DEF HoldsAt, NoOne
  <2>8. CASE conn[k].mUse > 1
    BY <2>1, <2>2, <2>4, <2>5, <2>7, <2>8 DEF HoldsAt, Past
  <2>9. CASE conn[k].mUse = 1
    BY <2>1, <2>2, <2>4, <2>5, <2>7, <2>9 DEF HoldsAt, Past
  <2>. QED
    BY <2>6, <2>8, <2>9
<1>5. CASE Light(c) /\ ~Leave(c)
  <2>1. UNCHANGED <<conn, mP2p, refused>>
    BY <1>5, LightDoes
  <2>2. \/ st[c] \notin {"close", "delete"} /\ st'[c] \in {"create", "idle", "leave"}
        \/ st[c] = "handle" /\ st'[c] = "connect" /\ conn[mP2p[c]].mHandle
        \/ st[c] = "connect" /\ st'[c] = "up"
        \/ st[c] = "dial" /\ st'[c] = "store"
    <3>1. CASE HaveHandle(c)
      BY <3>1 DEF HaveHandle, At, Go, TypeOK
    <3>2. CASE ConnectAgain(c) \/ Connect(c) \/ Disconnect(c) \/ NoHandle(c) \/ CachedResult(c) \/ Answer(c) \/ OldLibrary(c)
      <4>1. ~(Join(c) \/ NewConnector(c) \/ HaveHandle(c) \/ CreateHandle(c) \/ Dial(c) \/ Store(c) \/ Leave(c) \/ Remove(c)
              \/ Close(c) \/ Drop(c) \/ Delete(c)) \/ ConnectAgain(c) \/ Connect(c) \/ Disconnect(c)
        BY <3>2, ZenonT(30) DEF Join, NewConnector, HaveHandle, CreateHandle, Dial, Store, Leave, Remove, Close, Drop,
          Delete, NoHandle, CachedResult, Answer, OldLibrary, At
      <4>2. st[c] \in {"idle", "up"} \/ ~(ConnectAgain(c) \/ Connect(c) \/ Disconnect(c))
        BY DEF ConnectAgain, Connect, Disconnect, DoConnect, At
      <4>3. CASE ConnectAgain(c) \/ Connect(c) \/ Disconnect(c)
        <5>1. st'[c] \in {"create", "idle", "leave"}
          BY <4>3 DEF ConnectAgain, Connect, Disconnect, DoConnect, DoDisconnect, At, Go, TypeOK
        <5>. QED
          BY <4>2, <4>3, <5>1
      <4>4. CASE ~(ConnectAgain(c) \/ Connect(c) \/ Disconnect(c))
        <5>1. CASE NoHandle(c) \/ CachedResult(c)
          <6>1. st[c] = "connect"
            BY <5>1 DEF NoHandle, CachedResult, At
          <6>2. st'[c] \in {"up", "leave", "idle"}
            BY <4>1, <4>4, <6>1, Moves, ZenonT(30)
          <6>. QED
            BY <6>1, <6>2
        <5>2. CASE Answer(c) \/ OldLibrary(c)
          BY <5>2 DEF Answer, OldLibrary, At, Go, TypeOK
        <5>. QED
          BY <3>2, <4>4, <5>1, <5>2
      <4>. QED
        BY <4>3, <4>4
    <3>. QED
      BY <1>5, <3>1, <3>2 DEF Light
  <2>. QED
    BY <1>0, <2>1, <2>2, ZenonT(60) DEF HoldsAt, Past
<1>6. CASE CreateHandle(c) \/ Dial(c) \/ Store(c) \/ OpenStream(c) \/ OpenFails(c) \/ CloseStream(c)
  <2>1. PICK k \in Conns : k = mP2p[c] /\ k = mP2p'[c]
    BY <1>6, HeavyHas, ZenonT(30) DEF Heavy, CreateHandle, Dial, Store, OpenStream, OpenFails, CloseStream
  <2>. USE Sizes DEF NoOne
  <2>2. CASE CreateHandle(c)
    <3>1. st[c] = "handle" /\ st'[c] = "connect"
      BY <2>2 DEF CreateHandle, At, Go, TypeOK
    <3>2. conn'[k].listed = conn[k].listed /\ (conn'[k].mHandle \/ refused'[k])
      BY <2>1, <2>2, HandleDoes, ZenonT(30) DEF SameUse
    <3>. QED
      BY <1>0, <2>1, <3>1, <3>2, ZenonT(30) DEF HoldsAt, Past
  <2>3. CASE Dial(c)
    <3>1. st[c] = "connect" /\ st'[c] = "dial" /\ conn[k].mHandle
      BY <2>1, <2>3 DEF Dial, At, Go, TypeOK
    <3>2. conn'[k].listed = conn[k].listed /\ conn'[k].mHandle = conn[k].mHandle /\ conn'[k].lock = c
      BY <2>1, <2>3, DialDoes, ZenonT(30) DEF SameUse, SameHandle
    <3>. QED
      BY <1>0, <2>1, <3>1, <3>2, ZenonT(30) DEF HoldsAt, Past
  <2>4. CASE Store(c)
    <3>1. st[c] = "store" /\ st'[c] \in {"up", "leave", "idle"}
      BY <2>4 DEF Store, Result, At, Go, TypeOK
    <3>2. conn'[k].listed = conn[k].listed /\ conn'[k].mHandle = conn[k].mHandle
      BY <2>1, <2>4, StoreDoes, ZenonT(30) DEF SameUse, SameHandle
    <3>. QED
      BY <1>0, <2>1, <3>1, <3>2, ZenonT(30) DEF HoldsAt, Past
  <2>5. CASE OpenStream(c) \/ OpenFails(c) \/ CloseStream(c)
    <3>1. st[c] \in {"idle", "up"} /\ st'[c] \in {st[c], "create"}
      BY <2>5 DEF OpenStream, OpenFails, CloseStream, Holds, Go, TypeOK
    <3>2. conn'[k].listed = conn[k].listed /\ conn'[k].mHandle = conn[k].mHandle
      BY <2>1, <2>5, OpenDoes, OpenFailsDoes, CloseStreamDoes, ZenonT(30) DEF SameUse, SameHandle
    <3>3. refused' = refused
      BY <2>5 DEF OpenStream, OpenFails, CloseStream, faultVars
    <3>. QED
      BY <1>0, <2>1, <3>1, <3>2, <3>3, ZenonT(30) DEF HoldsAt, Past
  <2>. QED
    BY <1>6, <2>2, <2>3, <2>4, <2>5
<1>7. CASE Remove(c) \/ Close(c)
  <2>1. mP2p' = mP2p /\ st[c] \in {"remove", "close"} /\ st'[c] \in {"close", "delete"}
    BY <1>7 DEF Remove, Close, At, Go, TypeOK
  <2>2. ~Releasing(c, mP2p[c])'
    BY <1>0, <2>1, ZenonT(30) DEF HoldsAt, Releasing, Past
  <2>3. conn'[mP2p[c]].mUse = conn[mP2p[c]].mUse
    BY <1>7, HeavyHas, RemoveDoes, CloseDoes, ZenonT(30) DEF Heavy, SameUse
  <2>. QED
    BY <1>0, <2>1, <2>2, <2>3, ZenonT(30) DEF HoldsAt, Past
<1>8. CASE Drop(c) \/ Delete(c)
  <2>1. mP2p'[c] = 0 /\ st'[c] = after[c]
    BY <1>8 DEF Drop, Delete, Gone, Go, TypeOK
  <2>. QED
    BY <1>0, <2>1, ZenonT(30) DEF HoldsAt, Past
<1>. QED
  BY <1>2, <1>3, <1>4, <1>5, <1>6, <1>7, <1>8, Steps DEF Heavy

\* ReleaseInv, for every step.
LEMMA ReleaseStep ==
  ASSUME TypeOK, HoldInv, ReleaseInv, Next, "release" \notin raced'
  PROVE  ReleaseInv'
<1>1. \A k \in Conns : UsesAt(k)'
  BY UsesStep
<1>2. ASSUME NEW c \in Channels, Step(c) \/ App(c)
      PROVE  \A d \in Channels : HoldsAt(d)'
  BY <1>2, OwnHolds, OtherHolds
<1>3. ASSUME NEW k \in Conns, OnKDisconnect(k) \/ HangUp(k)
      PROVE  \A d \in Channels : HoldsAt(d)'
  <2>1. UNCHANGED <<mP2p, st, refused>>
    BY <1>3, CallStep
  <2>2. \A i \in Conns : /\ conn'[i].listed = conn[i].listed /\ conn'[i].mHandle = conn[i].mHandle
                         /\ conn'[i].lock = conn[i].lock /\ conn'[i].mUse = conn[i].mUse
    <3>1. CASE Mark(k)
      BY <3>1, MarkDoes, ZenonT(30) DEF Aside, SameUse, SameLock
    <3>. QED
      BY <1>3, <3>1, CallStep
  <2>3. ASSUME NEW d \in Channels
        PROVE  HoldsAt(d)'
    <3>1. HoldsAt(d)
      BY DEF ReleaseInv
    <3>2. CASE mP2p[d] \in Conns
      BY <2>1, <2>2, <3>1, <3>2 DEF HoldsAt, Releasing
    <3>3. CASE mP2p[d] \notin Conns
      <4>1. st[d] \in {"idle", "create", "old"} /\ mP2p[d] = 0
        BY <3>3, Has DEF TypeOK
      <4>. QED
        BY <2>1, <4>1 DEF HoldsAt, Past
    <3>. QED
      BY <3>2, <3>3
  <2>. QED
    BY <2>3
<1>. QED
  BY <1>1, <1>2, <1>3 DEF ReleaseInv, Next
=============================================================================
