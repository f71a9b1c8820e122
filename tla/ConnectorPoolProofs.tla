------------------------- MODULE ConnectorPoolProofs -------------------------
(***************************************************************************)
(* The safety of the shared links for any number of channels, connectors   *)
(* and callbacks: the steps for links and streams, and the theorems.       *)
(***************************************************************************)
EXTENDS ConnectorPoolRelease

\* A leaf that names no prover is tried with the SMT solver, a second time when its
\* translation does not finish, and then with Zenon.
USE SMTT(30), Z3T(30), ZenonT(30)

-----------------------------------------------------------------------------
(* Without any race: the links. *)

\* A connector that a step leaves alone.
Same(i) ==
  /\ SameHandle(i) /\ SameResult(i) /\ conn'[i].alive = conn[i].alive /\ conn'[i].listed = conn[i].listed
  /\ link'[i] = link[i]
Works(c) == Answer(c) \/ CreateHandle(c) \/ Store(c) \/ Remove(c) \/ Close(c) \/ Delete(c)

\* A step of a channel leaves every connector alone but the one it works on.
LEMMA SameElsewhere ==
  ASSUME TypeOK, HoldInv, NEW c \in Channels, Step(c) \/ App(c), NEW i \in Conns
  PROVE  Same(i) \/ (NewConnector(c) /\ i = mP2p'[c]) \/ (Works(c) /\ i = mP2p[c])
<1>0. link \in [Conns -> {"none", "up", "down"}] /\ mP2p \in [Channels -> Conns \cup {0}]
  BY DEF TypeOK
<1>1. CASE Light(c)
  <2>1. conn' = conn
    BY <1>1, LightDoes
  <2>2. link' = link \/ (Answer(c) /\ \A j \in Conns \ {mP2p[c]} : link'[j] = link[j])
    BY <1>0, <1>1, ZenonT(60) DEF Light, ConnectAgain, Connect, DoConnect, HaveHandle, NoHandle, CachedResult, Answer,
      OldLibrary, Leave, Disconnect
  <2>. QED
    BY <2>1, <2>2 DEF Same, SameHandle, SameResult, Works
<1>2. CASE Join(c)
  <2>1. PICK k \in Conns : /\ Aside(k) /\ SameHandle(k) /\ SameResult(k)
                           /\ conn'[k].alive = conn[k].alive /\ conn'[k].listed = conn[k].listed
    BY <1>2, JoinDoes
  <2>2. link' = link
    BY <1>2 DEF Join
  <2>. QED
    BY <2>1, <2>2 DEF Same, SameHandle, SameResult, Aside
<1>3. CASE NewConnector(c)
  <2>1. PICK k \in Conns : Aside(k) /\ Overwrite(c, k)
    BY <1>3, NewDoes
  <2>2. link' = link /\ mP2p'[c] = k
    BY <1>3, <2>1, Overwritten DEF NewConnector
  <2>. QED
    BY <1>3, <2>1, <2>2 DEF Same, SameHandle, SameResult, Aside
<1>4. CASE Dial(c) \/ OpenStream(c) \/ OpenFails(c) \/ CloseStream(c) \/ Drop(c)
  <2>1. PICK k \in Conns : k = mP2p[c] /\ Aside(k)
    BY <1>4, HeavyHas DEF Heavy
  <2>2. SameHandle(k) /\ SameResult(k) /\ conn'[k].alive = conn[k].alive /\ conn'[k].listed = conn[k].listed
    BY <1>4, <2>1, DialDoes, OpenDoes, OpenFailsDoes, CloseStreamDoes, DropDoes, ZenonT(30) DEF SameUse
  <2>3. link' = link
    BY <1>4, ZenonT(30) DEF Dial, OpenStream, OpenFails, CloseStream, Drop
  <2>. QED
    BY <2>1, <2>2, <2>3 DEF Same, SameHandle, SameResult, Aside
<1>5. CASE Heavy(c) /\ Works(c)
  <2>1. mP2p[c] \in Conns /\ Aside(mP2p[c])
    BY <1>5, HeavyHas
  <2>2. \A j \in Conns \ {mP2p[c]} : link'[j] = link[j]
    BY <1>0, <1>5, ZenonT(30) DEF Works, Answer, CreateHandle, Store, Remove, Close, Delete
  <2>. QED
    BY <1>5, <2>1, <2>2 DEF Same, SameHandle, SameResult, Aside
<1>. QED
  BY <1>1, <1>2, <1>3, <1>4, <1>5, Steps DEF Heavy, Works

\* Only storing the answer ends the storing.
LEMMA StoringKept ==
  ASSUME TypeOK, NEW c \in Channels, Step(c) \/ App(c), NEW i \in Conns, Storing(i)
  PROVE  Storing(i)' \/ (Store(c) /\ i = mP2p[c])
<1>1. PICK e \in Channels : st[e] = "store" /\ mP2p[e] = i /\ dialed[e] = "ok"
  BY DEF Storing
<1>2. CASE e = c
  BY <1>1, <1>2, Moves
<1>3. CASE e # c
  BY <1>1, <1>3, OwnStep DEF Own, Storing
<1>. QED
  BY <1>2, <1>3

\* A connector that is left alone keeps its part of the invariant.
LEMMA SameLink ==
  ASSUME TypeOK, NEW c \in Channels, Step(c) \/ App(c), NEW i \in Conns, Same(i), LinkAt(i),
         ~(Store(c) /\ i = mP2p[c])
  PROVE  LinkAt(i)'
<1>1. cb' = cb /\ (Storing(i) => Storing(i)')
  BY OwnStep, StoringKept
<1>. QED
  BY <1>1 DEF LinkAt, Same, SameHandle, SameResult

\* The link of the connector that channel c works on.
LEMMA WorkLink ==
  ASSUME TypeOK, HoldInv, ReleaseInv, LinkInv, NEW c \in Channels, Works(c), raced' = {}, NEW k \in Conns, k = mP2p[c]
  PROVE  LinkAt(k)'
<1>0. /\ LinkAt(k) /\ DialAt(c) /\ HoldsAt(c) /\ conn[k].alive /\ cb' = cb
      /\ link \in [Conns -> {"none", "up", "down"}] /\ dialed \in [Channels -> Results \cup {"unset"}]
      /\ st \in [Channels -> Places]
  BY OwnStep, Held DEF LinkInv, ReleaseInv, Works, Step, TypeOK, Places
<1>1. CASE Answer(c)
  <2>1. /\ st[c] = "dial" /\ st'[c] = "store" /\ conn' = conn /\ mP2p' = mP2p
        /\ \/ link' = link
           \/ link' = [link EXCEPT ![k] = "up"] /\ dialed'[c] = "ok"
    <3>1. PICK r \in Results : /\ dialed' = [dialed EXCEPT ![c] = r]
                               /\ link' = [link EXCEPT ![k] = IF r = "ok" THEN "up" ELSE @]
      BY <1>1, Bounds DEF Answer
    <3>2. CASE r = "ok"
      BY <1>0, <1>1, <3>1, <3>2 DEF Answer, At, Go
    <3>3. CASE r # "ok"
      BY <1>0, <1>1, <3>1, <3>3 DEF Answer, At, Go
    <3>. QED
      BY <3>2, <3>3
  <2>2. CASE link' = link
    BY <1>0, <1>1, <2>1, <2>2, SameLink, ZenonT(30) DEF Same, SameHandle, SameResult, Step, Store, At
  <2>3. CASE link' = [link EXCEPT ![k] = "up"] /\ dialed'[c] = "ok"
    <3>1. Storing(k)'
      BY <2>1, <2>3 DEF Storing
    <3>2. link'[k] = "up" /\ cb[k] = "none"
      BY <1>0, <2>1, <2>3 DEF DialAt
    <3>. QED
      BY <1>0, <2>1, <3>1, <3>2, ZenonT(30) DEF LinkAt, DialAt, HoldsAt
  <2>. QED
    BY <2>1, <2>2, <2>3
<1>2. CASE CreateHandle(c)
  <2>1. /\ ~conn[k].mHandle \/ conn[k].mDoneDisconnect
        /\ link'[k] = "none"
    BY <1>0, <1>2 DEF CreateHandle
  <2>2. link[k] # "up" /\ cb[k] = "none"
    BY <1>0, <2>1 DEF LinkAt
  <2>3. SameUse(k) /\ SameResult(k)
    BY <1>2, HandleDoes
  <2>. QED
    BY <1>0, <2>1, <2>2, <2>3, ZenonT(30) DEF LinkAt, SameUse, SameResult
<1>3. CASE Store(c)
  <2>1. /\ link' = link /\ st[c] = "store"
        /\ raced' = raced \cup Race("dead", dialed[c] = "ok" /\ link[k] # "up" /\ cb[k] \in {"none", "mark"})
    BY <1>3 DEF Store, At, Note
  <2>2. SameUse(k) /\ SameHandle(k) /\ conn'[k].mConnectResult = dialed[c]
    BY <1>3, StoreDoes
  <2>3. ~(dialed[c] = "ok" /\ link[k] # "up" /\ cb[k] = "none")
    BY <2>1 DEF Race
  <2>4. CASE dialed[c] = "ok"
    BY <1>0, <2>1, <2>2, <2>3, <2>4 DEF LinkAt, SameUse, SameHandle
  <2>5. CASE dialed[c] # "ok"
    <3>1. link[k] # "up" /\ cb[k] = "none"
      BY <1>0, <2>1, <2>5 DEF DialAt
    <3>. QED
      BY <1>0, <2>1, <2>2, <2>5, <3>1, ZenonT(30) DEF LinkAt, SameUse, SameHandle
  <2>. QED
    BY <2>4, <2>5
<1>4. CASE Remove(c)
  <2>1. link' = link /\ (Storing(k) => Storing(k)')
    BY <1>4, StoringKept, ZenonT(30) DEF Remove, Store, Step, At
  <2>2. SameHandle(k) /\ SameResult(k) /\ ~conn'[k].listed /\ conn'[k].alive = conn[k].alive
    BY <1>4, RemoveDoes
  <2>. QED
    BY <1>0, <2>1, <2>2, ZenonT(30) DEF LinkAt, SameHandle, SameResult
<1>5. CASE Close(c)
  <2>1. SameUse(k) /\ ~conn'[k].mHandle
    BY <1>5, CloseDoes
  <2>2. CASE UNCHANGED <<conn, link>>
    BY <1>0, <1>5, <2>2, SameLink, ZenonT(30) DEF Same, SameHandle, SameResult, Step, Close, Store, At
  <2>3. CASE ~UNCHANGED <<conn, link>>
    <3>1. link'[k] = "none" /\ cb[k] = "none"
      BY <1>0, <1>5, <2>3 DEF Close
    <3>2. conn'[k].mConnectResult = "unset"
      BY <1>5, <2>3, CloseDoes
    <3>. QED
      BY <1>0, <2>1, <3>1, <3>2 DEF LinkAt
  <2>. QED
    BY <2>2, <2>3
<1>6. CASE Delete(c)
  <2>1. link' = link /\ st[c] = "delete"
    BY <1>6 DEF Delete, At
  <2>2. link[k] # "up" /\ cb[k] = "none"
    BY <1>0, <2>1 DEF LinkAt, DialAt
  <2>3. ~conn'[k].mHandle /\ ~conn'[k].listed
    BY <1>6, DeleteDoes
  <2>. QED
    BY <1>0, <2>1, <2>2, <2>3 DEF LinkAt
<1>. QED
  BY <1>1, <1>2, <1>3, <1>4, <1>5, <1>6 DEF Works

\* All links, for a step of a channel.
LEMMA LinkTask ==
  ASSUME TypeOK, HoldInv, ReleaseInv, LinkInv, NEW c \in Channels, Step(c) \/ App(c), raced' = {}, NEW i \in Conns
  PROVE  LinkAt(i)'
<1>1. CASE Works(c) /\ i = mP2p[c]
  BY <1>1, WorkLink
<1>2. CASE NewConnector(c) /\ i = mP2p'[c]
  <2>0. NewConnector(c)
    BY <1>2
  <2>1. PICK k \in Conns : /\ ~conn[k].alive /\ Overwrite(c, k)
                           /\ ~conn'[k].mHandle /\ conn'[k].mConnectResult = "unset"
    BY <2>0, NewDoes, ZenonT(30)
  <2>2. k = i
    BY <1>2, <2>1, Overwritten, ZenonT(30)
  <2>3. link[i] # "up" /\ cb[i] = "none" /\ link' = link /\ cb' = cb
    BY <1>2, <2>1, <2>2 DEF NewConnector, LinkInv, LinkAt
  <2>. QED
    BY <2>1, <2>2, <2>3 DEF LinkAt
<1>3. CASE Same(i) /\ ~(Works(c) /\ i = mP2p[c])
  BY <1>3, SameLink DEF LinkInv, Works
<1>. QED
  BY <1>1, <1>2, <1>3, SameElsewhere

\* A channel that dials, seen from the step of another one.
LEMMA DialOthers ==
  ASSUME TypeOK, HoldInv, ReleaseInv, LinkInv, NEW c \in Channels, Step(c) \/ App(c), NEW d \in Channels \ {c}
  PROVE  DialAt(d)'
<1>0. /\ DialAt(d) /\ HoldsAt(d) /\ HoldsAt(c) /\ cb' = cb /\ NoOne \notin Channels /\ 0 \notin Conns
      /\ st'[d] = st[d] /\ mP2p'[d] = mP2p[d] /\ dialed'[d] = dialed[d]
  BY OwnStep, Sizes DEF ReleaseInv, LinkInv, Own, NoOne
<1>1. CASE st[d] \notin {"dial", "store", "delete"}
  BY <1>0, <1>1 DEF DialAt
<1>2. CASE st[d] \in {"dial", "store", "delete"}
  <2>1. PICK j \in Conns : j = mP2p[d]
    BY <1>2, Has
  <2>2. ~(NewConnector(c) /\ j = mP2p'[c])
    <3>. SUFFICES ASSUME NewConnector(c), j = mP2p'[c]
                  PROVE  FALSE
      OBVIOUS
    <3>1. PICK k \in Conns : Overwrite(c, k) /\ ~conn[k].alive
      BY NewDoes
    <3>2. k = j
      BY <3>1, Overwritten, ZenonT(30)
    <3>. QED
      BY <2>1, <3>1, <3>2, Held
  <2>3. ~(Works(c) /\ j = mP2p[c]) \/ Remove(c)
    <3>1. j = mP2p[c] => st[d] # "delete"
      BY <2>1, Held
    <3>2. j = mP2p[c] => conn[j].lock = d
      BY <1>0, <1>2, <2>1, <3>1 DEF HoldsAt
    <3>3. CASE Answer(c) \/ Store(c)
      BY <1>0, <3>2, <3>3 DEF Answer, Store, At, HoldsAt
    <3>4. CASE CreateHandle(c)
      BY <1>0, <3>2, <3>4 DEF CreateHandle, Unlocked
    <3>5. CASE Close(c) \/ Delete(c)
      <4>1. st[c] \in {"remove", "close", "delete"}
        BY <3>5 DEF Close, Delete, At
      <4>. QED
        BY <2>1, <4>1, Held
    <3>. QED
      BY <3>3, <3>4, <3>5 DEF Works
  <2>4. SameHandle(j) /\ SameResult(j) /\ link'[j] = link[j]
    <3>1. CASE Remove(c) /\ j = mP2p[c]
      BY <3>1, RemoveDoes, ZenonT(30) DEF Remove
    <3>. QED
      BY <2>2, <2>3, <3>1, SameElsewhere DEF Same
  <2>. QED
    BY <1>0, <2>1, <2>4 DEF DialAt, SameHandle, SameResult
<1>. QED
  BY <1>1, <1>2

\* A channel that dials, in its own step.
LEMMA DialOwn ==
  ASSUME TypeOK, HoldInv, ReleaseInv, LinkInv, NEW c \in Channels, Step(c) \/ App(c), raced' = {}
  PROVE  DialAt(c)'
<1>0. DialAt(c) /\ HoldsAt(c) /\ cb' = cb /\ NoOne \notin Channels /\ after[c] \in {"idle", "create", "old"}
  BY OwnStep, Sizes DEF ReleaseInv, LinkInv, TypeOK
<1>1. CASE Dial(c)
  <2>1. PICK k \in Conns : k = mP2p[c] /\ k = mP2p'[c]
    BY <1>1, HeavyHas, ZenonT(30) DEF Heavy, Dial
  <2>2. /\ conn[k].lock = NoOne /\ conn[k].mConnectResult = "unset" /\ link' = link
        /\ raced' = raced \cup Race("dead", conn[k].mDoneDisconnect)
    BY <1>1, <2>1 DEF Dial, Unlocked, Note
  <2>3. st'[c] = "dial"
    BY <1>1 DEF Dial, Go, TypeOK
  <2>4. ~conn[k].mDoneDisconnect
    BY <2>2 DEF Race
  <2>5. ~Storing(k)
    <3>1. \A e \in Channels : st[e] = "store" /\ mP2p[e] = k => conn[k].lock = e
      BY DEF ReleaseInv, HoldsAt
    <3>. QED
      BY <1>0, <2>2, <3>1 DEF Storing
  <2>6. link[k] # "up" /\ cb[k] = "none"
    BY <2>2, <2>5 DEF LinkInv, LinkAt
  <2>7. SameHandle(k) /\ SameResult(k)
    BY <1>1, <2>1, DialDoes, ZenonT(30)
  <2>. QED
    BY <1>0, <2>1, <2>2, <2>3, <2>4, <2>6, <2>7, ZenonT(30) DEF DialAt, SameHandle, SameResult
<1>2. CASE Answer(c)
  <2>1. st[c] = "dial" /\ st'[c] = "store" /\ conn' = conn /\ mP2p' = mP2p
    BY <1>2 DEF Answer, At, Go, TypeOK
  <2>2. dialed'[c] # "ok" => link' = link
    <3>1. PICK r \in Results : /\ dialed' = [dialed EXCEPT ![c] = r]
                               /\ link' = [link EXCEPT ![mP2p[c]] = IF r = "ok" THEN "up" ELSE @]
      BY <1>2, Bounds DEF Answer
    <3>2. dialed'[c] = r
      BY <3>1 DEF TypeOK
    <3>. QED
      BY <3>1, <3>2 DEF TypeOK
  <2>. QED
    BY <1>0, <2>1, <2>2 DEF DialAt
<1>3. CASE Close(c)
  <2>1. PICK k \in Conns : k = mP2p[c] /\ k = mP2p'[c]
    BY <1>3, HeavyHas, ZenonT(30) DEF Heavy, Close
  <2>2. st'[c] = "delete" /\ ~conn'[k].mHandle
    <3>1. st'[c] = "delete"
      BY <1>3 DEF Close, Go, TypeOK
    <3>. QED
      BY <1>3, <2>1, <3>1, CloseDoes, ZenonT(30)
  <2>. QED
    BY <2>1, <2>2 DEF DialAt
<1>4. CASE ~(Dial(c) \/ Answer(c) \/ Close(c))
  <2>1. st'[c] \notin {"dial", "store", "delete"}
    BY <1>0, <1>4, Moves, ZenonT(60)
  <2>. QED
    BY <2>1 DEF DialAt
<1>. QED
  BY <1>1, <1>2, <1>3, <1>4

\* The library and the callback.
LEMMA LinkCall ==
  ASSUME TypeOK, HoldInv, ReleaseInv, LinkInv, NEW k \in Conns, OnKDisconnect(k) \/ HangUp(k)
  PROVE  LinkInv'
<1>0. /\ UNCHANGED <<mP2p, st, dialed>> /\ cb \in [Conns -> {"none", "ring", "global", "streams", "mark"}]
      /\ link \in [Conns -> {"none", "up", "down"}]
  BY CallStep DEF TypeOK
<1>1. \A i \in Conns : Storing(i)' <=> Storing(i)
  BY <1>0 DEF Storing
<1>2. CASE HangUp(k)
  <2>1. link[k] = "up" /\ cb' = [cb EXCEPT ![k] = "ring"] /\ link' = [link EXCEPT ![k] = "down"] /\ conn' = conn
    BY <1>2 DEF HangUp, Ring
  <2>2. \A i \in Conns : LinkAt(i)'
    BY <1>0, <1>1, <2>1 DEF LinkInv, LinkAt
  <2>3. \A d \in Channels : DialAt(d)'
    BY <1>0, <2>1, Has DEF LinkInv, DialAt
  <2>. QED
    BY <2>2, <2>3 DEF LinkInv
<1>3. CASE Lookup(k)
  <2>1. /\ cb[k] = "ring" /\ link' = link /\ conn' = conn
        /\ cb' = [cb EXCEPT ![k] = "global"] \/ (cb' = [cb EXCEPT ![k] = "none"] /\ ~conn[k].listed)
    BY <1>3 DEF Lookup, Ring, Return
  <2>2. \A i \in Conns : LinkAt(i)'
    BY <1>0, <1>1, <2>1 DEF LinkInv, LinkAt
  <2>3. \A d \in Channels : DialAt(d)'
    BY <1>0, <2>1, Has DEF LinkInv, DialAt
  <2>. QED
    BY <2>2, <2>3 DEF LinkInv
<1>4. CASE TellGlobal(k) \/ TellStreams(k)
  <2>1. /\ cb[k] # "none" /\ link' = link /\ conn' = conn
        /\ cb' = [cb EXCEPT ![k] = "streams"] \/ cb' = [cb EXCEPT ![k] = "mark"]
    BY <1>4 DEF TellGlobal, TellStreams, Ring
  <2>2. \A i \in Conns : LinkAt(i)'
    BY <1>0, <1>1, <2>1 DEF LinkInv, LinkAt
  <2>3. \A d \in Channels : DialAt(d)'
    BY <1>0, <2>1, Has DEF LinkInv, DialAt
  <2>. QED
    BY <2>2, <2>3 DEF LinkInv
<1>5. CASE Mark(k)
  <2>1. cb[k] = "mark" /\ cb' = [cb EXCEPT ![k] = "none"] /\ link' = link
    BY <1>5 DEF Mark, Ring, Return
  <2>2. /\ conn'[k].mHandle = conn[k].mHandle /\ conn'[k].mConnectResult = "unset" /\ SameUse(k) /\ Aside(k)
    BY <1>5, MarkDoes, ZenonT(30)
  <2>3. LinkAt(k)'
    BY <1>0, <2>1, <2>2 DEF LinkInv, LinkAt, SameUse
  <2>4. \A i \in Conns \ {k} : LinkAt(i)'
    BY <1>0, <1>1, <2>1, <2>2 DEF LinkInv, LinkAt, Aside
  <2>5. ASSUME NEW d \in Channels
        PROVE  DialAt(d)'
    <3>1. CASE mP2p[d] = k
      BY <1>0, <2>1, <2>2, <3>1 DEF LinkInv, DialAt
    <3>2. CASE mP2p[d] # k
      BY <1>0, <2>1, <2>2, <3>2, Has DEF LinkInv, DialAt, Aside
    <3>. QED
      BY <3>1, <3>2
  <2>. QED
    BY <2>3, <2>4, <2>5 DEF LinkInv
<1>. QED
  BY <1>2, <1>3, <1>4, <1>5 DEF OnKDisconnect

\* LinkInv, for every step.
LEMMA LinkStep ==
  ASSUME TypeOK, HoldInv, ReleaseInv, LinkInv, Next, raced' = {}
  PROVE  LinkInv'
BY LinkTask, DialOwn, DialOthers, LinkCall DEF Next, LinkInv

-----------------------------------------------------------------------------
(* Without any race: the streams. *)

\* A context is added by its own channel only.
LEMMA LiveTask ==
  ASSUME TypeOK, HoldInv, NEW c \in Channels, Step(c) \/ App(c), NEW i \in Conns
  PROVE  conn'[i].live \subseteq conn[i].live \cup {c}
<1>1. CASE Light(c)
  BY <1>1, LightDoes
<1>2. CASE Join(c)
  <2>1. PICK k \in Conns : Aside(k) /\ SameLive(k)
    BY <1>2, JoinDoes
  <2>. QED
    BY <2>1 DEF Aside, SameLive
<1>3. CASE NewConnector(c)
  <2>1. PICK k \in Conns : Aside(k) /\ conn'[k].live = {}
    BY <1>3, NewDoes
  <2>. QED
    BY <2>1 DEF Aside
<1>4. CASE Heavy(c) /\ i # mP2p[c]
  BY <1>4, HeavyHas DEF Aside
<1>5. CASE (CreateHandle(c) \/ Dial(c) \/ Store(c) \/ Drop(c) \/ Remove(c)) /\ i = mP2p[c]
  <2>1. SameLive(i)
    BY <1>5, HandleDoes, DialDoes, StoreDoes, DropDoes, RemoveDoes, ZenonT(30)
  <2>. QED
    BY <2>1 DEF SameLive
<1>6. CASE OpenStream(c) /\ i = mP2p[c]
  BY <1>6, OpenDoes
<1>7. CASE CloseStream(c) /\ i = mP2p[c]
  BY <1>7, CloseStreamDoes
<1>8. CASE OpenFails(c) /\ i = mP2p[c]
  BY <1>8, OpenFailsDoes
<1>9. CASE Close(c) /\ i = mP2p[c]
  BY <1>9, CloseDoes
<1>10. CASE Delete(c) /\ i = mP2p[c]
  BY <1>10, DeleteDoes
<1>. QED
  BY <1>1, <1>2, <1>3, <1>4, <1>5, <1>6, <1>7, <1>8, <1>9, <1>10, Steps, ZenonT(30) DEF Heavy

\* A channel that is connected by a result knows its camera and is not refused.
LEMMA Leads ==
  ASSUME TypeOK, NEW c \in Channels, NEW r, Result(c, r), st'[c] = "up"
  PROVE  r = "ok" /\ known'[c] /\ ~badPwd'[c]
<1>1. r = "ok"
  BY DEF Result, Go, TypeOK
<1>2. known \in [Channels -> BOOLEAN] /\ badPwd \in [Channels -> BOOLEAN]
  BY DEF TypeOK
<1>. QED
  BY <1>1, <1>2 DEF Result

\* A task thread is connected by a cached result or by its own answer, or was it
\* already and opens or closes a stream.
LEMMA BecomesUp ==
  ASSUME TypeOK, NEW c \in Channels, Step(c) \/ App(c), st'[c] = "up"
  PROVE  \/ CachedResult(c) /\ conn[mP2p[c]].mConnectResult = "ok" /\ known'[c] /\ ~badPwd'[c]
         \/ Store(c) /\ dialed[c] = "ok" /\ known'[c] /\ ~badPwd'[c]
         \/ (OpenStream(c) \/ CloseStream(c)) /\ st[c] = "up" /\ known' = known /\ badPwd' = badPwd
<1>1. CASE CachedResult(c)
  <2>1. Result(c, conn[mP2p[c]].mConnectResult)
    BY <1>1 DEF CachedResult
  <2>. QED
    BY <1>1, <2>1, Leads
<1>2. CASE Store(c)
  <2>1. Result(c, dialed[c])
    BY <1>2 DEF Store
  <2>. QED
    BY <1>2, <2>1, Leads
<1>3. CASE OpenStream(c) \/ CloseStream(c)
  <2>1. st' = st /\ known' = known /\ badPwd' = badPwd
    BY <1>3 DEF OpenStream, CloseStream, chanVars
  <2>. QED
    BY <1>3, <2>1
<1>. QED
  BY <1>1, <1>2, <1>3, Moves, ZenonT(60)

\* KnownAt, for a step of channel c.
LEMMA KnownTask ==
  ASSUME TypeOK, StreamInv, NEW c \in Channels, Step(c) \/ App(c), NEW d \in Channels
  PROVE  KnownAt(d)'
<1>0. KnownAt(d)
  BY DEF StreamInv
<1>1. CASE d # c
  <2>1. st'[d] = st[d]
    BY <1>1, OwnStep DEF Own
  <2>2. known'[d] = known[d] /\ badPwd'[d] = badPwd[d]
    BY <1>1, OwnStep DEF Flags
  <2>. QED
    BY <1>0, <2>1, <2>2 DEF KnownAt
<1>2. CASE d = c
  BY <1>0, <1>2, BecomesUp, ZenonT(30) DEF KnownAt
<1>. QED
  BY <1>1, <1>2

\* No step of a channel takes down a link that another one shows a stream on.
LEMMA LinkFalls ==
  ASSUME TypeOK, HoldInv, ReleaseInv, LinkInv, NEW c \in Channels, Step(c) \/ App(c), NEW i \in Conns,
         link'[i] # "up"
  PROVE  link[i] # "up" \/ (Close(c) /\ i = mP2p[c])
<1>0. link \in [Conns -> {"none", "up", "down"}]
  BY DEF TypeOK
<1>1. CASE Same(i)
  BY <1>1 DEF Same
<1>2. CASE NewConnector(c)
  BY <1>2 DEF NewConnector
<1>3. CASE Works(c) /\ i = mP2p[c]
  <2>1. CASE Answer(c)
    <3>1. PICK r : link' = [link EXCEPT ![i] = IF r = "ok" THEN "up" ELSE @]
      BY <1>3, <2>1, ZenonT(30) DEF Answer
    <3>. QED
      BY <1>0, <3>1
  <2>2. CASE CreateHandle(c)
    <3>1. ~conn[i].mHandle \/ conn[i].mDoneDisconnect
      BY <1>3, <2>2 DEF CreateHandle
    <3>2. LinkAt(i)
      BY DEF LinkInv
    <3>. QED
      BY <3>1, <3>2 DEF LinkAt
  <2>3. CASE Store(c) \/ Remove(c) \/ Delete(c)
    BY <2>3 DEF Store, Remove, Delete
  <2>. QED
    BY <1>3, <2>1, <2>2, <2>3, ZenonT(30) DEF Works
<1>. QED
  BY <1>1, <1>2, <1>3, SameElsewhere

\* ToldAt, for a step of another channel.
LEMMA ToldOthers ==
  ASSUME TypeOK, HoldInv, ReleaseInv, LinkInv, StreamInv, NEW c \in Channels, Step(c) \/ App(c),
         NEW d \in Channels \ {c}
  PROVE  ToldAt(d)'
<1>. SUFFICES ASSUME st'[d] = "up", d \in conn'[mP2p'[d]].live, link'[mP2p'[d]] # "up"
              PROVE  told'[d] > 0 \/ cb'[mP2p'[d]] \in {"ring", "global", "streams"}
  BY DEF ToldAt
<1>0. /\ st[d] = "up" /\ mP2p'[d] = mP2p[d] /\ told'[d] = told[d] /\ cb' = cb /\ ToldAt(d)
  BY OwnStep, ZenonT(30) DEF Own, StreamInv
<1>2. PICK j \in Conns : j = mP2p[d] /\ j = mP2p'[d]
  BY <1>0, Has
<1>3. d \in conn[j].live
  BY <1>2, LiveTask
<1>4. link[j] # "up"
  <2>1. ~(Close(c) /\ j = mP2p[c])
    <3>1. Close(c) => st[c] \in {"remove", "close", "delete"}
      BY DEF Close, At
    <3>. QED
      BY <1>2, <3>1, Held
  <2>. QED
    BY <1>2, <2>1, LinkFalls
<1>. QED
  BY <1>0, <1>2, <1>3, <1>4, ZenonT(30) DEF ToldAt

\* ToldAt, for a step of the channel itself.
LEMMA ToldOwn ==
  ASSUME TypeOK, HoldInv, StreamInv, NEW c \in Channels, Step(c) \/ App(c), raced' = {}
  PROVE  ToldAt(c)'
<1>. SUFFICES ASSUME st'[c] = "up", c \in conn'[mP2p'[c]].live, link'[mP2p'[c]] # "up"
              PROVE  told'[c] > 0 \/ cb'[mP2p'[c]] \in {"ring", "global", "streams"}
  BY DEF ToldAt
<1>0. cb' = cb /\ ToldAt(c) /\ cb \in [Conns -> {"none", "ring", "global", "streams", "mark"}]
  BY OwnStep, ZenonT(30) DEF StreamInv, TypeOK
<1>1. CASE CachedResult(c) /\ conn[mP2p[c]].mConnectResult = "ok"
  <2>1. link[mP2p[c]] # "up"
    BY <1>1, ZenonT(30) DEF CachedResult
  <2>2. "dead" \in raced'
    BY <1>1, <2>1 DEF CachedResult, Note, Race
  <2>. QED
    BY <2>2
<1>2. CASE Store(c) /\ dialed[c] = "ok"
  <2>1. PICK k \in Conns : k = mP2p[c] /\ k = mP2p'[c]
    BY <1>2, Has DEF Store, At
  <2>2. link[k] # "up"
    BY <1>2, <2>1 DEF Store
  <2>3. cb[k] \notin {"none", "mark"}
    BY <1>2, <2>1, <2>2 DEF Store, Note, Race
  <2>. QED
    BY <1>0, <2>1, <2>3
<1>3. CASE OpenStream(c)
  <2>1. PICK k \in Conns : k = mP2p[c] /\ k = mP2p'[c]
    BY <1>3, HeavyHas, ZenonT(30) DEF Heavy, OpenStream
  <2>2. link[k] # "up"
    BY <1>3, <2>1 DEF OpenStream
  <2>3. cb[k] \notin {"none", "mark"}
    BY <1>3, <2>1, <2>2 DEF OpenStream, Note, Race
  <2>. QED
    BY <1>0, <2>1, <2>3
<1>4. CASE CloseStream(c)
  <2>1. PICK k \in Conns : k = mP2p[c] /\ k = mP2p'[c]
    BY <1>4, HeavyHas, ZenonT(30) DEF Heavy, CloseStream
  <2>. QED
    BY <1>4, <2>1, CloseStreamDoes, ZenonT(30)
<1>. QED
  BY <1>1, <1>2, <1>3, <1>4, BecomesUp, ZenonT(30)

\* A callback leaves the contexts and the list alone.
LEMMA CallLive ==
  ASSUME TypeOK, NEW k \in Conns, OnKDisconnect(k) \/ HangUp(k)
  PROVE  \A i \in Conns : SameLive(i) /\ conn'[i].listed = conn[i].listed
<1>1. CASE conn' = conn
  BY <1>1 DEF SameLive
<1>2. CASE Mark(k)
  BY <1>2, MarkDoes, ZenonT(30) DEF Aside, SameLive, SameUse
<1>. QED
  BY <1>1, <1>2, CallStep

\* ToldAt, for a step of a callback.
LEMMA ToldCall ==
  ASSUME TypeOK, HoldInv, ReleaseInv, StreamInv, NEW k \in Conns, OnKDisconnect(k) \/ HangUp(k),
         NEW d \in Channels
  PROVE  ToldAt(d)'
<1>. SUFFICES ASSUME st'[d] = "up", d \in conn'[mP2p'[d]].live, link'[mP2p'[d]] # "up"
              PROVE  told'[d] > 0 \/ cb'[mP2p'[d]] \in {"ring", "global", "streams"}
  BY DEF ToldAt
<1>0. /\ mP2p' = mP2p /\ st[d] = "up" /\ ToldAt(d) /\ HoldsAt(d) /\ KnownAt(d)
      /\ cb \in [Conns -> {"none", "ring", "global", "streams", "mark"}]
      /\ link \in [Conns -> {"none", "up", "down"}] /\ told[d] \in Nat
  BY CallStep, Bounds DEF StreamInv, TypeOK, ReleaseInv
<1>2. PICK j \in Conns : j = mP2p[d] /\ j = mP2p'[d]
  BY <1>0, Has
<1>3. d \in conn[j].live
  BY <1>2, CallLive DEF SameLive
<1>4. conn[j].listed
  BY <1>0, <1>2, Sizes DEF HoldsAt, NoOne
<1>5. told[d] > 0 => told'[d] > 0
  <2>1. ASSUME NEW who, OnDisconnect(k, who)
        PROVE  told'[d] >= told[d]
    BY <2>1, OneMore
  <2>2. told' = told \/ \E who : OnDisconnect(k, who)
    BY ZenonT(30) DEF OnKDisconnect, HangUp, Lookup, TellGlobal, TellStreams, Mark
  <2>3. CASE told' = told
    BY <2>3
  <2>4. CASE \E who : OnDisconnect(k, who)
    <3>1. told'[d] \in Nat /\ told'[d] >= told[d]
      BY <2>4, OneMore
    <3>. QED
      BY <1>0, <3>1
  <2>. QED
    BY <2>2, <2>3, <2>4
<1>6. CASE j # k
  <2>1. cb'[j] = cb[j] /\ link'[j] = link[j]
    BY <1>0, <1>6 DEF OnKDisconnect, HangUp, Lookup, TellGlobal, TellStreams, Mark, Ring, Return
  <2>. QED
    BY <1>0, <1>2, <1>3, <1>5, <2>1 DEF ToldAt
<1>7. CASE j = k /\ HangUp(k)
  BY <1>0, <1>2, <1>7 DEF HangUp, Ring
<1>8. CASE j = k /\ OnKDisconnect(k)
  <2>1. link' = link
    BY <1>8 DEF OnKDisconnect, Lookup, TellGlobal, TellStreams, Mark
  <2>2. told[d] > 0 \/ cb[k] \in {"ring", "global", "streams"}
    BY <1>0, <1>2, <1>3, <1>8, <2>1 DEF ToldAt
  <2>3. CASE Lookup(k)
    BY <1>0, <1>2, <1>4, <1>8, <2>3 DEF Lookup, Ring
  <2>4. CASE TellGlobal(k)
    BY <1>0, <1>2, <1>8, <2>4 DEF TellGlobal, Ring
  <2>5. CASE TellStreams(k)
    <3>1. known[d] /\ ~badPwd[d]
      BY <1>0 DEF KnownAt
    <3>2. told'[d] = told[d] + 1
      BY <1>3, <1>8, <2>5, <3>1 DEF TellStreams, OnDisconnect
    <3>. QED
      BY <1>0, <3>2
  <2>6. CASE Mark(k)
    BY <1>5, <2>2, <2>6 DEF Mark
  <2>. QED
    BY <1>8, <2>3, <2>4, <2>5, <2>6 DEF OnKDisconnect
<1>. QED
  BY <1>6, <1>7, <1>8

\* Without a race, OnDisconnect reaches every stream of a dead link.
LEMMA StreamStep ==
  ASSUME TypeOK, HoldInv, ReleaseInv, LinkInv, StreamInv, Next, raced' = {}
  PROVE  StreamInv'
<1>1. ASSUME NEW c \in Channels, Step(c) \/ App(c), NEW d \in Channels
      PROVE  KnownAt(d)' /\ ToldAt(d)'
  <2>1. ToldAt(d)'
    BY <1>1, ToldOwn, ToldOthers
  <2>. QED
    BY <1>1, <2>1, KnownTask
<1>2. ASSUME NEW k \in Conns, OnKDisconnect(k) \/ HangUp(k), NEW d \in Channels
      PROVE  KnownAt(d)' /\ ToldAt(d)'
  <2>1. KnownAt(d)'
    BY <1>2, CallStep DEF StreamInv, KnownAt
  <2>. QED
    BY <1>2, <2>1, ToldCall
<1>. QED
  BY <1>1, <1>2 DEF Next, StreamInv

-----------------------------------------------------------------------------
(* The theorems. *)

\* At the start there is no connector and no channel has one.
LEMMA Initially == Init => IInv
<1>. SUFFICES ASSUME Init PROVE IInv
  OBVIOUS
<1>0. /\ conn = [k \in Conns |-> NoConn] /\ link = [k \in Conns |-> "none"] /\ cb = [k \in Conns |-> "none"]
      /\ mP2p = [c \in Channels |-> 0] /\ st = [c \in Channels |-> "idle"] /\ after = [c \in Channels |-> "idle"]
      /\ told = [c \in Channels |-> 0] /\ why = [k \in Conns |-> "none"] /\ dialed = [c \in Channels |-> "unset"]
      /\ mHandle = [c \in Channels |-> FALSE] /\ session \in Sessions /\ faults = 0
      /\ lost = [k \in Conns |-> 0] /\ refused = [k \in Conns |-> FALSE] /\ raced = {}
  BY DEF Init
<1>1. NoConn \in Connector /\ NoConn.alive = FALSE /\ NoConn.listed = FALSE /\ NoConn.mUse = 0
      /\ NoConn.mHandle = FALSE /\ NoConn.mConnectResult = "unset" /\ NoConn.live = {}
  BY Sizes DEF NoConn, Connector, NoOne, Results
<1>2. TypeOK
  <2>1. known \in [Channels -> BOOLEAN] /\ badPwd \in [Channels -> BOOLEAN]
    BY ZenonT(30) DEF Init
  <2>2. session.maxTold \in Nat /\ session.maxFaults \in Nat
    BY <1>0, PoolAssumption
  <2>. QED
    BY <1>0, <1>1, <2>1, <2>2, Sizes DEF TypeOK
<1>3. \A k \in Conns : Holders(k) = {} /\ Cardinality(Holders(k)) = 0
  <2>1. \A k \in Conns : Holders(k) = {}
    BY <1>0, Sizes DEF Holders
  <2>2. Cardinality({}) = 0
    BY FS_EmptySet
  <2>. QED
    BY <2>1, <2>2
<1>4. HoldInv
  <2>1. \A c \in Channels : mP2p[c] = 0 /\ st[c] = "idle"
    BY <1>0
  <2>2. \A k \in Conns : ~conn[k].listed
    BY <1>0, <1>1
  <2>. QED
    BY <2>1, <2>2 DEF HoldInv
<1>5. ToldInv
  <2>1. Twice = {} /\ Once = {}
    BY <1>0 DEF Twice, Once
  <2>2. Cardinality({}) = 0
    BY FS_EmptySet
  <2>3. Cardinality(Twice) = 0 /\ Cardinality(Once) = 0
    BY <2>1, <2>2
  <2>. QED
    BY <1>0, <1>2, <2>3, Bounds DEF ToldInv
<1>6. ReleaseInv
  <2>1. \A k \in Conns : UsesAt(k)
    BY <1>0, <1>1, <1>3 DEF UsesAt
  <2>2. \A c \in Channels : HoldsAt(c)
    BY <1>0 DEF HoldsAt, Past
  <2>. QED
    BY <2>1, <2>2 DEF ReleaseInv
<1>7. LinkInv
  BY <1>0, <1>1 DEF LinkInv, LinkAt, DialAt
<1>8. StreamInv
  BY <1>0, <1>1 DEF StreamInv, KnownAt, ToldAt
<1>. QED
  BY <1>2, <1>4, <1>5, <1>6, <1>7, <1>8 DEF IInv

\* A race is not forgotten.
LEMMA RacesStay ==
  ASSUME TypeOK, Next
  PROVE  raced \subseteq raced'
BY OwnStep, CallStep DEF Next

\* A step that changes nothing keeps the invariant.
LEMMA Stutters ==
  ASSUME IInv, UNCHANGED vars
  PROVE  IInv'
<1>1. /\ UNCHANGED <<conn, link, cb, mP2p, mHandle, st, after, told, dialed, why, raced>> /\ UNCHANGED <<known, badPwd>>
      /\ UNCHANGED <<session, faults, lost, refused>>
  BY DEF vars, chanVars, faultVars
<1>. USE <1>1
<1>2. TypeOK' <=> TypeOK
  BY DEF TypeOK
<1>3. (HoldInv' <=> HoldInv) /\ (ToldInv' <=> ToldInv)
  BY ZenonT(30) DEF HoldInv, ToldInv, Twice, Once
<1>4. ReleaseInv' <=> ReleaseInv
  <2>1. \A k \in Conns : UsesAt(k)' <=> UsesAt(k)
    BY DEF UsesAt, Holders
  <2>2. \A c \in Channels : HoldsAt(c)' <=> HoldsAt(c)
    BY DEF HoldsAt, Releasing
  <2>. QED
    BY <2>1, <2>2 DEF ReleaseInv
<1>5. LinkInv' <=> LinkInv
  <2>1. \A k \in Conns : LinkAt(k)' <=> LinkAt(k)
    BY DEF LinkAt, Storing
  <2>2. \A c \in Channels : DialAt(c)' <=> DialAt(c)
    BY DEF DialAt
  <2>. QED
    BY <2>1, <2>2 DEF LinkInv
<1>6. StreamInv' <=> StreamInv
  <2>1. \A c \in Channels : KnownAt(c)' <=> KnownAt(c)
    BY DEF KnownAt
  <2>2. \A c \in Channels : ToldAt(c)' <=> ToldAt(c)
    BY DEF ToldAt
  <2>. QED
    BY <2>1, <2>2 DEF StreamInv
<1>. QED
  BY <1>2, <1>3, <1>4, <1>5, <1>6 DEF IInv

\* The invariant holds in every state of the shared links: whatever the races its
\* first part, without one of DestroyConnector its second, without any its third.
THEOREM Invariance == Spec => []IInv
<1>1. IInv /\ [Next]_vars => IInv'
  <2>1. ASSUME IInv, Next PROVE IInv'
    <3>1. TypeOK' /\ HoldInv' /\ ToldInv'
      BY <2>1, TypeStep, HoldStep, ToldStep DEF IInv
    <3>2. raced \subseteq raced'
      BY <2>1, RacesStay DEF IInv
    <3>3. "release" \notin raced' => ReleaseInv'
      BY <2>1, <3>2, ReleaseStep DEF IInv
    <3>4. raced' = {} => LinkInv' /\ StreamInv'
      <4>. SUFFICES ASSUME raced' = {} PROVE LinkInv' /\ StreamInv'
        OBVIOUS
      <4>1. TypeOK /\ HoldInv /\ ReleaseInv /\ LinkInv /\ StreamInv
        BY <2>1, <3>2 DEF IInv
      <4>. QED
        BY <2>1, <4>1, LinkStep, StreamStep
    <3>. QED
      BY <3>1, <3>3, <3>4 DEF IInv
  <2>. QED
    BY <2>1, Stutters
<1>. QED
  BY <1>1, Initially, PTL DEF Spec

\* The state stays of its type: in particular no callback of OnKDisconnect queues
\* more than its share of CMD_CONNECT.
THEOREM TypeCorrect == Spec => []TypeOK
<1>1. IInv => TypeOK
  BY DEF IInv
<1>. QED
  BY <1>1, Invariance, PTL

\* As long as CreateConnector and DestroyConnector do not overlap with a
\* DestroyConnector that is past GetUse(), mUse is the number of channels that
\* hold the connector and of those that connected again without letting go of it,
\* and a connector that nothing counts is deleted.
THEOREM UseIsHolders == Spec => []UseCountsHolders
<1>1. IInv => UseCountsHolders
  BY DEF IInv, ReleaseInv, UsesAt, Holders, UseCountsHolders
<1>. QED
  BY <1>1, Invariance, PTL

\* Under the same condition closeP2P is called by the last holder only: a channel
\* that connects or is connected has its connector in g_ListManager, with a handle
\* unless kp2p_create has given none.
THEOREM HoldersHaveLink == Spec => []HolderHasLink
<1>1. IInv => HolderHasLink
  <2>. SUFFICES ASSUME IInv, "release" \notin raced, NEW c \in Channels, st[c] \in {"connect", "dial", "store", "up"}
                PROVE  conn[mP2p[c]].listed /\ (conn[mP2p[c]].mHandle \/ refused[mP2p[c]])
    BY DEF HolderHasLink
  <2>1. HoldsAt(c) /\ mP2p[c] \in Conns
    BY Has DEF IInv, ReleaseInv
  <2>. QED
    BY <2>1, Sizes DEF HoldsAt, NoOne
<1>. QED
  BY <1>1, Invariance, PTL

\* Without a race, the success that connect3 hands on is that of the link which
\* is up, or OnKDisconnect is about to clear it.
THEOREM CachedResultTrue == Spec => []CachedIsThisLink
<1>1. IInv => CachedIsThisLink
  BY DEF IInv, LinkInv, LinkAt, CachedIsThisLink
<1>. QED
  BY <1>1, Invariance, PTL

\* Without a race, a channel with a stream on a dead link has a CMD_CONNECT in
\* its queue, or OnKDisconnect has yet to reach it.
THEOREM StreamsTold == Spec => []StreamNotLeftBehind
<1>1. IInv => StreamNotLeftBehind
  <2>. SUFFICES ASSUME IInv, raced = {}, NEW c \in Channels, OnDeadLink(c), Streams(c)
                PROVE  told[c] > 0 \/ cb[mP2p[c]] \in {"ring", "global", "streams"}
    BY DEF StreamNotLeftBehind
  <2>1. ToldAt(c)
    BY DEF IInv, StreamInv
  <2>. QED
    BY <2>1 DEF ToldAt, OnDeadLink, Streams
<1>. QED
  BY <1>1, Invariance, PTL
=============================================================================
