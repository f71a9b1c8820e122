--------------------------- MODULE MCConnectorPool --------------------------
(* No property says anything of what follows a race inside DestroyConnector, *)
(* and the search ends there.  It ends at the other races too, but for one   *)
(* session.                                                                  *)
EXTENDS ConnectorPool

Streaming == {"Connect", "OpenStream"}
Viewing == Streaming \cup {"Disconnect"}

\* Two connectors that are hung up on; ...
HungUp == [calls |-> Viewing, answers |-> {"ok"}, maxLinks |-> 2, maxTold |-> 2, maxFaults |-> 0]
\* ... one, with every answer to a connect; ...
Refused == [calls |-> Calls, answers |-> Results, maxLinks |-> 1, maxTold |-> 2, maxFaults |-> 0]
\* ... the library gives no handle or no stream; ...
Faulty == [calls |-> Calls, answers |-> Results, maxLinks |-> 1, maxTold |-> 0, maxFaults |-> 1]
\* ... and the peer hangs up, too; ...
FaultyHungUp == [calls |-> Streaming, answers |-> {"ok"}, maxLinks |-> 1, maxTold |-> 2, maxFaults |-> 1]
\* ... and the session that goes on after a race with the callback.
Racing == [calls |-> Viewing, answers |-> {"ok"}, maxLinks |-> 1, maxTold |-> 2, maxFaults |-> 0]

PoolSessions == {HungUp, Refused, Faulty, FaultyHungUp, Racing}
BeforeRace == raced = {} \/ (session = Racing /\ "release" \notin raced)
=============================================================================
