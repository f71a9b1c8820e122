--------------------------- MODULE MCConnectTask ---------------------------
EXTENDS ConnectTask

\* In a hurry, with failing streams; the same with a recording that the decode thread
\* pauses and continues, and with one that the application pauses as well; patient,
\* with all the calls on streams; one that destroys the object; one that only
\* connects and disconnects.
Hasty ==
  [calls |-> {"Connect", "OpenChannel", "StartPlayback", "StopPlayback", "Disconnect", "UseLink"},
   maxCalls |-> 4, maxPeer |-> 1, maxFlow |-> 1, patient |-> FALSE,
   streamFails |-> TRUE, flowFails |-> FALSE, destroys |-> FALSE]
Throttled ==
  [calls |-> {"Connect", "StartPlayback", "StopPlayback", "Disconnect"},
   maxCalls |-> 3, maxPeer |-> 1, maxFlow |-> 2, patient |-> FALSE,
   streamFails |-> TRUE, flowFails |-> FALSE, destroys |-> FALSE]
Pausing ==
  [calls |-> {"Connect", "StartPlayback", "PlaybackPauseGetData", "PlaybackContinueGetData"},
   maxCalls |-> 4, maxPeer |-> 0, maxFlow |-> 2, patient |-> FALSE,
   streamFails |-> FALSE, flowFails |-> TRUE, destroys |-> FALSE]
Steady ==
  [calls |-> {"Connect", "OpenChannel", "CloseChannel", "StartPlayback", "StopPlayback", "Disconnect"},
   maxCalls |-> 7, maxPeer |-> 2, maxFlow |-> 0, patient |-> TRUE,
   streamFails |-> FALSE, flowFails |-> FALSE, destroys |-> FALSE]
Destroyer ==
  [calls |-> {"Connect", "OpenChannel", "Disconnect", "SetGate"},
   maxCalls |-> 3, maxPeer |-> 1, maxFlow |-> 0, patient |-> FALSE,
   streamFails |-> FALSE, flowFails |-> FALSE, destroys |-> TRUE]
Leaver ==
  [calls |-> {"Connect", "Disconnect"},
   maxCalls |-> 2, maxPeer |-> 1, maxFlow |-> 0, patient |-> FALSE,
   streamFails |-> FALSE, flowFails |-> FALSE, destroys |-> FALSE]

Viewers == {Hasty, Throttled, Pausing, Steady}
Destroyers == {Destroyer}
Leavers == {Leaver}
=============================================================================
