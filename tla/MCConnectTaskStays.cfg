CONSTANT Apps <- Leavers
SPECIFICATION Spec
INVARIANT DisconnectStays
