CONSTANT Apps <- Destroyers
SPECIFICATION Spec
PROPERTIES ConnectTried QuietDestroyEnds
\* After the destructor nothing happens.
CHECK_DEADLOCK FALSE
