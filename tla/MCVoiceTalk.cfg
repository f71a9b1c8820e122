SPECIFICATION Spec
CONSTANTS
    Samples <- FewSamples
    Indexes = {0, 1}
    Apps = {"unhurried"}
    MaxTalks = 2
    MaxQueue = 2
INVARIANTS
    TypeOK
    SentIsHeard
    QueueIsThisTalk
    CallHasSender
    MicOwned
PROPERTIES
    TalkEnds
CHECK_DEADLOCK FALSE
