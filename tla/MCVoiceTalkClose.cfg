SPECIFICATION Spec
CONSTANTS
    Samples <- OneSample
    Indexes = {0}
    Apps = {"hurried"}
    MaxTalks = 1
    MaxQueue = 1
PROPERTIES
    ThreadsClose
CHECK_DEADLOCK FALSE
