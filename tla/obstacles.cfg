SPECIFICATION FairSpec
CONSTANTS
    Sensor = {s1, s2}
    Low = {s1}
    GateEnabled = TRUE
    TopicDepth = 1
    MaxRequest = 2
    MaxRestarts = 1
INVARIANTS
    NothingOldComesBack
    ClearedMeansEmpty
PROPERTIES
    InactiveClears
    NearIsSeen
