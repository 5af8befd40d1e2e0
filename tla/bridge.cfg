SPECIFICATION FairSpec
CONSTANTS
    StartupMove = TRUE
    StopOnShutdown = TRUE
    TopicDepth = 1
INVARIANTS
    LeakBound
    BacklogBound
PROPERTIES
    ReadsFindState
    ImplementsGate
    ShutdownCompletes
    ControllerHears
