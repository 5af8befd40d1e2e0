SPECIFICATION FairSpec
CONSTANTS
    StartupMove = TRUE
    UseFilter = TRUE
    StopOnShutdown = TRUE
INVARIANTS
    LeakBound
    GateHoldsServo
    ReleasedVelocityFresh
PROPERTIES
    HaltIsFinal
    ImplementsGate
    ShutdownCompletes
    SlotDrains
    HomeGateOpens
