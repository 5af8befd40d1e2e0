SPECIFICATION Spec
CONSTANTS
    StartupMove = TRUE
    UseFilter = TRUE
    StopOnShutdown = TRUE
PROPERTIES
    ReleasedAtHomeOrTimeout
