SPECIFICATION Spec
CONSTANTS
    Joints = {1, 2}
    MaxAngle = 2
    Safe <- SafePoses
    MaxStep = 2
    SyncStartup = TRUE
INVARIANTS
    HoldAvoidsFloor
