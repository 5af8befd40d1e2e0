SPECIFICATION Spec
CONSTANTS
    Joints = {1, 2}
    MaxAngle = 2
    Safe <- SafePoses
    MaxStep = 1
    SyncStartup = TRUE
INVARIANTS
    HoldAvoidsFloor
