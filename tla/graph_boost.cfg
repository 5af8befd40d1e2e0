SPECIFICATION Spec
CONSTANTS
    Graphs <- Shipped
    Targets <- AllTargets
    ObstacleCounts = {0, 2}
    Points = 2
    LearningPoints = 3
    TcpPosition = 3
    TargetNode = 1
INVARIANT
    BoostApplies
CHECK_DEADLOCK FALSE
