SPECIFICATION FairSpec
CONSTANTS
    Graphs <- AllGraphs
    Targets <- AllTargets
    ObstacleCounts = {0, 2}
    Points = 3
    LearningPoints = 2
    TcpPosition = 3
    TargetNode = 1
INVARIANTS
    OrderSound
    RefusesCyclesOnly
    RegularGraphsSolve
PROPERTIES
    LoopsEnd
CHECK_DEADLOCK FALSE
