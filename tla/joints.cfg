SPECIFICATION FairSpec
CONSTANTS
    N = 2
    Poses = {1, 2}
    Layouts <- TwoLayouts
    Depth = 1
INVARIANTS
    JointsKeepTheirPlaces
    GoalsHaveAnOrigin
PROPERTIES
    OperatorGoalStays
    LockFollowsRobot
    MarkerWins
