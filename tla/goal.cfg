SPECIFICATION FairSpec
CONSTANTS
    Goal = {g1, g2}
    NoGoal = NoGoal
    ForwardTargetQ = TRUE
    TopicDepth = 1
    MaxRestarts = 1
INVARIANTS
    ForwardingIsJustified
PROPERTIES
    GoalArrives
    StopsForGood
    RepublishesTargetQ
