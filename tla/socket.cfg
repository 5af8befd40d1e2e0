SPECIFICATION FairSpec
INVARIANTS
    PacingBound
    NothingLeftBehind
PROPERTIES
    DisconnectReturns
    SessionStaysAlive
