SPECIFICATION FairSpec
CONSTANTS
    Screens <- Shapes
    Selectable = {l1, l2}
    Writes = {1, 2}
    MaxLoads = 2
    MaxFaults = 2
    None = None
INVARIANTS
    OwnChangeShown
    NoGhost
    RightLearner
PROPERTIES
    PolledScreenCatchesUp
CHECK_DEADLOCK FALSE
