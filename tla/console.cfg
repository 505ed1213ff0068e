SPECIFICATION FairSpec
CONSTANTS
    Panels <- OneByOne
    Writes = {1, 2}
    MaxFaults = 1
    NoKey = NoKey
INVARIANTS
    OwnWritesShown
    NoPhantom
PROPERTIES
    PolledCatchesUp
CHECK_DEADLOCK FALSE
