SPECIFICATION AppFairSpec
CONSTANTS
    ScreenTable <- ByKind
    Sessions = {1, 2}
    MaxStack = 3
    MaxCalls = 1
    MaxFlows = 1
    MaxWrites = 2
    NoToken = NoToken
INVARIANTS
    NoDeadLink
PROPERTIES
    DeadSessionNoticed
CHECK_DEADLOCK FALSE
