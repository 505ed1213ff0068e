SPECIFICATION FairSpec
CONSTANTS
    Jobs = {j1, j2}
    Unroutable = {j2}
    Workers = {w1, w2}
    MaxAttempts = 2
    MaxCrashes = 1
    MaxFaults = 1
    NoCopy = NoCopy
INVARIANTS
    OneForgottenPerFault
    DeadAfterAttempts
PROPERTIES
    EndsSaveOnePerFault
CHECK_DEADLOCK FALSE
