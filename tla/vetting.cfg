SPECIFICATION Spec
CONSTANTS
    Subjects = {maths}
    Files = {passport}
    Calls = {c1, c2}
    Admins = {ada, bola}
    MaxDocs = 1
    MaxAttempts = 2
    MaxFaults = 1
SYMMETRY Alike
INVARIANTS
    MarkedOnce
    ApprovedWasVetted
    DraftCanBeSaved
CHECK_DEADLOCK FALSE
