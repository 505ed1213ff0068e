SPECIFICATION Spec
CONSTANTS
    People = {A, B}
    Known = {B}
    NoOne = NoOne
    Slots = {1, 2}
    Overlap = {}
    MaxFaults = 1
INVARIANTS
    OwnDraftOnly
PROPERTIES
    ProvenKeepsDraft
CHECK_DEADLOCK FALSE
