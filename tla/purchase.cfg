SPECIFICATION FairSpec
CONSTANTS
    Learners = {A, B}
    Slots = {1, 2}
    Polls = {"tick"}
    MaxOrders = 2
    MaxVisits = 2
    MaxKeys = 3
    MaxFaults = 1
    NoOne = NoOne
    NoOrder = NoOrder
INVARIANTS
    OneOrderPerVisit
    LinkMatchesPress
PROPERTIES
    CardNoticesPayment
CHECK_DEADLOCK FALSE
