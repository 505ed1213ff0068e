SPECIFICATION FairSpec
CONSTANTS
    o1 = o1
    o2 = o2
    o3 = o3
    s1 = s1
    s2 = s2
    t1 = t1
    t2 = t2
    Orders = {o1, o2, o3}
    Payments = {1, 2}
    Payers = {s1, s2}
    Txs = {t1, t2}
    PayerOf <- RivalsPayerOf
    ItemOf <- RivalsItemOf
    OrderOf <- RivalsOrderOf
    ProviderOf <- RivalsProviderOf
    Tutored = {o1}
    Capacity = 1
    Declines = {}
    NoOrder = NoOrder
    NoPayment = NoPayment
INVARIANTS
    SeatsCounted
PROPERTIES
    OversoldOnlyByRevival
    CaptureSettles
    StaleSeatResolved
CHECK_DEADLOCK FALSE
