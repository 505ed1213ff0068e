SPECIFICATION Spec
CONSTANTS
    o1 = o1
    o2 = o2
    o3 = o3
    s1 = s1
    s2 = s2
    t1 = t1
    t2 = t2
    Orders = {o1, o2}
    Payments = {1, 2, 3, 4}
    Payers = {s1}
    Txs = {t1, t2}
    PayerOf <- RebookPayerOf
    ItemOf <- RebookItemOf
    OrderOf <- RebookOrderOf
    ProviderOf <- RebookProviderOf
    Tutored = {o2}
    Capacity = 1
    Declines = {1}
    NoOrder = NoOrder
    NoPayment = NoPayment
SYMMETRY TxSymmetry
INVARIANTS
    SettledExactlyOnce
    FundedByCapture
    PaidIsSeated
CHECK_DEADLOCK FALSE
