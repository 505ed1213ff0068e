SPECIFICATION EscrowSpec
CONSTANTS
    o1 = o1
    o2 = o2
    s1 = s1
    t1 = t1
    t2 = t2
    Orders = {o1, o2}
    Payments = {1, 2, 3}
    Payers = {s1}
    Txs = {t1, t2}
    PayerOf <- TwoPayerOf
    ItemOf <- TwoItemOf
    OrderOf <- TwoOrderOf
    ProviderOf <- TwoProviderOf
    Tutored = {o1}
    Capacity = 1
    MaxRefunds = 2
    NoOrder = NoOrder
    NoPayment = NoPayment
    Declines = {}
SYMMETRY TxSymmetry
INVARIANTS
    HoldIsFunded
    BooksAgree
PROPERTIES
    MoneyMovesOnce
    PaidStaysPaid
CHECK_DEADLOCK FALSE
