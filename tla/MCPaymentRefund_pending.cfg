\* an accepted refund that is not settled yet is treated as failed
SPECIFICATION Spec
CONSTANTS
    b1 = b1
    w1 = w1
    BalanceOrders = {b1}
    SubOrders = {}
    NoTradeNo = {}
    PendingIsError = {b1}
    Workers = {w1}
    NoOrder = NoOrder
    Amount = 2
    InitialBalance = 2
    Unreliable = {}
    MaxFaults = 0
SYMMETRY WorkerSymmetry
INVARIANT PaidBackIsRefunded
CHECK_DEADLOCK FALSE
