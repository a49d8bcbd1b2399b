\* a refund ends when its last write works and the process lives
SPECIFICATION FairSpec
CONSTANTS
    s1 = s1
    w1 = w1
    w2 = w2
    BalanceOrders = {}
    SubOrders = {s1}
    NoTradeNo = {}
    PendingIsError = {}
    Workers = {w1, w2}
    NoOrder = NoOrder
    Amount = 2
    InitialBalance = 2
    Unreliable <- RepairableSteps
    MaxFaults = 2
INVARIANT PaidBackIsRefunded
PROPERTY RefundEnds
CHECK_DEADLOCK FALSE
