\* an order without a trade number is refunded without the gateway
SPECIFICATION Spec
CONSTANTS
    b1 = b1
    w1 = w1
    BalanceOrders = {b1}
    SubOrders = {}
    NoTradeNo = {b1}
    PendingIsError = {}
    Workers = {w1}
    NoOrder = NoOrder
    Amount = 2
    InitialBalance = 2
    Unreliable = {}
    MaxFaults = 0
SYMMETRY WorkerSymmetry
INVARIANT RefundedIsPaidBack
CHECK_DEADLOCK FALSE
