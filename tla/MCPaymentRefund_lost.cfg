\* a second failed refund reports a rollback that never happened
SPECIFICATION Spec
CONSTANTS
    b1 = b1
    w1 = w1
    BalanceOrders = {b1}
    SubOrders = {}
    NoTradeNo = {}
    PendingIsError = {}
    Workers = {w1}
    NoOrder = NoOrder
    Amount = 2
    InitialBalance = 2
    Unreliable = {"gateway", "rollback"}
    MaxFaults = 3
SYMMETRY WorkerSymmetry
INVARIANT FailedIsGivenBack
CHECK_DEADLOCK FALSE
