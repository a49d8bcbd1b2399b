\* what the theorems say of refunds that no failure of their last writes interrupts
SPECIFICATION Spec
CONSTANTS
    b1 = b1
    s1 = s1
    w1 = w1
    w2 = w2
    BalanceOrders = {b1}
    SubOrders = {s1}
    NoTradeNo = {}
    PendingIsError = {}
    Workers = {w1, w2}
    NoOrder = NoOrder
    Amount = 2
    InitialBalance = 2
    Unreliable <- BalanceSteps
    MaxFaults = 1
SYMMETRY WorkerSymmetry
INVARIANTS BalanceIsGivenBack RefundingIsInRefund PaidBackIsRefunded
PROPERTY PaidBackOnce
CHECK_DEADLOCK FALSE
