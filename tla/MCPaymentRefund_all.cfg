\* a balance and a subscription order; everything may fail but the audit row of a failed rollback and the last read of a deduction
SPECIFICATION Spec
CONSTANTS
    b1 = b1
    s1 = s1
    w1 = w1
    w2 = w2
    BalanceOrders = {b1}
    SubOrders = {s1}
    NoTradeNo = {}
    PendingIsError = {b1}
    Workers = {w1, w2}
    NoOrder = NoOrder
    Amount = 2
    InitialBalance = 2
    Unreliable <- StepsOnRecord
    MaxFaults = 1
SYMMETRY WorkerSymmetry
INVARIANTS TypeOK OneRefund TakenOnce RefundedIsPaidBack HeldIsOnRecord
PROPERTY MovesAsAssumed
CHECK_DEADLOCK FALSE
