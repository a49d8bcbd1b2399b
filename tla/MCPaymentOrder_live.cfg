\* a payment is settled when failures are transient and the process lives
SPECIFICATION FairSpec
CONSTANTS
    b1 = b1
    w1 = w1
    w2 = w2
    BalanceOrders = {b1}
    SubOrders = {}
    PopupOrders = {}
    Workers = {w1, w2}
    NoOrder = NoOrder
    MaxPending = 1
    DailyLimit = 1
    Unreliable <- RepairableSteps
    MaxFaults = 2
INVARIANT PaidIsProcessed
PROPERTY PaidIsSettled
CHECK_DEADLOCK FALSE
