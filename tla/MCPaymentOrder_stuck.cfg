\* an order stays PAID or RECHARGING after a restart
SPECIFICATION Spec
CONSTANTS
    b1 = b1
    w1 = w1
    BalanceOrders = {b1}
    SubOrders = {}
    PopupOrders = {}
    Workers = {w1}
    NoOrder = NoOrder
    MaxPending = 1
    DailyLimit = 1
    Unreliable = {"crash"}
    MaxFaults = 1
SYMMETRY WorkerSymmetry
INVARIANT PaidIsProcessed
CHECK_DEADLOCK FALSE
