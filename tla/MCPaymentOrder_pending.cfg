\* two requests pass the pending limit
SPECIFICATION Spec
CONSTANTS
    b1 = b1
    b2 = b2
    w1 = w1
    w2 = w2
    BalanceOrders = {b1, b2}
    SubOrders = {}
    PopupOrders = {}
    Workers = {w1, w2}
    NoOrder = NoOrder
    MaxPending = 1
    DailyLimit = 2
    Unreliable = {}
    MaxFaults = 0
SYMMETRY WorkerSymmetry
INVARIANT PendingWithinLimit
CHECK_DEADLOCK FALSE
