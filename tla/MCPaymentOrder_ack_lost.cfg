\* the same when the order cannot be read
SPECIFICATION Spec
CONSTANTS
    b1 = b1
    w1 = w1
    BalanceOrders = {b1}
    SubOrders = {}
    PopupOrders = {}
    Workers = {w1}
    NoOrder = NoOrder
    MaxPending = 1
    DailyLimit = 1
    Unreliable = {"confirm"}
    MaxFaults = 1
SYMMETRY WorkerSymmetry
INVARIANT AcknowledgedIsRecorded
CHECK_DEADLOCK FALSE
