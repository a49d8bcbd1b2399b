\* a subscription is extended twice when markCompleted fails
SPECIFICATION Spec
CONSTANTS
    s1 = s1
    w1 = w1
    BalanceOrders = {}
    SubOrders = {s1}
    PopupOrders = {}
    Workers = {w1}
    NoOrder = NoOrder
    MaxPending = 1
    DailyLimit = 1
    Unreliable = {"complete"}
    MaxFaults = 1
SYMMETRY WorkerSymmetry
INVARIANT SubscriptionCreditedOnce
CHECK_DEADLOCK FALSE
