\* one subscription order; only the steps that repeat the credit are reliable
SPECIFICATION Spec
CONSTANTS
    s1 = s1
    w1 = w1
    w2 = w2
    w3 = w3
    BalanceOrders = {}
    SubOrders = {s1}
    PopupOrders = {s1}
    Workers = {w1, w2, w3}
    NoOrder = NoOrder
    MaxPending = 1
    DailyLimit = 1
    Unreliable <- StepsButCredit
    MaxFaults = 1
SYMMETRY WorkerSymmetry
INVARIANTS OrderInv SubscriptionCreditedOnce
CHECK_DEADLOCK FALSE
