\* one balance order, three handlers at a time, every step but two reads may fail, or the process restart
SPECIFICATION Spec
CONSTANTS
    b1 = b1
    w1 = w1
    w2 = w2
    w3 = w3
    BalanceOrders = {b1}
    SubOrders = {}
    PopupOrders = {}
    Workers = {w1, w2, w3}
    NoOrder = NoOrder
    MaxPending = 1
    DailyLimit = 1
    Unreliable <- StepsButReads
    MaxFaults = 1
SYMMETRY WorkerSymmetry
INVARIANTS OrderInv TypeOK CreditedOnce CreditedOnlyIfPaid CompletedIsCredited OneFulfiller AcknowledgedIsRecorded
PROPERTIES CreditsUnderLock ImplementsLedger
CHECK_DEADLOCK FALSE
