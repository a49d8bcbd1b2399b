\* one key of an ordinary request, whose execution may be as short as a claim is late
SPECIFICATION Spec
CONSTANTS
    k1 = k1
    p1 = p1
    w1 = w1
    w2 = w2
    Keys = {k1}
    SystemKeys = {}
    LockKey = LockKey
    Payloads = {p1}
    Workers = {w1, w2}
    None = None
    Lease = 2
    TTL = 3
    Backoff = 1
    ClaimTime = 0
    MinRun = 0
    RunTime = 2
    MaxTime = 5
    MaxFaults = 0
SYMMETRY Symmetry
INVARIANTS AtMostOnce
CHECK_DEADLOCK FALSE
