\* three system operations one after the other, nothing fails, a run may outlast the lease
SPECIFICATION Spec
CONSTANTS
    k1 = k1
    k2 = k2
    p1 = p1
    w1 = w1
    w2 = w2
    Keys = {k1, k2}
    SystemKeys = {k1, k2}
    LockKey = LockKey
    Payloads = {p1}
    Workers = {w1, w2}
    None = None
    Lease = 2
    TTL = 5
    Backoff = 1
    ClaimTime = 0
    MinRun = 1
    RunTime = 4
    MaxTime = 6
    MaxFaults = 0
SYMMETRY Symmetry
INVARIANTS OneOperation
CHECK_DEADLOCK FALSE
