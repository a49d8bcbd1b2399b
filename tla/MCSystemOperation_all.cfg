\* two keys of system operations, two requests at a time: a claim takes less time
\* than an execution, an execution less than the life of its record
SPECIFICATION Spec
CONSTANTS
    k1 = k1
    k2 = k2
    p1 = p1
    w1 = w1
    w2 = w2
    Keys = {k1, k2}
    SystemKeys = {k1, k2}
    LockKey = LockKey
    Payloads = {p1}
    Workers = {w1, w2}
    None = None
    Lease = 2
    TTL = 3
    Backoff = 1
    ClaimTime = 0
    MinRun = 1
    RunTime = 2
    MaxTime = 5
    MaxFaults = 1
SYMMETRY Symmetry
INVARIANTS TypeOK OneExecutor AtMostOnce
PROPERTIES RenewedLeaseExcludes
CHECK_DEADLOCK FALSE
