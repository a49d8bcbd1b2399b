\* two changes of an account, a poller and a worker that rebuilds, one call in all fails
SPECIFICATION Spec
CONSTANTS
    a1 = a1
    u1 = u1
    p1 = p1
    r1 = r1
    None = None
    Accounts = {a1}
    Updaters = {u1}
    Pollers = {p1}
    Rebuilders = {r1}
    Requests = {}
    MaxVersion = 2
    MaxUsed = 1
    MaxFaults = 1
INVARIANTS TypeOK HandledBeforeWatermark
CHECK_DEADLOCK FALSE
