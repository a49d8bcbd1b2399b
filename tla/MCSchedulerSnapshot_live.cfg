\* one change, and a request that may find no snapshot
SPECIFICATION FairSpec
CONSTANTS
    a1 = a1
    u1 = u1
    p1 = p1
    r1 = r1
    q1 = q1
    None = None
    Accounts = {a1}
    Updaters = {u1}
    Pollers = {p1}
    Rebuilders = {r1}
    Requests = {q1}
    MaxVersion = 1
    MaxUsed = 0
    MaxFaults = 1
INVARIANTS ListedIsCached
PROPERTIES SnapshotConverges
CHECK_DEADLOCK FALSE
