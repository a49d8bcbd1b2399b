\* one change, no failures
SPECIFICATION FairSpec
CONSTANTS
    a1 = a1
    u1 = u1
    p1 = p1
    r1 = r1
    None = None
    Accounts = {a1}
    Updaters = {u1}
    Pollers = {p1}
    Rebuilders = {r1}
    Requests = {}
    MaxVersion = 1
    MaxUsed = 0
    MaxFaults = 0
PROPERTIES AccountConverges
CHECK_DEADLOCK FALSE
