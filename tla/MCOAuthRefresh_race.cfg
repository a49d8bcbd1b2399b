\* two processes, nothing fails, a refresh may last longer than the lock
SPECIFICATION Spec
CONSTANTS
    r1 = r1
    r2 = r2
    p1 = p1
    p2 = p2
    None = None
    Refreshers = {r1, r2}
    Requests = {}
    Processes = {p1, p2}
    Unreliable = {}
    Refusals = {"invalid_grant"}
    LockMayFail = TRUE
    MaxIssued = 2
    MaxFaults = 0
INVARIANTS RaceIsRecovered
CHECK_DEADLOCK FALSE
