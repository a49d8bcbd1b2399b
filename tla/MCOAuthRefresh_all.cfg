\* the loop and two requests on one process or two; the lock in Redis may fail when
\* there is one
SPECIFICATION FairSpec
CONSTANTS
    r1 = r1
    q1 = q1
    q2 = q2
    p1 = p1
    p2 = p2
    None = None
    Refreshers = {r1}
    Requests = {q1, q2}
    Processes = {p1, p2}
    Unreliable <- StepsButRecover
    Refusals = {"invalid_grant"}
    LockMayFail = FALSE
    MaxIssued = 2
    MaxFaults = 1
INVARIANTS TypeOK DisabledOnlyIfLost
PROPERTIES Renewed CacheCatchesUp
CHECK_DEADLOCK FALSE
