\* two requests at a time of a user with a balance of one, two usages under one
\* id of a request, two credits or refunds
SPECIFICATION FairSpec
CONSTANTS
    q1 = q1
    q2 = q2
    k1 = k1
    p1 = p1
    p2 = p2
    Requests = {q1, q2}
    Keys = {k1}
    Payloads = {p1, p2}
    Cost <- Costs
    Opening = 1
    None = None
    MaxChanges = 2
INVARIANTS TypeOK ChargedAsRecorded
PROPERTIES ImplementsLedger CacheConverges
CHECK_DEADLOCK FALSE
