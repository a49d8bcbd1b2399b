\* one request at a time, nothing fails and nothing is reset
SPECIFICATION Spec
CONSTANTS
    q1 = q1
    Requests = {q1}
    None = None
    Limit = 1
    MayFail = FALSE
    MaxServed = 3
    MaxDays = 2
    MaxResets = 0
INVARIANTS OverspendBounded
CHECK_DEADLOCK FALSE
