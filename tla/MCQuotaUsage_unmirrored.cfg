\* one request at a time with the flusher, nothing fails and nothing is reset
SPECIFICATION Spec
CONSTANTS
    q1 = q1
    Requests = {q1}
    None = None
    Limit = 1
    MayFail = FALSE
    MaxServed = 1
    MaxDays = 1
    MaxResets = 0
INVARIANTS MirroredUnlessLost
CHECK_DEADLOCK FALSE
