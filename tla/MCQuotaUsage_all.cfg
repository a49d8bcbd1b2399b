\* two requests at a time, three that are answered, two days and one reset, with the
\* flusher and without
SPECIFICATION Spec
CONSTANTS
    q1 = q1
    q2 = q2
    Requests = {q1, q2}
    None = None
    Limit = 2
    MayFail = TRUE
    MaxServed = 3
    MaxDays = 2
    MaxResets = 1
SYMMETRY Symmetry
INVARIANTS TypeOK NeverOvercounted MirroredWithWindow
CHECK_DEADLOCK FALSE
