CONSTANTS
    b1 = b1
    t1 = t1
    p1 = p1
    Blocking = {b1}
    Timed = {t1}
    Polling = {p1}
    Repeating = {}
    MaxPending = 2
    MaxAdmitted = 1
    UiBurst = 1
SPECIFICATION FairSpec
PROPERTIES HeldWorkerReturns
CHECK_DEADLOCK FALSE
