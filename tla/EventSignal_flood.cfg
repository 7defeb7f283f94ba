CONSTANTS
    b1 = b1
    t1 = t1
    p1 = p1
    Blocking = {b1}
    Timed = {t1}
    Polling = {}
    Repeating = {b1, t1}
    MaxPending = 1
    MaxAdmitted = 1
    UiBurst = 2
SPECIFICATION FairSpec

INVARIANTS CreditsBalance NoLostWakeup WorkerFloodBounded
PROPERTIES LoopLive
