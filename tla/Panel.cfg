SPECIFICATION MCSpec
CONSTANTS
    p1 = p1  p2 = p2
    i1 = i1  i2 = i2
    s1 = s1
    auto1 = auto1  default2 = default2  named1 = named1  named2 = named2
    Profiles = {p1, p2}
    Versions <- McVersions
    Idents = {i1, i2}
    Slots = {s1}
    IdentOf <- McIdentOf
    Wants <- McWants
    SlotOf <- McSlotOf
    InitConfigs <- McConfigs
    ReadErrors = TRUE
    MaxOps = 2
    MaxEdits = 0
    None = None
    t1 = t1
    t2 = t2
    Threads = {t1, t2}
    MaxLines = 2
    MaxQueuedLines = 1
    MaxPending = 2
    MaxRecreated = 1
    NoTask = NoTask
    Scripts <- MCScripts
    c1 = c1
    c2 = c2
    Clients = {c1, c2}
    MaxHandlers = 1
    TotalTime = 4
    ReadTime = 1
    WriteTime = 1
    ProbeTime = 2
    QueueTime = 1
    Probes = 2
    QueueRoom = 1
    MaxConfigEdits = 1
    NoControl = NoControl
    Asks <- MCAsks
    Configs <- MCConfigs
INVARIANTS TasksInvariant ControlInvariant
PROPERTIES AskedEnds
CHECK_DEADLOCK FALSE
