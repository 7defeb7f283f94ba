SPECIFICATION MCSpec
CONSTANTS
    p1 = p1  p2 = p2
    i1 = i1  i2 = i2
    s1 = s1
    auto1 = auto1  default2 = default2  named1 = named1  named2 = named2
    Profiles = {p1, p2}
    Versions <- McVersions
    Idents = {i1, i2}
    Slots = {s1}
    IdentOf <- McIdentOf
    Wants <- McWants
    SlotOf <- McSlotOf
    InitConfigs <- McShared
    ReadErrors = FALSE
    MaxOps = 3
    MaxEdits = 1
    None = None
    t1 = t1  t2 = t2
    q1 = q1  q2 = q2
    TopSurfaces = {t1, t2}
    PopSurfaces = {q1, q2}
    MaxRoles <- MCRoles
    MaxEvents = 2
    MaxInbox = 3
    Places = {1}
    Width <- MCWidth
    Views = {2, 4}
    NoParent = NoParent
INVARIANTS NothingShared SessionsInvariant PresentationInvariant
PROPERTIES CancelledNeverRuns
SYMMETRY Symmetric
CHECK_DEADLOCK FALSE
