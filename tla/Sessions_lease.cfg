SPECIFICATION Spec
CONSTANTS
    p1 = p1  p2 = p2
    i1 = i1  i2 = i2
    s1 = s1
    auto1 = auto1  default2 = default2  named1 = named1  named2 = named2
    Profiles = {p1}
    Versions <- McVersions
    Idents = {i1, i2}
    Slots = {s1}
    IdentOf <- McIdentOf
    Wants <- McWants
    SlotOf <- McSlotOf
    InitConfigs <- McConfigs
    ReadErrors = FALSE
    MaxOps = 3
    MaxEdits = 1
    None = None
INVARIANT LeaseHasWork
CHECK_DEADLOCK FALSE
