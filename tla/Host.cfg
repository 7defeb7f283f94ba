SPECIFICATION MCSpec
CONSTANTS
    w1 = w1
    w2 = w2
    Surfaces = {w1, w2}
    Desktop = Desktop
    Nobody = Nobody
    Keys = {k}
    MaxRefusals = 1
    Kinds <- MCKinds
    Uses = {"typing", "locking", "pointing", "gestures"}
    Writers = {v1, v2}
    ProfileNames = {"a", "b"}
    OpIds = {1, 2, 3}
    MaxOps = 3
    MaxEdits = 1
    NoConfig = NoConfig
    Apps = {x1, x2, x3}
    NoSocket = NoSocket
    MaxClicks = 4
    MaxInbox = 2
    NoState = NoState
    NoOp = NoOp
INVARIANTS InputInvariant ProfilesInvariant LiveSocketKept PanelInvariant
PROPERTIES InputSteps
CHECK_DEADLOCK FALSE
