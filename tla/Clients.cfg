SPECIFICATION MCSpec
CONSTANTS
    Clients = {c1}
    MaxAccepts = 1
    TurnBudget = 1
    Quantum = 1
    Loads <- Failing
    None = None
    HostContents <- Copied
    MaxCopies = 2
    MaxSelections = 1
    MaxPastes = 2
    MaxTransfers = 1
    MaxTotalBytes = 1
    NoClip = NoClip
INVARIANTS ClipboardInvariant
PROPERTIES SourceEnds HeldRequestsEnd
CHECK_DEADLOCK FALSE
