SPECIFICATION MCSpec
CONSTANTS
    Clients = {c1}
    MaxAccepts = 1
    TurnBudget = 2
    Quantum = 1
    Loads <- MCLoads
    None = None
    Programs = {"stdio", "publish"}
    MaxStreams = 2
    MaxData = 1
    PeerLimit = 1
    QueueLimit = 1
    OutLimit = 2
    LaneLimit = 1
    NoRelay = NoRelay
    Gui = {g1}
    Selftest = {t1}
    MaxFrame = 1
    Conversations <- MCConversations
    PipeRoom = 3
    MaxEditsOfKit = 1
    NoChild = NoChild
    NoWork = NoWork
INVARIANTS SourceInvariant StreamsIntact RelayProgress ResearchInvariant
PROPERTIES GraceGiven
CHECK_DEADLOCK FALSE
