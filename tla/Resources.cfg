SPECIFICATION MCSpec
CONSTANTS
    j1 = j1
    j2 = j2
    p1 = p1
    s1 = s1
    s2 = s2
    Jobs = {j1, j2}
    Profiles = {p1}
    Slots = {s1, s2}
    KeyOf <- MCKeyOf
    None = None
    MaxRunning = 1
    MaxFailures = 1
    MaxReaperFailures = 1
    Runtimes = {"apple", "docker", "orb"}
    Endpoints = {"e1", "e2"}
    MaxAttempts = 2
    MaxForeign = 1
    MaxLaunchFailures = 1
    NoLaunch = NoLaunch
    InputChunks = 1
    MaxOutput = 2
    MaxWritten = 3
    Checkers = {c1, c2}
    CheckRuntimes = {"apple", "docker", "orb"}
    NoCheck = NoCheck
    AudioBuffers = {b1, b2, b3}
    MaxWorkers = 2
    NoAudio = NoAudio
    Recorders = {r1, r2}
    TraceCapacity = 1
    FanOut = 2
    MaxCalls = 2
    NoTrace = NoTrace
    Gui = {g1}
    Selftest = {}
    MaxFrame = 1
    Conversations <- MCConversations
    PipeRoom = 3
    MaxEditsOfKit = 0
    NoChild = NoChild
    NoWork = NoWork
INVARIANTS TraceInvariant QueueInvariant LaunchInvariant CommandInvariant ImageCheckInvariant AudioInvariant
PROPERTIES JobsKept HostWorkEnds
CHECK_DEADLOCK FALSE
