SPECIFICATION ShutdownFairSpec
CONSTANTS
    shared = shared
    dedicated = dedicated
    managed = managed
    Shared = {shared}
    Dedicated = {dedicated}
    Managed = {managed}
    Capacity = 2
    DrainMax = 2
    MinRounds = 2
    MaxNoise = 1
    NoResult = NoResult
INVARIANTS NothingLost ReservedUntilReleased
PROPERTIES ExitEnds
CHECK_DEADLOCK FALSE
