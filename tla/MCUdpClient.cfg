SPECIFICATION Spec
CONSTANTS
    Worker = {"w1"}
    MaxTry = 5
    AuthTry = 5
    ResetTry = 3
    SyncEvery = 2
    Timeout = 2
    MaxSignals = 1
    MaxRuns = 2
INVARIANTS
    InterfaceComesDown
    EndIsAnnounced
PROPERTIES
    SilentAfterClose
    ConnectEnds
    StopEndsClient
    SilenceEndsClient
CHECK_DEADLOCK FALSE
