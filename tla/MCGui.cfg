SPECIFICATION Spec
CONSTANTS
    Worker = {w}
    MaxRuns = 3
    MaxLive = 2
    MaxQueue = 2
INVARIANTS
    ButtonComesBack
    OneRunAtATime
PROPERTY
    StopFindsItsRun
CHECK_DEADLOCK FALSE
