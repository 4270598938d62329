SPECIFICATION Spec
CONSTANTS
    Worker = {"w1", "w2"}
    MaxSignals = 2
INVARIANTS
    WorkersStartTogether
    DescriptorsClosed
PROPERTIES
    StartUpEnds
    StopEndsServer
CHECK_DEADLOCK FALSE
