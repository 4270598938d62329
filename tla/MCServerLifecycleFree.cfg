SPECIFICATION Spec
CONSTANTS
    Worker = {"w1", "w2"}
    MaxSignals = 2
INVARIANT
    NoThreadOutlivesState
CHECK_DEADLOCK FALSE
