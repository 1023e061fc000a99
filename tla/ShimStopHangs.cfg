SPECIFICATION FairSpec
CONSTANTS
    Calls = {c1, c2}
    Bounded = {c1, c2}
    MaxTasks = 1
    JailerSignals = FALSE
PROPERTY StopReturns
\* the shim is idle, or gone, once the calls of the instance are answered
CHECK_DEADLOCK FALSE
