SPECIFICATION FairSpec
CONSTANTS
    Calls = {c1, c2, c3}
    Bounded = {c1, c2}
    MaxTasks = 1
    JailerSignals = TRUE
INVARIANTS
    TypeOK
    ShutdownFindsVM
    AcceptedShutdownIsEmpty
    StoppedMeansGone
    EventsInOrder
PROPERTY NothingHangs
\* the shim is idle, or gone, once the calls of the instance are answered
CHECK_DEADLOCK FALSE
