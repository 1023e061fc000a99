SPECIFICATION FairSpec
CONSTANTS
    Calls = {c1, c2, c3}
    Vms = {v1}
    NoCall = NoCall
    EagerStop = FALSE
    MaxRestarts = 1
INVARIANTS
    TypeOK
    OneShim
    StoppedMeansGone
    NothingLeft
PROPERTY CallsReturn
\* all requests of the instance are answered in the end
CHECK_DEADLOCK FALSE
