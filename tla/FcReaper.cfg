SPECIFICATION Spec
CONSTANTS
    Calls = {c1, c2}
    Vms = {v1}
    NoCall = NoCall
    EagerStop = FALSE
    MaxRestarts = 0
SYMMETRY Symmetry
INVARIANT CreatedHasDir
\* all requests of the instance are answered in the end
CHECK_DEADLOCK FALSE
