SPECIFICATION Spec
CONSTANTS
    Tasks = {t1}
    Execs = {init, e1}
    Init0 = init
    Calls = {c1, c2, c3, c4}
    NoProc = NoProc
    Overlap = FALSE
    LoseReplies = TRUE
SYMMETRY CallSymmetry
INVARIANTS
    TypeOK
    CreatedIsManaged
    NothingLeftBehind
PROPERTIES
    GivenUpRightly
    RegistrySpec
\* all requests of the instance are answered in the end
CHECK_DEADLOCK FALSE
