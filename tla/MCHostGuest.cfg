SPECIFICATION Spec
CONSTANTS
    Tasks = {t1}
    Execs = {e1}
    Init0 = init
    Calls = {c1, c2, c3}
    NoCall = NoCall
    LoseReplies = TRUE
INVARIANTS
    TypeOK
    KeepsItsOwn
PROPERTIES
    RemovedUnmounted
    DeletedIsGone
SYMMETRY Symmetry
CHECK_DEADLOCK FALSE
