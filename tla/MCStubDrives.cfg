SPECIFICATION FairSpec
CONSTANTS
    DriveCount = 2
    Ids = {a, b}
    Calls = {c1, c2, c3, c4}
    Stub = Stub
    NoCall = NoCall
    LoseReplies = TRUE
INVARIANTS
    TypeOK
    DrivesPartitioned
    OwnImage
PROPERTIES
    ImageIsGone
    CallsReturn
\* all requests of the instance are answered in the end
CHECK_DEADLOCK FALSE
