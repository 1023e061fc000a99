SPECIFICATION FairSpec
CONSTANTS
    Streams <- InAndOut
    ListenMayFail = FALSE
INVARIANTS
    TypeOK
    CreatedIsConnected
    LivesWithProcess
    DeletedIsClosed
PROPERTIES
    CallsReturn
    StreamsEnd
\* a process that was deleted, or runs, is left alone
CHECK_DEADLOCK FALSE
