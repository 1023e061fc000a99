SPECIFICATION FairSpec
CONSTANTS
    Streams <- InAndOut
    ListenMayFail = TRUE
PROPERTY CreateReturns
CHECK_DEADLOCK FALSE
