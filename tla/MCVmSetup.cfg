SPECIFICATION Spec
CONSTANTS
    None = None
    Inputs <- MCInputs
    Retries <- MCRetries
    HostFiles <- MCHostFiles
    GuestDirs <- MCGuestDirs
    GuestLinks <- MCGuestLinks
    MaxAttempts = 3
INVARIANTS
    TypeOK
    LevelsAsAsked
    VmmSeesItsFiles
    GuestAsAsked
    FailsOnlyForCause
\* a VM may be over for good
CHECK_DEADLOCK FALSE
