SPECIFICATION Spec
CONSTANTS
    None = None
    Inputs <- MCInputs
    Retries <- MCRetries
    HostFiles <- MCHostFiles
    GuestDirs <- MCGuestDirs
    GuestLinks <- MCGuestLinks
    MaxAttempts = 1
INVARIANTS
    LeavesNoContainer
CHECK_DEADLOCK FALSE
