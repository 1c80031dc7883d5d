SPECIFICATION Spec
CONSTANTS
    MaxDialog = 2
    MaxSessions = 2
INVARIANTS
    CancelClosesService
CHECK_DEADLOCK FALSE
