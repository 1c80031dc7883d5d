SPECIFICATION Spec
CONSTANTS
    MaxDialog = 2
    MaxSessions = 2
INVARIANTS
    TypeOK
    ClosedUnlessExcused
    CutByOthersOnly
    WrittenIsAwaited
PROPERTIES
    DialogsAreAnswered
CHECK_DEADLOCK FALSE
