SPECIFICATION Spec
CONSTANTS
    Client = {a}
    NoId = NoId
    MaxZone = 2
INVARIANTS
    TypeOK
    StaleOnlyIfMissed
    ShownOnlineIsOnline
    SuperAdminBoardLives
PROPERTIES
    DiscoveredIsShown
CHECK_DEADLOCK FALSE
