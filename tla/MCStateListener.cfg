SPECIFICATION Spec
CONSTANTS
    Ip = {a, b}
    NoIp = NoIp
    MaxId = 3
    CountMax = 3
INVARIANTS
    TypeOK
    ByeOnlyToStrangers
    OnlineIsIssued
    OneIdPerIp
PROPERTIES
    ImplementsDetector
    ImplementsEvents
