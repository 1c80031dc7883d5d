SPECIFICATION DiscoverySpec
CONSTANTS
    Ip = {a, b}
    Computer = {a}
    NoIp = NoIp
    MaxId = 2
    CountMax = 1
    MaxNet = 2
INVARIANTS
    DiscoveryTypeOK
    ReportsAreIssued
PROPERTIES
    SettledForGood
    AgentsJoin
