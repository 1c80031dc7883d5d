SPECIFICATION Spec
CONSTANTS
    Ip = {a, b}
    NoIp = NoIp
    MaxId = 2
    MaxZone = 2
    Board = {x}
INVARIANTS
    DeletedZonesFallBack
