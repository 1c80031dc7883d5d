SPECIFICATION SafeSpec
CONSTANTS
    N = 2
    Stranger = s
    Strangers = {s}
    Conn = {c1}
    NoConn = NoConn
    Requests <- AllRequests
    MaxBoots = 1
INVARIANTS
    TypeOK
    RegisteredIffId
    ReportsToldIds
