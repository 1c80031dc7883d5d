SPECIFICATION Spec
CONSTANTS
    N = 2
    Stranger = s
    Strangers = {s}
    Conn = {c1, c2}
    NoConn = NoConn
    Requests <- FewRequests
    MaxBoots = 1
PROPERTIES
    ServedIfClientsBehave
    ReportsRecur
