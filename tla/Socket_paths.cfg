CONSTANTS
    Proc = {p1, p2}
    NSOCKET = 2
    SOCKBINDMAX = 1
    SOCKBACKLOG = 1
    SOCKQLEN = 1
    MAXFDMSG = 0
    Conn = {c1}
    Path = {a}
    Data = {0}
    MaxRefs = 0
    HasFile = {}
    Killable = {}
    Calls = {"connect", "close_bound"}
    NoConn = NoConn
    NoPath = NoPath
SPECIFICATION Spec
INVARIANTS PathsLeadToTheirSockets
CHECK_DEADLOCK FALSE
