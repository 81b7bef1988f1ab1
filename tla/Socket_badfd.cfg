CONSTANTS
    Proc = {p1, p2}
    NSOCKET = 2
    SOCKBINDMAX = 1
    SOCKBACKLOG = 1
    SOCKQLEN = 1
    MAXFDMSG = 1
    Conn = {c1}
    Path = {}
    Data = {0}
    MaxRefs = 3
    HasFile = {p1}
    Killable = {}
    Calls = {"socketpair", "bad_fd", "close_bound"}
    NoConn = NoConn
    NoPath = NoPath
SPECIFICATION Spec
INVARIANTS NothingLost
CHECK_DEADLOCK FALSE
