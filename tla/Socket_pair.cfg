CONSTANTS
    Proc = {p1, p2}
    NSOCKET = 2
    SOCKBINDMAX = 1
    SOCKBACKLOG = 1
    SOCKQLEN = 2
    MAXFDMSG = 1
    Conn = {c1}
    Path = {a}
    Data = {0}
    MaxRefs = 2
    HasFile = {p1}
    Killable = {p1}
    Calls = {"socketpair", "fork", "files_run_out", "bad_fd"}
    NoConn = NoConn
    NoPath = NoPath
SPECIFICATION FairSpec
INVARIANT RefsAccounted
PROPERTIES RefinesChannels PeerCloseWakes
CHECK_DEADLOCK FALSE
