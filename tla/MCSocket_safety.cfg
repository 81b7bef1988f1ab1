CONSTANTS
    Proc = {p1, p2}
    NSOCKET = 3
    SOCKBINDMAX = 1
    SOCKBACKLOG = 1
    SOCKQLEN = 1
    MAXFDMSG = 0
    Conn = {c1, c2}
    Path = {a}
    Data = {0}
    MaxRefs = 0
    HasFile = {}
    Killable = {}
    Calls = {"connect", "close_listener", "files_run_out", "close_bound"}
    NoConn = NoConn
    NoPath = NoPath
SPECIFICATION Spec
SYMMETRY Symmetry
INVARIANTS NoUseAfterFree OneSocketPerEnd SleepersJustified
CHECK_DEADLOCK FALSE
