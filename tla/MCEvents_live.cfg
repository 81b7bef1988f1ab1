CONSTANTS
    p1 = p1
    p2 = p2
    Proc = {p1, p2}
    Key = {x, EOF}
    RawKey = {x}
    NEWLINE = NEWLINE
    EOF = EOF
    ERASE = ERASE
    KILL = KILL
    INPUT_BUF = 1
    UintMod = 2
    Size = {1}
    Killable = {p1}
    Fd = {1, 2}
    MOUSEBUFSIZE = 1
    EPOLL_MAXFDS = 2
    Timeout <- Timeouts
    Maxevents = 2
    Room = {0, 1}
    Calls <- LoopAndReader
SPECIFICATION FairSpec
PROPERTY AlwaysReported
CHECK_DEADLOCK FALSE
