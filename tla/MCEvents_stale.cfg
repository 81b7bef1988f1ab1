CONSTANTS
    p1 = p1
    p2 = p2
    Proc = {p1}
    Key = {x, NEWLINE, EOF, ERASE, KILL}
    RawKey = {x}
    NEWLINE = NEWLINE
    EOF = EOF
    ERASE = ERASE
    KILL = KILL
    INPUT_BUF = 2
    UintMod = 4
    Size = {2}
    Killable = {}
    Fd = {1, 2}
    MOUSEBUFSIZE = 1
    EPOLL_MAXFDS = 2
    Timeout <- Timeouts
    Maxevents = 2
    Room = {2}
    Calls <- OpenAndClose
SPECIFICATION ReopenSpec
PROPERTY NoStaleReport
CHECK_DEADLOCK FALSE
