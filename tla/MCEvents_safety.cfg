CONSTANTS
    p1 = p1
    p2 = p2
    Proc = {p1, p2}
    Key = {x, EOF, ERASE, KILL}
    RawKey = {x}
    NEWLINE = NEWLINE
    EOF = EOF
    ERASE = ERASE
    KILL = KILL
    INPUT_BUF = 2
    UintMod = 4
    Size = {2}
    Killable = {p1}
    Fd = {1, 2}
    MOUSEBUFSIZE = 1
    EPOLL_MAXFDS = 2
    Timeout <- Always
    Maxevents = 2
    Room = {1}
    Calls <- LoopAndReader
SPECIFICATION FairSpec
INVARIANTS SleepersJustified ReadAfterPoll
PROPERTIES RefinesTerminal WatchedReported KilledLeavesPoll
CHECK_DEADLOCK FALSE
