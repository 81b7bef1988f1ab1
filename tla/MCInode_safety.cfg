SPECIFICATION Spec
CONSTANTS
    Proc = {p1, p2}
    Inum = {1, 2, 3}
    a = a
    b = b
    Name = {a, b}
    Path <- TwoLevels
    Outcome = {TRUE, FALSE}
    p1 = p1
    p2 = p2
    Calls <- FilesAndDirs
    NoProc = NoProc
    NoPath = NoPath
INVARIANTS RefsCounted NothingDangles LinksCounted TreeStaysTree DeadlockOnlyInPut
CHECK_DEADLOCK FALSE
