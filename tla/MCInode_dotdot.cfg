SPECIFICATION Spec
CONSTANTS
    Proc = {p1}
    Inum = {1, 2, 3}
    a = a
    b = b
    Name = {a, b}
    Path <- Dots
    Outcome = {TRUE}
    p1 = p1
    p2 = p2
    Calls <- Removed
    NoProc = NoProc
    NoPath = NoPath
INVARIANT NothingDangles
CHECK_DEADLOCK FALSE
