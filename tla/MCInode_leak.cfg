SPECIFICATION Spec
CONSTANTS
    Proc = {p1, p2}
    Inum = {1, 2, 3}
    a = a
    b = b
    Name = {a, b}
    Path <- TwoLevels
    Outcome = {TRUE}
    p1 = p1
    p2 = p2
    Calls <- Files
    NoProc = NoProc
    NoPath = NoPath
INVARIANT FreedWhenUnused
CHECK_DEADLOCK FALSE
