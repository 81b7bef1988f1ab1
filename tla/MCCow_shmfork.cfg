CONSTANTS
    Proc = {p1, p2}
    Frame = {f1, f2}
    NoFrame = NoFrame
    MaxPages = 2
    Data = {0, 1}
    Zero = 0
    Junk = 1
    Shared = Shared
    Calls = {"fork", "shm", "fork_shared"}
SPECIFICATION Spec
SYMMETRY Symmetry
INVARIANTS FreedOnlyByShmclose
CHECK_DEADLOCK FALSE
