CONSTANTS
    Proc = {p1, p2, p3}
    Frame = {f1, f2}
    NoFrame = NoFrame
    MaxPages = 2
    Data = {0, 1}
    Zero = 0
    Junk = 1
    Shared = Shared
    Calls = {"fork", "shm", "mprotect"}
SPECIFICATION Spec
SYMMETRY Symmetry
INVARIANTS SharedNotWritable NothingYanked RefsCountOwners
PROPERTIES RefinesMemory
CHECK_DEADLOCK FALSE
