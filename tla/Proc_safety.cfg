CONSTANTS
    NPROC = 4
    NCPU = 2
    Resource = {r}
    KillPids = {1, 2, 3, 4}
    MaxPid = 4
    None = None
SPECIFICATION Spec
INVARIANTS HasParent NoMissedExit NoMissedWakeup
CHECK_DEADLOCK FALSE
