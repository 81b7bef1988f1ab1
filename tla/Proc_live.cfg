CONSTANTS
    NPROC = 3
    NCPU = 2
    Resource = {}
    KillPids = {2, 3}
    MaxPid = 3
    None = None
SPECIFICATION FairSpec
PROPERTIES OrphansReaped KilledLeavesWait
CHECK_DEADLOCK FALSE
