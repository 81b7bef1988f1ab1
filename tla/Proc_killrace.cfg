CONSTANTS
    NPROC = 2
    NCPU = 2
    Resource = {r}
    KillPids = {2}
    MaxPid = 2
    None = None
SPECIFICATION FairSpec
PROPERTIES KilledExits
CHECK_DEADLOCK FALSE
