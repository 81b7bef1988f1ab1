CONSTANTS
    NPROC = 2
    NCPU = 2
    Resource = {}
    KillPids = {0, 2}
    MaxPid = 3
    None = None
SPECIFICATION Spec
PROPERTIES NewProcessNotKilled
CHECK_DEADLOCK FALSE
