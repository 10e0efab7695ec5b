SPECIFICATION FairSpec
CONSTANTS
    Paths = {}
    Dirs = {d}
    Parent <- InRoot
    Data = {e}
    Empty = e
    Fragments = {}
    Patched <- Whole
    MaxFd = 1
    MaxTime = 0
    N = 2
    Names = {a, b, h}
    Threads = {t1}
    Timeout = 1
    Operations = {"getattr", "mkdir", "opendir"}
    Handles = 1
    MaxFailures = 1
    MaxDamage = 0
    MaxSkew = 0
PROPERTY OperationsEnd
