SPECIFICATION Spec
CONSTANTS
    Paths = {f}
    Dirs = {}
    Parent <- InRoot
    Data = {e, v1}
    Empty = e
    Fragments = {v1}
    Patched <- Whole
    MaxFd = 2
    MaxTime = 0
    N = 2
    Names = {a, b, h}
    Threads = {t1}
    Timeout = 1
    Operations = {"getattr", "mknod", "unlink", "truncate", "open", "read", "write", "release"}
    Handles = 2
    MaxFailures = 1
    MaxDamage = 0
    MaxSkew = 0
SYMMETRY Symmetry
INVARIANT PrimaryHasWhatWasReported
