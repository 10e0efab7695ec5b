SPECIFICATION Spec
CONSTANTS
    Paths = {f}
    Dirs = {}
    Parent <- InRoot
    Data = {e, v1, v2, b12}
    Empty = e
    Fragments = {v1, v2}
    Patched <- Halves
    MaxFd = 4
    MaxTime = 1
    N = 2
    Names = {a, b, h}
    Threads = {t1}
    Timeout = 1
    Operations = {"getattr", "mknod", "unlink", "open", "read", "write", "release", "utime"}
    Handles = 3
    MaxFailures = 0
    MaxDamage = 1
    MaxSkew = 0
SYMMETRY Symmetry
INVARIANT TypeOK
INVARIANT OpenRepairs
INVARIANT OpenKeepsWhatWasReported
INVARIANT DescriptorsAreBounded
