SPECIFICATION Spec
CONSTANTS
    Paths = {f, g}
    Dirs = {d}
    Parent <- OneInDirectory
    Data = {e, v1, v2}
    Empty = e
    Fragments = {v1, v2}
    Patched <- Whole
    MaxFd = 3
    MaxTime = 0
    N = 2
    Names = {a, b, h}
    Threads = {t1}
    Timeout = 1
    Operations = {"getattr", "mknod", "unlink", "truncate", "open", "read", "write", "release", "rename", "utime", "mkdir", "rmdir", "opendir", "readdir", "releasedir"}
    Handles = 2
    MaxFailures = 0
    MaxDamage = 0
    MaxSkew = 0
SYMMETRY Symmetry
INVARIANT MirrorsAgree
INVARIANT PrimaryHasWhatWasReported
PROPERTY ListingsAreTrue
