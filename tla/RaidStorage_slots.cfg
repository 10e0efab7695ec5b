SPECIFICATION Spec
CONSTANTS
    Paths = {f}
    Dirs = {d}
    Parent <- InRoot
    Data = {e, v1}
    Empty = e
    Fragments = {v1}
    Patched <- Whole
    MaxFd = 1
    MaxTime = 0
    N = 2
    Names = {a, b, h}
    Threads = {t1}
    Timeout = 1
    Operations = {"getattr", "mknod", "open", "mkdir", "opendir", "readdir"}
    Handles = 1
    MaxFailures = 2
    MaxDamage = 1
    MaxSkew = 0
CONSTRAINT FaultsBounded
SYMMETRY Symmetry
VIEW SlotsView
PROPERTY ImplementsServerSlots
