SPECIFICATION FairSpec
CONSTANTS
    fuse = fuse
    thread = thread
    a = a
    b = b
    Clients = {fuse, thread}
    Servers = {a, b}
    Asks <- Mirrors
    MaxKills = 1
INVARIANT TypeOK
INVARIANT NoServersWaitForEachOther
PROPERTY ImplementsRequests
PROPERTY AnsweredUnlessStranded
CHECK_DEADLOCK FALSE
