SPECIFICATION FairSpec
CONSTANTS
    fuse = fuse
    thread = thread
    a = a
    b = b
    Clients = {fuse, thread}
    Servers = {a}
    Asks <- Two
    MaxKills = 0
PROPERTY EveryRequestIsAnswered
