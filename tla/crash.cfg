\* Storage servers exit while commands are under way.
SPECIFICATION FairSpec
CONSTANTS
    c1 = c1
    Clients = {c1}
    NServers = 3
    Up = {0}
    Ops = {"create", "deletefile", "read", "copyfile", "copydir"}
    Events = {"crash", "empty", "timer"}
    MaxEntries = 1
    SemMax = 2
PROPERTY
    DeadServerMarkedDown
