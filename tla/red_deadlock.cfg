\* README.md:9: a client command runs while redundancy has red_lock.
SPECIFICATION FairSpec
CONSTANTS
    c1 = c1
    Clients = {c1}
    NServers = 3
    Up = {0, 1}
    Ops = {"ls"}
    Events = {"timer"}
    MaxEntries = 1
    SemMax = 2
PROPERTY
    RoundEnds
CHECK_DEADLOCK FALSE
