\* The three redundancy threads of a group, with no client connected.
SPECIFICATION FairSpec
CONSTANTS
    Clients = {}
    NServers = 3
    Up = {0, 1, 2}
    Ops = {}
    Events = {"timer"}
    MaxEntries = 2
    SemMax = 2
INVARIANTS
    RoundIsolated
PROPERTIES
    RoundEnds
