\* The server exits; the round that was due wipes its replicas.
SPECIFICATION Spec
CONSTANTS
    NServers = 3
    NPaths = 1
    Dirs = {}
    Sources = {0}
    Mortal = {0}
    Events = {}
    MaxVersion = 3
    BufMax = 2
INVARIANTS
    ReplicaSurvives
CHECK_DEADLOCK FALSE
