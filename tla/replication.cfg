\* A file and a directory, two servers with files, a host that may exit, a
\* client's late write.
SPECIFICATION FairSpec
CONSTANTS
    NServers = 3
    NPaths = 2
    Dirs = {1}
    Sources = {0, 2}
    Mortal = {1}
    Events = {"late"}
    MaxVersion = 3
    BufMax = 1
INVARIANTS
    ReplicaExact
    ReplicaUnmixed
PROPERTIES
    ReplicasConverge
