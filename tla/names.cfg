\* Two clients, two storage servers one of which goes away and comes back, a
\* directory with two files; a cache with room for two of these three paths.
SPECIFICATION Spec
CONSTANTS
    c1 = c1
    c2 = c2
    Clients = {c1, c2}
    Servers = {0, 1}
    Mortal = {0}
    Paths <- DirPaths
    Copies <- SomeCopies
    Commands <- SomeCommands
    MaxCmds = 4
    MaxMoves = 2
    Capacity = 2
    Hash <- LastLetter
    Buckets = {0, 1}
    NNodes = 5
SYMMETRY ClientSymmetry
INVARIANTS
    TypeOK
    
    
    
\* A behaviour ends with its last command, or when the naming server crashes.
CHECK_DEADLOCK FALSE
