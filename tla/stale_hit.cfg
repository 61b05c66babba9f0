\* Naming_server.c:241: "first we find if it already exists or not"
SPECIFICATION Spec
CONSTANTS
    c1 = c1
    Clients = {c1}
    Servers = {0}
    Mortal = {}
    Paths <- DirPaths
    Copies = {}
    Commands <- FileCommands
    MaxCmds = 4
    MaxMoves = 0
    Capacity = 10
    Hash <- ByLetter
    Buckets = {0, 1, 2, 3}
    NNodes = 5
INVARIANTS
    FoundExists
CHECK_DEADLOCK FALSE
