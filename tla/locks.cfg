\* Two clients, two of three storage servers, every operation.
SPECIFICATION Spec
CONSTANTS
    c1 = c1
    c2 = c2
    Clients = {c1, c2}
    NServers = 3
    Up = {0, 1}
    Ops = {"create", "deletefile", "deletedir", "read", "write", "info", "ls", "copyfile", "copydir"}
    Events = {"refuse", "senderr"}
    MaxEntries = 2
    SemMax = 2
SYMMETRY ClientSymmetry
INVARIANTS
    TypeOK
    ExclusiveAccess
    IInv
\* A refused create keeps its server's lock, and every client may end up waiting
\* for it: the system really stops.
CHECK_DEADLOCK FALSE
