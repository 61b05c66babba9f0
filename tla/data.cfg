\* A path that is written, and copied to its own and to another storage server.
SPECIFICATION FairSpec
CONSTANTS
    c1 = c1
    c2 = c2
    Clients = {c1, c2}
    Copiers = {c1}
    Paths = {"a", "b", "d"}
    Home <- At2
    Writable = {"a"}
    Copies <- CopyBoth
    Quit = TRUE
    MaxCmds = 3
INVARIANTS
    ReadLatest
    
    CopyUntorn
PROPERTY
    CommandEnds
\* Clients issue a bounded number of commands.
CHECK_DEADLOCK FALSE
