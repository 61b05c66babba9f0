\* Two storage servers, one or both of which come back, and clients that take the
\* descriptors they leave.
SPECIFICATION FairSpec
CONSTANTS
    Servers = {0, 1}
    MaxRuns = 3
    NOthers = 1
    NFds = 6
    Events = {"reuse"}
INVARIANTS
    RegisteredConnected
PROPERTIES
    ClosesOnlyDead
    ExitNoticed
    StartedServes
\* Storage servers and clients come and go a bounded number of times.
CHECK_DEADLOCK FALSE
