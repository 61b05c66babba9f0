\* One storage server, and nothing goes wrong.
SPECIFICATION FairSpec
CONSTANTS
    c1 = c1
    c2 = c2
    Clients = {c1, c2}
    NServers = 3
    Up = {0}
    Ops = {"create", "deletefile", "deletedir", "read", "copydir"}
    Events = {}
    MaxEntries = 1
    SemMax = 2
INVARIANTS
    NoLockLeak
    LockConserved
    CreateAnswerTrue
PROPERTIES
    CommandAnswered
    OwnAnswers
