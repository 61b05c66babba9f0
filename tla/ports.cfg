\* Three sessions for two slots: slots are reused, and found all taken.
SPECIFICATION FairSpec
CONSTANTS
    NSlots = 2
    NSessions = 3
    Events = {"early", "short"}
INVARIANTS
    OwnSocket
    NeverCutOff
    SlotForOne
PROPERTIES
    JoinedIsServed
    SlotFreed
\* The accepting loop stops when it finds every slot taken, or every session is over.
CHECK_DEADLOCK FALSE
