SPECIFICATION FairSpec
CONSTANTS
    Buffer = 1
    None = None
    MaxMessages = 2
    MaxSends = 2
INVARIANTS
    EndIsLast
    UncutStreamIsWhole
PROPERTY StartedEnds
\* a call ends
CHECK_DEADLOCK FALSE
