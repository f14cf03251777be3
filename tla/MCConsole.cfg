SPECIFICATION FairSpec
CONSTANTS
    Clients = {c1, c2}
    Files <- MCFiles
    GoFile = "go"
    Outside <- MCNothing
    None = None
    Recheck = 1
    MaxEdits = 1
    MaxGlitches = 1
INVARIANTS
    StaleIsNoticed
    ServedIsFresh
PROPERTIES
    BecomesCurrent
    EveryRequestIsServed
