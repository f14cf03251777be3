SPECIFICATION RunFairSpec
CONSTANTS
    Fractions = {"1.5"}
    PipeSize = 2
    MaxBlocks = 4
    Differences <- Compare
    Serves <- ServesClientsOf
    Trees <- MCTrees
    Revisions <- MCRevisions
    Bodies <- MCBodies
    Arguments <- MCArguments
INVARIANTS
    ScannedIsComplete
    PassedChangeIsSafe
PROPERTY RunEnds
\* a comparison ends
CHECK_DEADLOCK FALSE
