SPECIFICATION RunSpec
CONSTANTS
    Fractions = {"1.5"}
    PipeSize = 2
    MaxBlocks = 5
    Differences <- Compare
    Serves <- ServesClientsOf
    Trees <- MCNestedTrees
    Revisions <- MCNestedRevisions
    Bodies <- MCBodies
    Arguments <- MCArguments
INVARIANT PassedChangeIsSafe
CHECK_DEADLOCK FALSE
