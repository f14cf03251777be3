SPECIFICATION Spec
SYMMETRY MCSymmetry
CONSTANTS
    Requests = {r1, r2, r3}
    Traffic <- MCTraffic
    MaxFindings = 2
    MaxLearned = 1
    Paths <- MCPaths
    Statuses <- MCStatuses
    Documented <- MCDocumented
    PromisesJSON <- MCPromisesJSON
    Normalised <- MCNormalised
    Bodies <- MCBodies
    ProblemBody = "problem"
    Details <- MCDetails
    NoRoute = NoRoute
    Garbled = Garbled
    NoBody = NoBody
INVARIANTS
    CountsAreExact
    KeptIsPrintedOnce
    EvidenceIsRecorded
    LearnedIsExact
PROPERTIES
    FirstsStay
    ImplementsDriftLog
\* every request has been handled
CHECK_DEADLOCK FALSE
