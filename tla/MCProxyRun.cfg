SPECIFICATION RunFairSpec
CONSTANTS
    Requests = {r1, r2}
    Traffic <- MCTraffic
    MaxFindings = 3
    MaxLearned = 1
    Paths <- MCPaths
    Statuses <- MCStatuses
    Documented <- MCDocumented
    PromisesJSON <- MCPromisesJSON
    Normalised <- MCNormalised
    Bodies <- MCBodies
    ProblemBody = "problem"
    Details <- MCDetails
    NoRoute = NoRoute
    Garbled = Garbled
    NoBody = NoBody
    Strict = TRUE
INVARIANTS
    DrainedRunIsComplete
    SummaryIsCovered
PROPERTY SignalEndsTheRun
\* a run exits
CHECK_DEADLOCK FALSE
