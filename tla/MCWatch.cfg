SPECIFICATION FairSpec
CONSTANTS
    Artifacts = {openapi, grpc}
    Out = openapi
    MaxEdits = 2
    MaxFailures = 2
    MaxRounds = 3
INVARIANTS
    RoundsAnswerChanges
PROPERTIES
    LaterEditsAreGenerated
    FilesGoForward
\* the command sleeps when nothing is edited
CHECK_DEADLOCK FALSE
