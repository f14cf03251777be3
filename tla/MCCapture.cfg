SPECIFICATION Spec
CONSTANTS
    FinalStatuses <- MCFinalStatuses
    Informational <- MCInformational
    Chunks <- MCChunks
    MaxBody = 3
    MaxInformational = 2
    MaxWritten = 6
INVARIANTS
    KeptIsTheBeginning
    PlainAnswersAreExact
\* an exchange ends
CHECK_DEADLOCK FALSE
