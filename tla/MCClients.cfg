CONSTANTS
    Params <- MCParams
    SegmentOrder <- MCSegments
    MethodOrder <- MCMethods
    SampleBody <- EncodedSample
    Fractions = {"1.5"}
    WholeTexts <- MCWhole
    FloatTexts <- MCNone
    BoolTexts <- MCNone
    NoNumber = {}
    NoBody = NoBody
    EmptyBody = NoBody
    Garbled = Garbled
    Pieces <- MCPieces
    Escaped <- MCEscaped
    Docs <- MCDocs
    Edits <- MCEdits
    Gateway <- MCGateway
    Arguments = {"1", "mine", "a?b", "a/owner", ""}
    MaxWrites = 3
SPECIFICATION Spec
INVARIANTS
    UntouchedMembersStay
    WritesAreTaken
    CallsTellTheTruth
    CallsReachTheirOperation
    GeneratedTestsPass
