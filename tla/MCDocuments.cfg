CONSTANTS
    Params <- MCParams
    SegmentOrder <- MCSegments
    MethodOrder <- MCMethods
    SampleBody <- EncodedSample
    Problems <- Check
    Unmentioned <- Undocumented
    Inferred <- InferSchema
    Uniform <- Homogeneous
    Fractions = {"1.5"}
    WholeTexts <- MCWhole
    FloatTexts <- MCFloats
    BoolTexts <- MCBools
    NoNumber = {"NaN"}
    NoBody = NoBody
    Garbled = Garbled
    IdLike <- MCIdLike
    Sources <- MCSources
    Manual <- MCManual
    Requests <- MCRequests
    Replies <- MCReplies
    Options <- MCOptions
    Origins = {"a", "b", "c"}
    MaxLearned = 2
    MaxExchanges = 2
SPECIFICATION Spec
INVARIANTS
    MatchIsMostSpecific
    MockAnswersPass
    LearnedIsDocumented
    SourceIsKept
    GrantsAreSafeToCache
CHECK_DEADLOCK FALSE
