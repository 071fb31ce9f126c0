SPECIFICATION Spec
CONSTANTS
    DIGIT = 16
    LANES = 2
    PAGE_SIZ = 2048
    Netlists <- MCNetlists
INVARIANTS TypeOK SourcesFirst Feasible Earliest LoopFound MatchesImage
PROPERTY Ends
CHECK_DEADLOCK FALSE
