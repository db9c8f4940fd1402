SPECIFICATION Spec
CONSTANTS
    InitialVersion <- FirstVersion
    Preids <- AlphaBeta
    CustomVersions <- OddVersions
    None = None
    MaxNumber = 1
    MaxIdentifiers = 3
    MaxRuns = 3
    MaxMerges = 1
INVARIANTS
    TypeOK
    PublishedFromItsTag
PROPERTIES
    VersionTagsImmutable
    LatestMovesForward
    ForwardUnlessRestarted
\* The runs are bounded by MaxRuns and the merges by MaxMerges.
CHECK_DEADLOCK FALSE
