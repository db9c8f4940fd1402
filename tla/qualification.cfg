SPECIFICATION FairSpec
CONSTANTS
    MaxProbes = 2
INVARIANTS
    TypeOK
    PassedMeansGood
    RejectedForAReason
    NothingLeftBehind
PROPERTIES
    Ends
\* The script ends.
CHECK_DEADLOCK FALSE
