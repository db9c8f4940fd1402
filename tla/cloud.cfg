SPECIFICATION FairSpec
CONSTANTS
    Calls = {c1, c2}
    Keys = {k1}
    Tokens = {t1, t2, t3}
    RetryAttempts = 2
    None = None
INVARIANTS
    TypeOK
    RejectedIsNotCached
PROPERTIES
    CallsEnd
    Recovers
