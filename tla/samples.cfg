SPECIFICATION Spec
CONSTANTS
    None = None
    Bad = Bad
    Payloads <- AllPayloads
    Clock <- OneClock
    Models = {"WAVE_MINI", "WAVE_PLUS"}
    poll_interval = 60
    MaxReadings = 4
INVARIANTS
    TypeOK
    HistoryIsWindow
    ScoreFollowsTime
    ScoreNeedsCoverage
    ShapesAgree
    SentIsDeclared
PROPERTIES
    RereadChangesNothing
