SPECIFICATION FairSpec
CONSTANTS
    Session = {s1}
    MaxLines = 5
    MaxRotations = 1
    OpenLine = "late"
    IntentExtraction = TRUE
    MaxRestarts = 1
    MaxFaults = 1
    MaxTurns = 5
    CacheMayFail = FALSE
INVARIANTS TurnsUnderStorm
PROPERTIES CatchesUp
CHECK_DEADLOCK FALSE
