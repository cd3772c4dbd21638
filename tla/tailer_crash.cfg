SPECIFICATION FairSpec
CONSTANTS
    Session = {s1, s2}
    MaxLines = 4
    MaxRotations = 0
    OpenLine = "first"
    IntentExtraction = TRUE
    MaxRestarts = 2
    MaxFaults = 0
    MaxTurns = 5
    CacheMayFail = TRUE
INVARIANTS TurnsExactlyOnce OffsetNotAhead RowsAgree
PROPERTIES EveryLineDispatched LedgerSpec
CHECK_DEADLOCK FALSE
