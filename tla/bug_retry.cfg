SPECIFICATION Spec
CONSTANTS
    Session = {s1, s2}
    MaxLines = 3
    MaxRotations = 0
    OpenLine = "first"
    IntentExtraction = FALSE
    MaxRestarts = 0
    MaxFaults = 1
    MaxTurns = 5
    CacheMayFail = FALSE
SYMMETRY Symmetry
INVARIANT TurnsExactlyOnce
CHECK_DEADLOCK FALSE
