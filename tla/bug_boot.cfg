SPECIFICATION FbSpec
CONSTANTS
    Size = {}
    Spoiled = {}
    Service = {"bridge", "lure"}
    MaxRuns = 1
    MaxMoves = 1
    Asked <- MCAsked
INVARIANT NeverUpWithoutRuleset
CHECK_DEADLOCK FALSE
