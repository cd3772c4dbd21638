SPECIFICATION FairSpec
CONSTANTS
    Call = {c1, c2, c3, c4}
    Session = {s1, s2}
    StreamSession = {s2}
    Slots = 3
    Cap = 3
    Projected = 2
    MaxUsage = 3
INVARIANTS SlotsConserved BudgetBalances ChatNearCap StreamsWithinCap
PROPERTY EveryCallEnds
CHECK_DEADLOCK FALSE
