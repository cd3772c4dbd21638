SPECIFICATION Spec
CONSTANTS
    Session = {s1, s2}
    Command = {c1, c2, c3}
    Interrupts = TRUE
    WastedCap = 2
    MaxWaste = 2
    None = None
INVARIANTS LockStep CapStops DrainedWhenQuiet AnalysedOnce OneClarificationPerChain
SYMMETRY Symmetry
CHECK_DEADLOCK FALSE
