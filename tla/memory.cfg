SPECIFICATION Spec
CONSTANTS
    Ip = {i1, i2}
    Session = {s1, s2}
    Persona = {p1, p2}
    Fallback <- MCFallback
    p1 = p1
    None = None
    NoRow = NoRow
    Mode = {"off", "garble"}
    MaxCommands = 2
    MaxPins = 1
    MaxRestarts = 1
SYMMETRY Symmetry
INVARIANTS InstallsTold
CHECK_DEADLOCK FALSE
