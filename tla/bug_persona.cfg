SPECIFICATION Spec
CONSTANTS
    Ip = {i1}
    Session = {s1, s2}
    Persona = {p1, p2}
    Fallback <- MCFallback
    p1 = p1
    None = None
    NoRow = NoRow
    Mode = {}
    MaxCommands = 0
    MaxPins = 2
    MaxRestarts = 0
INVARIANT StickyPersona
CHECK_DEADLOCK FALSE
