SPECIFICATION PartsSpec
CONSTANTS
    Conn = {1, 2, 3, 4}
    Channel = {h1, h2}
    Ip = {1, 2, 3}
    EarlyLoss = TRUE
    BridgeFaults = TRUE
    MaxTotal = 3
    MaxConcurrent = 2
    MaxRpm = 2
    Window = 1
    SweepAbove = 1
    SweepTo = 1
    MaxTime = 3
    None = None
    Placeholder = Placeholder
INVARIANTS AdmissionSound LinesPaired
PROPERTY ReleasedIfSteady
CHECK_DEADLOCK FALSE
