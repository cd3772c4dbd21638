SPECIFICATION PartsSpec
CONSTANTS
    Session = {s1, s2}
    Unit = 3
    Rate = 2
    Burst = 2
    IdleEviction = 3
    MaxTime = 6
    Strategy = {light, off}
    Static = off
    CacheTTL = 2
    MaxClock = 5
    MaxChanges = 3
    Cred = {c1, c2}
    RowCap = 3
    MaxKey = 3
    Absent = absent
    Dir = {root, etc}
    Nowhere = nowhere
    Table = {passwd}
    Denied = {shadow}
    Clocked = {uptime}
    Listed = {passwd, shadow}
    Extra = {creds}
    Overlays = {{}, {passwd, shadow, creds}}
    Baits = {passwd}
    HistoryWindow = 1
    MaxCommands = 2
    Sid = {x}
    PageSize = 1
    Window = 1
    TailLines = 2
    MaxLate = 1
    MaxNow = 2
    MaxWritten = 3
    Operator = {o1, o2}
    Host = {h}
    Persona = {p}
    PinMode = {both}
    Setting = {v1, v2}
    EnvSetting = v1
    Free = free
    TokenUnit = 2
    LoginBurst = 2
    MaxBuckets = 1
    MaxTicks = 5
    MaxAttempts = 4
    MaxChangesMade = 2
    Typed = {"a", "b", "e", "z"}
    Spoken = {"a", "b", "z"}
    MaxTyped = 3
    MaxSpoken = 2
    MaxInput = 2
    MaxResponse = 2
    ScanCap = 2
    DfWindow = 1
    MaxTurns = 1
    Conn = {k1}
    MaxLives = 3
    Opener = {p1, p2}
    Importer = p1
    Newest = 2
    Altering = {2}
    Logged = {la, lb}
    BatchSize = 2
    MaxEvents = 3
    MaxDeaths = 1
    Size = {3}
    Spoiled = {"ollama"}
    Service = {"bridge", "lure"}
    MaxRuns = 2
    MaxMoves = 1
    Asked <- MCAsked
    MaxVisits = 3
    Address = {"a", "b"}
    Came <- MCCame
    PinOf <- MCPinOf
    MaxAssessed = 2
    MaxReread = 1
    Run = {g1, g2}
    MaxBuild = 2
INVARIANTS
    NoWindowOverBudget RefusedOnlyOverBudget AnswersWithinTTL RotationKeeps ShellSound ReadersAgree
    ConsoleSound DefenseSound LifeSound UpgradeSound DecoysSound GeoSound WizardSound
CHECK_DEADLOCK FALSE
