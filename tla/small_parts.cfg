SPECIFICATION PartsSpec
CONSTANTS
    BatchMax = 2
    MaxLines = 4
    MaxFiles = 3
    MaxTrouble = 2
    Watched = {a}
    Client = {c1}
    QueueSize = 2
    MaxLog = 3
    MaxShown = 1
    Pinned = {"fast"}
    MaxPulls = 2
    MaxHappenings = 1
INVARIANTS SavedNotAhead BoundedGap
PROPERTIES BacklogShips FeedSound BridgeSound
CHECK_DEADLOCK FALSE
