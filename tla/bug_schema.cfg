SPECIFICATION UpSpec
CONSTANTS
    Opener = {p1, p2}
    Importer = p1
    Newest = 2
    Altering = {2}
    Logged = {la}
    BatchSize = 1
    MaxEvents = 1
    MaxDeaths = 1
INVARIANT RollsBack
CHECK_DEADLOCK FALSE
