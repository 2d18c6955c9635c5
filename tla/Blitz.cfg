CONSTANTS
    Human = {h1, h2}
    Bot = {b}
    None = none
    MinPlayers = 2
    MaxPlayers = 3
    Tables = {{h1, b}, {h1, h2, b}}
    Blitz = TRUE
    Faults = {"snapshot", "queue", "status", "governance", "commit"}
    MaxRounds = 2
    MaxFails = 1
    MaxDrops = 2
    MaxCrashes = 1
SPECIFICATION Spec
INVARIANT GameOverIsAnnounced
CHECK_DEADLOCK FALSE
