CONSTANTS
    Human = {h1, h2}
    Bot = {b1, b2}
    None = none
    MinPlayers = 2
    MaxPlayers = 3
    Tables = {{h1, b1}, {h1, h2, b1}, {h1, b1, b2}}
    Blitz = TRUE
    Faults = {"snapshot", "queue", "status", "governance", "commit"}
    MaxRounds = 2
    MaxFails = 1
    MaxDrops = 2
    MaxCrashes = 1
SPECIFICATION FairSpec
INVARIANTS SeatsMatchGame VotesAreEarned
PROPERTIES DealKeepsPromises NextRoundComes
CHECK_DEADLOCK FALSE
