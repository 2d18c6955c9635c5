\* One room, four states of its games, two ends of the process.
CONSTANTS
    MaxState = 4
    MaxStops = 2
SPECIFICATION FairSpec
INVARIANTS AckedIsStored DeletedStaysDeleted
PROPERTIES ExitSavesAll EventuallySaved SavesTheGame
CHECK_DEADLOCK FALSE
