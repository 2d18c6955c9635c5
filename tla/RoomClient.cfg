SPECIFICATION GuessSpec
CONSTANTS
    Room = {a, b}
    None = None
    Home = a
    Slots = 5
    MaxCalls = 2
    MaxTroubles = 2
    Gap = {}
INVARIANTS
    ActiveIsPresent
PROPERTIES
    LeaveSticks
    TruthComesOut
CHECK_DEADLOCK FALSE
