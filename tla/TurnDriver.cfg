SPECIFICATION FairSpec
CONSTANTS
    Human <- MCHuman
    Bot <- MCBot
    None = "none"
    Leaver <- MCHuman
    Delegator <- MCHuman
    JumpInRules = {FALSE, TRUE}
    AutoAutopilotThreshold = 1
    MaxActs = 2
INVARIANTS
    OneDriver
    SettledRound
PROPERTIES
    GoesOn
    EndIsAnnounced
CHECK_DEADLOCK FALSE
