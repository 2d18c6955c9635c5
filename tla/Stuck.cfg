SPECIFICATION Spec
CONSTANTS
    N = 3
    Deck <- StackDeck
    type <- StackType
    color <- StackColor
    value <- StackValue
    Color = {"red", "blue"}
    null = null
    TargetScore = 40
    HandLimit = 3
    UnoPenaltyCount = 4
    InitialHandSize = 1
    RuleSets <- StuckRules
    Deals <- OneCardEach
    MaxRounds = 1
INVARIANT
    AutomationActs
CHECK_DEADLOCK FALSE
