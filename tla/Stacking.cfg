SPECIFICATION Spec
CONSTANTS
    N = 3
    Deck <- StackDeck
    type <- StackType
    color <- StackColor
    value <- StackValue
    Color = {"red", "blue"}
    null = null
    TargetScore = 40
    HandLimit = 3
    UnoPenaltyCount = 4
    InitialHandSize = 1
    RuleSets <- StackRules
    Deals <- OneCardEach
    MaxRounds = 1
INVARIANT
    EmptyHandEndsRound
PROPERTIES
    DebtIsPaidCardByCard
    PenaltyIsExclusive
    VictimIsSkipped
CHECK_DEADLOCK FALSE
