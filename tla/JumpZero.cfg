SPECIFICATION Spec
CONSTANTS
    N = 3
    Deck <- JumpZeroDeck
    type <- JumpZeroType
    color <- JumpZeroColor
    value <- JumpZeroValue
    Color = {"red", "blue"}
    null = null
    TargetScore = 40
    HandLimit = 3
    UnoPenaltyCount = 4
    InitialHandSize = 1
    RuleSets <- JumpZeroRules
    Deals <- OneCardEach
    MaxRounds = 1
INVARIANT
    EmptyHandEndsRound
CHECK_DEADLOCK FALSE
