SPECIFICATION Spec
CONSTANTS
    N = 4
    Deck <- RoundDeck
    type <- RoundType
    color <- RoundColor
    value <- RoundValue
    Color = {"red", "blue"}
    null = null
    TargetScore = 4
    HandLimit = 3
    UnoPenaltyCount = 4
    InitialHandSize = 1
    RuleSets <- RoundRules
    Deals <- RoundDeals
    MaxRounds = 2
CONSTRAINT
    NoUnoCalls
INVARIANTS
    EliminatedStayOut
PROPERTIES
    WinnerScoreIsDoubled
CHECK_DEADLOCK FALSE
