SPECIFICATION Spec
CONSTANTS
    N = 3
    Deck <- PartyDeck
    type <- PartyType
    color <- PartyColor
    value <- PartyValue
    Color = {"red", "blue"}
    null = null
    TargetScore = 40
    HandLimit = 3
    UnoPenaltyCount = 4
    InitialHandSize = 1
    RuleSets <- EvadedRules
    Deals <- OneCardEach
    MaxRounds = 1
PROPERTY
    PenaltyIsExclusive
CHECK_DEADLOCK FALSE
