SPECIFICATION FairSpec
CONSTANTS
    N = 2
    Deck <- LimitDeck
    type <- LimitType
    color <- LimitColor
    value <- LimitValue
    Color = {"red", "blue"}
    null = null
    TargetScore = 40
    HandLimit = 2
    UnoPenaltyCount = 4
    InitialHandSize = 1
    RuleSets <- LimitAndDebtRules
    Deals <- OneCardEach
    MaxRounds = 1
INVARIANT
    AutomationActs
PROPERTY
    DebtIsEventuallyPaid
CHECK_DEADLOCK FALSE
