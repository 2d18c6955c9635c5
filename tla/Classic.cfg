SPECIFICATION Spec
CONSTANTS
    N = 3
    Deck <- ClassicDeck
    type <- ClassicType
    color <- ClassicColor
    value <- ClassicValue
    Color = {"red", "blue"}
    null = null
    TargetScore = 40
    HandLimit = 3
    UnoPenaltyCount = 4
    InitialHandSize = 1
    RuleSets <- ClassicRules
    Deals <- OneCardEach
    MaxRounds = 1
CONSTRAINT
    ShortQueue
INVARIANTS
    TypeOK
    CardConservation
    EngineNeverThrows
    CallOutlivesNoDraw
PROPERTIES
    ResultIsFinal
    ChallengeJudgesHandAtPlay
CHECK_DEADLOCK FALSE
