----------------------------- MODULE GameEngine -----------------------------
(***************************************************************************)
(* packages/shared/src/rules/game-engine.ts: the reducer applyAction.      *)
(*                                                                         *)
(* A handler of the code takes a game state and an action and returns the  *)
(* next state, or the same object when it refuses the action.  Here it is  *)
(* a pair of operators on the state record s: XAllowed, its early returns, *)
(* and X, the state it returns.  UnoGame makes actions of them.            *)
(*                                                                         *)
(* Hands and the two side decks are sets: the order of a face-down deck is *)
(* unknown until a card is drawn, so a draw takes any of its cards (the    *)
(* parameter `card' of the operators that draw).  The discard pile is a    *)
(* sequence, oldest card first, as in the code.                            *)
(***************************************************************************)
EXTENDS Cards, Turn, Sequences

CONSTANTS
    TargetScore,        \* settings.targetScore
    HandLimit,          \* houseRules.handLimit, when that rule is on
    UnoPenaltyCount     \* houseRules.unoPenaltyCount, when it is not 2

ASSUME SettingsAssumption ==
    /\ TargetScore \in Nat
    /\ HandLimit \in Nat
    /\ UnoPenaltyCount \in {4, 6}
    /\ null \notin Seat

(* The keys of HouseRules that change what the engine does.  handLimit and  *)
(* unoPenaltyCount are on when they differ from their defaults.             *)
HouseRule ==
    {"stackDrawTwo", "stackDrawFour", "crossStack", "reverseDeflectDrawTwo",
     "reverseDeflectDrawFour", "skipDeflect", "zeroRotateHands",
     "sevenSwapHands", "jumpIn", "multiplePlaySameNumber", "wildFirstTurn",
     "drawUntilPlayable", "forcedPlayAfterDraw", "handLimit", "forcedPlay",
     "unoPenaltyCount", "strictUnoCall", "misplayPenalty", "elimination",
     "revengeMode", "silentUno", "teamMode", "noFunctionCardFinish",
     "noWildFinish", "doubleScore", "noChallengeWildFour", "blindDraw",
     "bombCard", "shuffleSeats"}

TerminalPhase == {"round_end", "game_over"}

Phase == {"playing", "choosing_color", "challenging", "choosing_swap_target"}
           \cup TerminalPhase

DrawSide == {"left", "right"}

PendingPenaltyDraw ==
    [playerId : Seat, count : Nat, nextPlayerIndex : Seat,
     sourcePlayerId : Seat \cup {null}]

ActionType ==
    {"PLAY_CARD", "DRAW_CARD", "PASS", "CALL_UNO", "CATCH_UNO", "CHALLENGE",
     "ACCEPT", "CHOOSE_COLOR", "CHOOSE_SWAP_TARGET"}

LastAction == [type : ActionType \cup {null}, playerId : Seat \cup {null}]

(* The fields of GameState and of the players and settings in it.          *)
StateField ==
    {"phase", "houseRules", "hand", "calledUno", "unoCaught", "eliminated",
     "score", "roundWins", "teamId", "currentPlayerIndex", "direction",
     "deck", "deckInitialCount", "discardPile", "chosenColor",
     "currentColor", "drawStack", "pendingDrawPlayerId",
     "pendingPenaltyDraws", "pendingPenaltyNextPlayerIndex",
     "pendingPenaltySourcePlayerId", "pendingPenaltyQueue",
     "pendingRevengeDraws", "lastAction", "roundNumber", "winnerId"}

IsGameState(s) ==
    /\ DOMAIN s = StateField
    /\ s.phase \in Phase
    /\ s.houseRules \in SUBSET HouseRule
    /\ s.hand \in [Seat -> SUBSET Deck]
    /\ s.calledUno \in [Seat -> BOOLEAN]
    /\ s.unoCaught \in [Seat -> BOOLEAN]
    /\ s.eliminated \in [Seat -> BOOLEAN]
    /\ s.score \in [Seat -> Nat]
    /\ s.roundWins \in [Seat -> Nat]
    /\ s.teamId \in [Seat -> {0, 1, null}]
    /\ s.currentPlayerIndex \in Seat
    /\ s.direction \in Direction
    /\ s.deck \in [DrawSide -> SUBSET Deck]
    /\ s.deckInitialCount \in [DrawSide -> Nat]
    /\ s.discardPile \in Seq(Deck)
    /\ s.chosenColor \in [Wild -> Color \cup {null}]
    /\ s.currentColor \in Color \cup {null}
    /\ s.drawStack \in Nat
    /\ s.pendingDrawPlayerId \in Seat \cup {null}
    /\ s.pendingPenaltyDraws \in Nat
    /\ s.pendingPenaltyNextPlayerIndex \in Seat \cup {null}
    /\ s.pendingPenaltySourcePlayerId \in Seat \cup {null}
    /\ s.pendingPenaltyQueue \in Seq(PendingPenaltyDraw)
    /\ s.pendingRevengeDraws \in Nat
    /\ s.lastAction \in LastAction
    /\ s.roundNumber \in Nat
    /\ s.winnerId \in Seat \cup {null}

Acted(actionType, p) == [type |-> actionType, playerId |-> p]

(***************************************************************************)
(* Helpers                                                                 *)
(***************************************************************************)
On(s, rule) == rule \in s.houseRules

terminal(s) == s.phase \in TerminalPhase

topCard(s) == s.discardPile[Len(s.discardPile)]

DiscardedCards(s) == {s.discardPile[i] : i \in 1..Len(s.discardPile)}

withPenaltyStateDefaults(s) ==
    [s EXCEPT !.pendingPenaltyDraws = 0,
              !.pendingPenaltyNextPlayerIndex = null,
              !.pendingPenaltySourcePlayerId = null,
              !.pendingPenaltyQueue = <<>>,
              !.pendingRevengeDraws = 0,
              !.pendingDrawPlayerId = null,
              !.drawStack = 0]

hasCardsAvailable(s) ==
    \/ \E side \in DrawSide : s.deck[side] # {}
    \/ Len(s.discardPile) > 1

hasPlayableCard(s, p) ==
    /\ s.currentColor # null
    /\ \E c \in s.hand[p] : canPlayCard(c, topCard(s), s.currentColor)

atHandLimit(s, p) ==
    On(s, "handLimit") /\ Cardinality(s.hand[p]) >= HandLimit

isStuckAtHandLimit(s) ==
    /\ atHandLimit(s, s.currentPlayerIndex)
    /\ ~hasPlayableCard(s, s.currentPlayerIndex)

isFinishRestrictedLastCard(s, p, c) ==
    /\ s.hand[p] = {c}
    /\ \/ On(s, "noWildFinish") /\ isWildCard(c)
       \/ On(s, "noFunctionCardFinish") /\ isFunctionCard(c)

hasUnrestrictedPlayableCard(s, p) ==
    /\ s.currentColor # null
    /\ \E c \in s.hand[p] : /\ canPlayCard(c, topCard(s), s.currentColor)
                            /\ ~isFinishRestrictedLastCard(s, p, c)

completedDraw(s, p) == s.lastAction = Acted("DRAW_CARD", p)

isPassStalemate(s) ==
    LET active == AliveSeats(s.eliminated)
    IN  /\ s.phase = "playing"
        /\ s.pendingPenaltyDraws = 0 /\ s.drawStack = 0
        /\ ~completedDraw(s, s.currentPlayerIndex)
        /\ s.currentColor # null
        /\ Cardinality(active) >= 2
        /\ \A p \in active : ~hasUnrestrictedPlayableCard(s, p)
        /\ hasCardsAvailable(s) => \A p \in active : atHandLimit(s, p)

(* Faulty: the cards put back into the deck stay in the discard pile too.   *)
withSideRefilledCopying(s, side) ==
    IF s.deck[side] # {} \/ Len(s.discardPile) <= 1
    THEN s
    ELSE [s EXCEPT !.deck[side] = {s.discardPile[1]}]

(* reshuffleSideFromDiscard, when the chosen side has run out: the oldest   *)
(* discards, as many as the side held at first, become that side's deck and *)
(* forget the colour chosen for them.  The top discard stays.               *)
withSideRefilled(s, side) ==
    LET available == Len(s.discardPile) - 1
        takeCount == IF s.deckInitialCount[side] < available
                     THEN s.deckInitialCount[side] ELSE available
        taken == {s.discardPile[i] : i \in 1..takeCount}
    IN  IF s.deck[side] # {} \/ Len(s.discardPile) <= 1
        THEN s
        ELSE [s EXCEPT
                !.deck[side] = taken,
                !.discardPile = SubSeq(s.discardPile, takeCount + 1,
                                       Len(s.discardPile)),
                !.chosenColor = [w \in Wild |-> IF w \in taken
                                                THEN null
                                                ELSE s.chosenColor[w]]]

CanYield(s, side) == withSideRefilled(s, side).deck[side]

(* Faulty: an UNO call outlives the draw.                                   *)
drawCardsKeepingCall(s, p, side, card) ==
    LET refilled == withSideRefilled(s, side)
    IN  IF refilled.deck[side] = {}
        THEN refilled
        ELSE [refilled EXCEPT !.deck[side] = @ \ {card},
                              !.hand[p] = @ \cup {card}]

(* drawCards with count = 1, the only count the engine draws at once.       *)
drawCards(s, p, side, card) ==
    LET refilled == withSideRefilled(s, side)
    IN  IF refilled.deck[side] = {}
        THEN refilled
        ELSE [refilled EXCEPT
                !.deck[side] = @ \ {card},
                !.hand[p] = @ \cup {card},
                !.calledUno[p] = FALSE,
                !.unoCaught[p] = FALSE]

(* calculateRoundScores: what the other hands are worth to the winner.      *)
RoundScore(s, p) ==
    HandScore(UNION {s.hand[q] : q \in Seat \ {p}})

checkRoundEnd(s, p) ==
    LET total == s.score[p] + RoundScore(s, p)
    IN  IF s.hand[p] # {}
        THEN s
        ELSE withPenaltyStateDefaults(
                [s EXCEPT
                   !.score[p] = total,
                   !.roundWins[p] = @ + 1,
                   !.phase = IF total >= TargetScore
                             THEN "game_over" ELSE "round_end",
                   !.winnerId = p])

canRespondToDrawStack(s, c) ==
    LET top == type[topCard(s)]
    IN  \/ On(s, "stackDrawTwo") /\ type[c] = "draw_two" /\ top = "draw_two"
        \/ /\ On(s, "stackDrawFour")
           /\ type[c] = "wild_draw_four" /\ top = "wild_draw_four"
        \/ /\ On(s, "crossStack")
           /\ \/ type[c] = "draw_two" /\ top = "wild_draw_four"
              \/ type[c] = "wild_draw_four" /\ top = "draw_two"
        \/ /\ On(s, "reverseDeflectDrawTwo")
           /\ type[c] = "reverse" /\ top = "draw_two"
        \/ /\ On(s, "reverseDeflectDrawFour")
           /\ type[c] = "reverse" /\ top = "wild_draw_four"
        \/ On(s, "skipDeflect") /\ type[c] = "skip"

(***************************************************************************)
(* Penalties: one is active, the others wait in pendingPenaltyQueue        *)
(***************************************************************************)
(* Faulty: a penalty starts in the middle of a challenge.                   *)
startPenaltyDrawInAnyPhase(s, p, count, next, source) ==
    IF s.pendingPenaltyDraws > 0
    THEN s
    ELSE [s EXCEPT !.currentPlayerIndex = p,
                   !.pendingPenaltyDraws = count,
                   !.pendingPenaltyNextPlayerIndex = next,
                   !.pendingPenaltySourcePlayerId = source]

startPenaltyDraw(s, p, count, next, source) ==
    IF count = 0
    THEN s
    ELSE IF s.pendingPenaltyDraws > 0 \/ s.phase # "playing"
    THEN [s EXCEPT !.pendingPenaltyQueue =
            Append(@, [playerId |-> p, count |-> count,
                       nextPlayerIndex |-> next, sourcePlayerId |-> source])]
    ELSE [s EXCEPT !.currentPlayerIndex = p,
                   !.pendingPenaltyDraws = count,
                   !.pendingPenaltyNextPlayerIndex = next,
                   !.pendingPenaltySourcePlayerId = source]

(* Faulty: the penalty started stays in the queue.                          *)
startQueuedPenaltyAgain(s) ==
    LET first == Head(s.pendingPenaltyQueue)
    IN  startPenaltyDraw(s, first.playerId, first.count,
                         first.nextPlayerIndex, first.sourcePlayerId)

startQueuedPenalty(s) ==
    LET first == Head(s.pendingPenaltyQueue)
    IN  startPenaltyDraw([s EXCEPT !.pendingPenaltyQueue = Tail(@)],
                         first.playerId, first.count, first.nextPlayerIndex,
                         first.sourcePlayerId)

drainPenaltyQueue(s) ==
    IF \/ s.pendingPenaltyQueue = <<>>
       \/ s.phase # "playing"
       \/ s.pendingPenaltyDraws > 0
    THEN s
    ELSE startQueuedPenalty(s)

finishPenaltyDrawIfNeeded(s, lastAction) ==
    LET paid == [s EXCEPT !.pendingPenaltyDraws = 0,
                          !.pendingPenaltyNextPlayerIndex = null,
                          !.pendingPenaltySourcePlayerId = null,
                          !.lastAction = lastAction]
        finished == [paid EXCEPT
                       !.currentPlayerIndex = s.pendingPenaltyNextPlayerIndex]
    IN  IF hasCardsAvailable(s) /\ s.pendingPenaltyDraws > 1
        THEN [s EXCEPT !.pendingPenaltyDraws = @ - 1,
                       !.lastAction = lastAction]
        ELSE IF s.pendingPenaltyQueue # <<>>
        THEN startQueuedPenalty(paid)
        ELSE IF s.pendingPenaltySourcePlayerId # null
        THEN checkRoundEnd(finished, s.pendingPenaltySourcePlayerId)
        ELSE finished

(***************************************************************************)
(* handlePlayCard                                                          *)
(***************************************************************************)
(* Faulty: a card is taken after the round has ended.                       *)
playCardAllowedInAnyPhase(s, p, c) ==
    /\ s.pendingPenaltyDraws = 0
    /\ p = s.currentPlayerIndex
    /\ c \in s.hand[p]
    /\ canPlayCard(c, topCard(s), s.currentColor)

playCardAllowed(s, p, c) ==
    /\ s.phase = "playing"
    /\ s.pendingPenaltyDraws = 0
    /\ p = s.currentPlayerIndex
    /\ c \in s.hand[p]
    /\ canPlayCard(c, topCard(s), s.currentColor)

(* A card leaves a hand for the top of the discard pile.                    *)
withCardDiscarded(s, p, c) ==
    [s EXCEPT !.hand[p] = @ \ {c},
              !.discardPile = Append(@, c),
              !.lastAction = Acted("PLAY_CARD", p)]

(* An UNO call outlives the play only when it leaves exactly one card.      *)
withUnoFlagsAfterPlay(s, p) ==
    [s EXCEPT !.calledUno[p] = @ /\ Cardinality(s.hand[p]) = 1,
              !.unoCaught[p] = FALSE]

withCardEffect(s, p, c) ==
    LET next == getNextAliveIndex(s.eliminated, p, s.direction)
        afterNext == skipNextAliveIndex(s.eliminated, p, s.direction)
        reversed == reverseDirection(s.direction)
    IN  CASE type[c] = "number" ->
               [s EXCEPT !.currentColor = color[c],
                         !.currentPlayerIndex = next]
          [] type[c] = "skip" ->
               [s EXCEPT !.currentColor = color[c],
                         !.currentPlayerIndex = afterNext]
          [] type[c] = "reverse" ->
               [s EXCEPT !.currentColor = color[c],
                         !.direction = reversed,
                         !.currentPlayerIndex =
                            IF countAlivePlayers(s.eliminated) = 2
                            THEN p
                            ELSE getNextAliveIndex(s.eliminated, p, reversed)]
          [] type[c] = "draw_two" ->
               startPenaltyDraw([s EXCEPT !.currentColor = color[c]],
                                next, 2, afterNext, p)
          [] type[c] = "wild" ->
               [s EXCEPT !.phase = "choosing_color"]
          [] type[c] = "wild_draw_four" ->
               [s EXCEPT !.phase = "choosing_color",
                         !.pendingDrawPlayerId = next]

handlePlayCard(s, p, c) ==
    checkRoundEnd(
        withCardEffect(withUnoFlagsAfterPlay(withCardDiscarded(s, p, c), p),
                       p, c),
        p)

(***************************************************************************)
(* handleDrawCard and handlePass                                           *)
(***************************************************************************)
drawCardAllowed(s, p) ==
    /\ s.phase = "playing"
    /\ p = s.currentPlayerIndex
    /\ hasCardsAvailable(s) \/ s.pendingPenaltyDraws > 0

handleDrawCard(s, p, side, card) ==
    LET drawn == drawCards(s, p, side, card)
    IN  IF s.pendingPenaltyDraws > 0
        THEN finishPenaltyDrawIfNeeded(drawn, Acted("DRAW_CARD", p))
        ELSE [drawn EXCEPT !.lastAction = Acted("DRAW_CARD", p)]

passAllowed(s, p) ==
    /\ s.phase = "playing"
    /\ p = s.currentPlayerIndex
    /\ IF hasCardsAvailable(s)
       THEN /\ s.pendingPenaltyDraws = 0 /\ s.drawStack = 0
            /\ isStuckAtHandLimit(s) \/ completedDraw(s, p)
       ELSE \/ s.pendingPenaltyDraws > 0
            \/ s.drawStack > 0
            \/ completedDraw(s, p)
            \/ ~hasUnrestrictedPlayableCard(s, p)

handlePass(s, p) ==
    LET passed == [s EXCEPT !.lastAction = Acted("PASS", p)]
        advanced == [passed EXCEPT !.currentPlayerIndex =
                       getNextAliveIndex(s.eliminated, p, s.direction)]
    IN  IF isPassStalemate(s)
        THEN withPenaltyStateDefaults([passed EXCEPT !.phase = "round_end",
                                                     !.winnerId = null])
        ELSE IF hasCardsAvailable(s)
        THEN advanced
        ELSE withPenaltyStateDefaults(advanced)

(***************************************************************************)
(* handleChooseColor and the Wild Draw Four challenge                      *)
(***************************************************************************)
chooseColorAllowed(s, p) ==
    s.phase = "choosing_color" /\ p = s.currentPlayerIndex

handleChooseColor(s, p, chosen) ==
    LET colored == [s EXCEPT !.chosenColor[topCard(s)] = chosen,
                             !.currentColor = chosen,
                             !.lastAction = Acted("CHOOSE_COLOR", p)]
    IN  IF s.pendingDrawPlayerId # null
        THEN [colored EXCEPT !.phase = "challenging"]
        ELSE drainPenaltyQueue(
                [colored EXCEPT
                   !.phase = "playing",
                   !.currentPlayerIndex =
                      getNextAliveIndex(s.eliminated, p, s.direction)])

(* getWildDrawFourChallengeColor: the colour in force before the Wild Draw  *)
(* Four on top was played.                                                  *)
getWildDrawFourChallengeColor(s) ==
    LET previous == s.discardPile[Len(s.discardPile) - 1]
    IN  IF isWildCard(previous) THEN s.chosenColor[previous]
        ELSE color[previous]

respondAllowed(s, p) ==
    s.phase = "challenging" /\ p = s.pendingDrawPlayerId

(* A challenge throws, and changes nothing, when the discards do not tell   *)
(* that colour.                                                             *)
challengeAllowed(s, p) ==
    /\ respondAllowed(s, p)
    /\ Len(s.discardPile) > 1
    /\ getWildDrawFourChallengeColor(s) # null

(* Faulty: who was challenged is not forgotten.                             *)
settleWildDrawFourKeepingVictim(s, lastAction, penaltyPlayer, count, source) ==
    startPenaltyDraw([s EXCEPT !.phase = "playing",
                               !.lastAction = lastAction],
                     penaltyPlayer, count,
                     getNextAliveIndex(s.eliminated, penaltyPlayer, s.direction),
                     source)

(* Faulty: the turn after the penalty is the one after the Wild Draw Four.  *)
settleWildDrawFourUnskipped(s, lastAction, penaltyPlayer, count, source) ==
    startPenaltyDraw([s EXCEPT !.phase = "playing",
                               !.pendingDrawPlayerId = null,
                               !.lastAction = lastAction],
                     penaltyPlayer, count,
                     getNextAliveIndex(s.eliminated, s.currentPlayerIndex,
                                       s.direction),
                     source)

(* The challenge is over: its penalty, the revenge bonus included, falls on *)
(* penaltyPlayer.                                                           *)
settleWildDrawFour(s, lastAction, penaltyPlayer, count, source) ==
    startPenaltyDraw([s EXCEPT !.phase = "playing",
                               !.pendingDrawPlayerId = null,
                               !.pendingRevengeDraws = 0,
                               !.lastAction = lastAction],
                     penaltyPlayer, count + s.pendingRevengeDraws,
                     getNextAliveIndex(s.eliminated, penaltyPlayer, s.direction),
                     source)

handleChallenge(s, p) ==
    LET wd4Player == s.currentPlayerIndex
        wd4WasLegal == isValidWildDrawFour(s.hand[wd4Player],
                                           getWildDrawFourChallengeColor(s))
    IN  IF wd4WasLegal
        THEN settleWildDrawFour(s, Acted("CHALLENGE", p), p, 6, wd4Player)
        ELSE settleWildDrawFour(s, Acted("CHALLENGE", p), wd4Player, 4, null)

handleAccept(s, p) ==
    settleWildDrawFour(s, Acted("ACCEPT", p), p, 4, s.currentPlayerIndex)

(***************************************************************************)
(* UNO calls                                                               *)
(***************************************************************************)
hasPlayableCardForUnoCall(s, p) ==
    IF s.drawStack > 0
    THEN /\ s.currentColor # null
         /\ \E c \in s.hand[p] : canRespondToDrawStack(s, c)
    ELSE hasPlayableCard(s, p)

isPayingUnoPenalty(s, p) ==
    /\ s.pendingPenaltyDraws > 0
    /\ s.currentPlayerIndex = p
    /\ s.pendingPenaltySourcePlayerId = null

callUnoAllowed(s, p) ==
    /\ ~s.unoCaught[p]
    /\ ~isPayingUnoPenalty(s, p)
    /\ \/ Cardinality(s.hand[p]) = 1
       \/ /\ ~On(s, "strictUnoCall")
          /\ Cardinality(s.hand[p]) = 2
          /\ s.currentPlayerIndex = p
          /\ hasPlayableCardForUnoCall(s, p)

handleCallUno(s, p) ==
    [s EXCEPT !.calledUno[p] = TRUE,
              !.unoCaught[p] = FALSE,
              !.lastAction = Acted("CALL_UNO", p)]

catchUnoAllowed(s, target) ==
    /\ Cardinality(s.hand[target]) = 1
    /\ ~s.calledUno[target]
    /\ ~s.unoCaught[target]

(* handleCatchUno draws UNO_PENALTY_CARDS = 2; the unoPenalty rule another  *)
(* count.                                                                   *)
handleCatchUno(s, target, count) ==
    startPenaltyDraw([s EXCEPT !.unoCaught[target] = TRUE,
                               !.lastAction = Acted("CATCH_UNO", null)],
                     target, count, s.currentPlayerIndex, null)
=============================================================================
