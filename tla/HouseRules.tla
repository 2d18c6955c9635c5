----------------------------- MODULE HouseRules -----------------------------
(***************************************************************************)
(* The house rules of packages/shared/src/rules: house-rules-engine.ts,    *)
(* house-rule-helpers.ts and the plugins of rules/rules.                   *)
(*                                                                         *)
(* A pre-check plugin looks at an action before the reducer does.  Its     *)
(* operator XClaims says when it returns handled: true; the first plugin   *)
(* of PRE_CHECK_PLUGINS that claims an action decides it.  When a plugin   *)
(* claims an action and returns the same state, the action is refused.     *)
(* Post-process plugins rewrite the state the reducer returned.            *)
(***************************************************************************)
EXTENDS GameEngine

IsCurrent(s, p) == s.currentPlayerIndex = p

anyOn(s, rules) == s.houseRules \cap rules # {}

hasPendingDrawObligation(s) == s.pendingPenaltyDraws > 0 \/ s.drawStack > 0

(* drawCardsFromDeck draws from the side that holds more cards.             *)
LongerSide(s) ==
    IF Cardinality(s.deck["left"]) >= Cardinality(s.deck["right"])
    THEN "left" ELSE "right"

(***************************************************************************)
(* Post-process plugins, in the order of POST_PROCESS_PLUGINS.             *)
(* before is the state the action was applied to, after what it led to.    *)
(***************************************************************************)
playedNumber(before, c, v) ==
    c \in before.hand[before.currentPlayerIndex] /\ isNumberCard(c, v)

zeroRotate(before, after, c) ==
    IF On(before, "zeroRotateHands") /\ playedNumber(before, c, 0)
    THEN [after EXCEPT !.hand = rotateHands(after.hand, after.eliminated,
                                            after.direction)]
    ELSE after

(* Faulty: a last card 7 asks for a swap although it has won.               *)
sevenSwapPostInAnyPhase(before, after, c) ==
    IF On(before, "sevenSwapHands") /\ playedNumber(before, c, 7)
    THEN [after EXCEPT !.phase = "choosing_swap_target",
                       !.currentPlayerIndex = before.currentPlayerIndex]
    ELSE after

sevenSwapPost(before, after, c) ==
    IF /\ On(before, "sevenSwapHands")
       /\ playedNumber(before, c, 7)
       /\ ~terminal(after)
    THEN [after EXCEPT !.phase = "choosing_swap_target",
                       !.currentPlayerIndex = before.currentPlayerIndex]
    ELSE after

(* A +2 or +4 answered at once by another: the second hits harder.          *)
revengeMode(before, after, c) ==
    LET victim == getNextAliveIndex(before.eliminated,
                                    before.currentPlayerIndex, before.direction)
    IN  IF \/ ~On(before, "revengeMode")
           \/ terminal(after)
           \/ c \notin before.hand[before.currentPlayerIndex]
           \/ ~isFunctionCard(c)
           \/ ~isFunctionCard(topCard(before))
        THEN after
        ELSE IF type[c] = "draw_two"
        THEN startPenaltyDraw(after, victim, 2,
                              after.pendingPenaltyNextPlayerIndex, null)
        ELSE [after EXCEPT !.pendingRevengeDraws = @ + 4]

multiPlayPost(before, after, c) ==
    LET p == before.currentPlayerIndex
    IN  IF /\ anyOn(before, {"multiplePlaySameNumber", "bombCard"})
           /\ c \in before.hand[p] /\ type[c] = "number"
           /\ \E d \in after.hand[p] : isNumberCard(d, value[c])
        THEN [after EXCEPT !.currentPlayerIndex = p]
        ELSE after

(* doubleScore and teamMode reward a winner of a round that was in the      *)
(* playing phase.                                                           *)
roundDecided(before, after) ==
    terminal(after) /\ before.phase = "playing" /\ after.winnerId # null

(* Faulty: what was won in earlier rounds is doubled again.                 *)
doubleScoreOfTotal(before, after) ==
    LET w == after.winnerId
    IN  IF On(before, "doubleScore") /\ roundDecided(before, after)
        THEN [after EXCEPT !.score[w] = @ * 2]
        ELSE after

doubleScore(before, after) ==
    LET w == after.winnerId
        earned == after.score[w] - before.score[w]
    IN  IF On(before, "doubleScore") /\ roundDecided(before, after) /\ earned > 0
        THEN [after EXCEPT !.score[w] = before.score[w] + earned * 2]
        ELSE after

teamMode(before, after) ==
    LET w == after.winnerId
        earned == after.score[w] - before.score[w]
    IN  IF /\ On(before, "teamMode") /\ roundDecided(before, after)
           /\ after.teamId[w] # null
           /\ earned > 0
        THEN [after EXCEPT !.score =
                [p \in Seat |->
                    IF p # w /\ after.teamId[p] = after.teamId[w]
                    THEN after.score[p] + earned
                    ELSE after.score[p]]]
        ELSE after

(* The first of the remaining non-winners with the most cards drops out.    *)
IsLoser(s, p) ==
    LET cards(q) == Cardinality(s.hand[q])
        nonWinners == {q \in AliveSeats(s.eliminated) : q # s.winnerId}
    IN  /\ p \in nonWinners
        /\ cards(p) > 0
        /\ \A q \in nonWinners : \/ cards(q) < cards(p)
                                 \/ cards(q) = cards(p) /\ p <= q

elimination(before, after) ==
    LET loser == CHOOSE p \in Seat : IsLoser(after, p)
        without == [after EXCEPT !.eliminated[loser] = TRUE]
        remaining == AliveSeats(without.eliminated)
    IN  IF \/ ~On(before, "elimination")
           \/ after.phase # "round_end" \/ before.phase = "round_end"
           \/ Cardinality(AliveSeats(after.eliminated)) <= 1
           \/ ~\E p \in Seat : IsLoser(after, p)
        THEN after
        ELSE IF Cardinality(remaining) = 1
        THEN [without EXCEPT !.phase = "game_over",
                             !.winnerId = CHOOSE p \in remaining : TRUE]
        ELSE without

settleRound(before, after) ==
    elimination(before, teamMode(before, doubleScore(before, after)))

(* runPostProcess, after a PLAY_CARD of card c.                             *)
postProcessPlay(before, after, c) ==
    settleRound(before,
        multiPlayPost(before,
            revengeMode(before,
                sevenSwapPost(before, zeroRotate(before, after, c), c), c), c))

(* The last card of the hand array: the one just drawn, or, when the draw   *)
(* gave no card, a card the model does not order.                           *)
forcedPlayAfterDraw(before, after, p, card) ==
    IF /\ On(before, "forcedPlayAfterDraw")
       /\ ~hasPendingDrawObligation(after) /\ ~hasPendingDrawObligation(before)
       /\ playCardAllowed(after, p, card)
    THEN handlePlayCard(after, p, card)
    ELSE after

postProcessDraw(before, after, p, card) ==
    settleRound(before, forcedPlayAfterDraw(before, after, p, card))

(* What applyActionWithHouseRules makes of a PLAY_CARD a plugin handled.    *)
handledPlay(before, result, c) ==
    LET drained == drainPenaltyQueue(result)
    IN  IF terminal(drained) /\ ~terminal(before)
        THEN postProcessPlay(before, drained, c)
        ELSE drained

(***************************************************************************)
(* Pre-check plugins that judge a PLAY_CARD.  chosen is action.chosenColor *)
(* (null when the player did not send one).                                *)
(***************************************************************************)
finishRestrictionsClaims(s, p, c) == isFinishRestrictedLastCard(s, p, c)

finishRestrictionsAllowed(s, p) == IsCurrent(s, p) /\ s.drawStack = 0

(* One penalty card; when there is none, the turn is forfeited.             *)
NoFinishCard(s) == CanYield(s, LongerSide(s)) = {}

finishPenaltyCard(s, p, card) == drawCards(s, p, LongerSide(s), card)

misplayPenaltyClaims(s, p, c) ==
    /\ anyOn(s, {"misplayPenalty", "blindDraw"})
    /\ s.phase = "playing"
    /\ IF IsCurrent(s, p)
       THEN ~playCardAllowed(s, p, c)
       ELSE ~On(s, "jumpIn")

misplayPenalty(s, p) ==
    startPenaltyDraw(s, p, 1, s.currentPlayerIndex, null)

answersChallenge(s, p) == s.phase = "challenging" /\ s.pendingDrawPlayerId = p

(* deflection: a Reverse sends the penalty back, a Skip passes it on.       *)
deflectsWithReverse(s, c) ==
    /\ type[c] = "reverse"
    /\ \/ On(s, "reverseDeflectDrawTwo") /\ type[topCard(s)] = "draw_two"
       \/ /\ On(s, "reverseDeflectDrawFour")
          /\ type[topCard(s)] = "wild_draw_four"

deflectsWithSkip(s, c) == type[c] = "skip" /\ On(s, "skipDeflect")

deflectionClaims(s, p, c) ==
    /\ c \in s.hand[p]
    /\ \/ answersChallenge(s, p)
       \/ s.phase # "challenging" /\ s.drawStack > 0 /\ IsCurrent(s, p)
    /\ deflectsWithReverse(s, c) \/ deflectsWithSkip(s, c)

(* The deflecting card is discarded; UNO flags stay as they are.            *)
withDeflectionPlayed(s, p, c) ==
    [withCardDiscarded(s, p, c) EXCEPT
        !.currentColor = color[c],
        !.direction = IF type[c] = "reverse" THEN reverseDirection(@) ELSE @]

(* Faulty: who was challenged is not forgotten.                             *)
deflectChallengeKeepingVictim(s, p, c) ==
    startPenaltyDraw([withDeflectionPlayed(s, p, c) EXCEPT !.phase = "playing"],
                     s.currentPlayerIndex, 4, p, p)

deflectChallenge(s, p, c) ==
    LET played == withDeflectionPlayed(s, p, c)
        target == IF type[c] = "reverse"
                  THEN s.currentPlayerIndex
                  ELSE getNextAliveIndex(s.eliminated, p, s.direction)
        base == checkRoundEnd([played EXCEPT !.phase = "playing",
                                             !.pendingDrawPlayerId = null,
                                             !.pendingRevengeDraws = 0], p)
    IN  startPenaltyDraw(base, target, 4 + s.pendingRevengeDraws,
                         getNextAliveIndex(s.eliminated, target,
                                           played.direction), p)

deflectStack(s, p, c) ==
    LET played == withDeflectionPlayed(s, p, c)
    IN  checkRoundEnd([played EXCEPT !.currentPlayerIndex =
                         getNextAliveIndex(s.eliminated, p, played.direction)],
                      p)

deflection(s, p, c) ==
    IF answersChallenge(s, p) THEN deflectChallenge(s, p, c)
                              ELSE deflectStack(s, p, c)

(* stacking, cases (0), (a) and (b).                                        *)
stackingOn(s) == anyOn(s, {"stackDrawTwo", "stackDrawFour", "crossStack"})

stacksOnChallenge(s, c) ==
    \/ On(s, "stackDrawFour") /\ type[c] = "wild_draw_four"
    \/ On(s, "crossStack") /\ isFunctionCard(c)

stacksOnStack(s, c) ==
    LET top == type[topCard(s)]
    IN  \/ On(s, "stackDrawTwo") /\ type[c] = "draw_two" /\ top = "draw_two"
        \/ /\ On(s, "stackDrawFour")
           /\ type[c] = "wild_draw_four" /\ top = "wild_draw_four"
        \/ /\ On(s, "crossStack") /\ isFunctionCard(c)
           /\ top \in {"draw_two", "wild_draw_four"} \ {type[c]}

startsStack(s, p, c) ==
    /\ s.phase = "playing"
    /\ IsCurrent(s, p) /\ c \in s.hand[p]
    /\ type[c] = "draw_two" /\ anyOn(s, {"stackDrawTwo", "crossStack"})
    /\ s.currentColor # null
    /\ canPlayCard(c, topCard(s), s.currentColor)

stackingClaims(s, p, c) ==
    /\ stackingOn(s)
    /\ \/ answersChallenge(s, p) /\ (c \in s.hand[p] => stacksOnChallenge(s, c))
       \/ s.phase # "challenging" /\ s.drawStack > 0
       \/ s.drawStack = 0 /\ startsStack(s, p, c)

stackingAllowed(s, p, c, chosen) ==
    /\ c \in s.hand[p]
    /\ type[c] = "wild_draw_four" => chosen # null
    /\ \/ answersChallenge(s, p)
       \/ s.drawStack > 0 /\ IsCurrent(s, p) /\ stacksOnStack(s, c)
       \/ s.drawStack = 0

(* Faulty: the new card's draws replace those already stacked.              *)
putAttackCardOnNewStack(s, p, c, chosen) ==
    [withUnoFlagsAfterPlay(withCardDiscarded(s, p, c), p) EXCEPT
        !.currentColor = IF type[c] = "draw_two" THEN color[c] ELSE chosen,
        !.drawStack = getCardDrawPenalty(c),
        !.currentPlayerIndex = getNextAliveIndex(s.eliminated, p, s.direction)]

(* Faulty: a last card on the stack does not end the round.                 *)
putLastCardOnStack(s, p, c, chosen) ==
    [withUnoFlagsAfterPlay(withCardDiscarded(s, p, c), p) EXCEPT
        !.currentColor = IF type[c] = "draw_two" THEN color[c] ELSE chosen,
        !.drawStack = @ + getCardDrawPenalty(c),
        !.currentPlayerIndex = getNextAliveIndex(s.eliminated, p, s.direction)]

putAttackCardOnStack(s, p, c, chosen) ==
    LET played == withUnoFlagsAfterPlay(withCardDiscarded(s, p, c), p)
        colored == IF type[c] = "draw_two"
                   THEN [played EXCEPT !.currentColor = color[c]]
                   ELSE [played EXCEPT !.currentColor = chosen,
                                       !.chosenColor[c] = chosen]
    IN  checkRoundEnd([colored EXCEPT
                         !.drawStack = @ + getCardDrawPenalty(c),
                         !.currentPlayerIndex =
                            getNextAliveIndex(s.eliminated, p, s.direction)],
                      p)

stacking(s, p, c, chosen) ==
    IF answersChallenge(s, p)
    THEN putAttackCardOnStack([s EXCEPT !.phase = "playing",
                                        !.pendingDrawPlayerId = null,
                                        !.drawStack = 4 + s.pendingRevengeDraws,
                                        !.pendingRevengeDraws = 0,
                                        !.currentPlayerIndex = p],
                              p, c, chosen)
    ELSE putAttackCardOnStack(s, p, c, chosen)

(* jumpIn: the exact card on top, played out of turn.                       *)
jumpInClaims(s, p) ==
    /\ On(s, "jumpIn")
    /\ s.phase = "playing"
    /\ ~hasPendingDrawObligation(s)
    /\ ~IsCurrent(s, p)

jumpInAllowed(s, p, c) ==
    c \in s.hand[p] /\ isExactJumpInMatch(c, topCard(s))

withWildColor(s, c, chosen) ==
    [s EXCEPT !.chosenColor[c] = chosen, !.currentColor = chosen]

withJumpInEffect(s, before, p, c, chosen) ==
    LET next == getNextAliveIndex(s.eliminated, p, s.direction)
        afterNext == skipNextAliveIndex(s.eliminated, p, s.direction)
        toNext == [s EXCEPT !.currentPlayerIndex = next]
        colored == [toNext EXCEPT !.currentColor = color[c]]
        penalized == startPenaltyDraw(colored, next, 2, afterNext, p)
    IN  CASE type[c] \in {"skip", "reverse"} ->
               withCardEffect(s, p, c)
          [] type[c] = "draw_two" ->
               IF On(s, "revengeMode") /\ isFunctionCard(topCard(before))
               THEN startPenaltyDraw(penalized, next, 2, afterNext, null)
               ELSE penalized
          [] type[c] = "wild" ->
               IF chosen # null
               THEN withWildColor(toNext, c, chosen)
               ELSE [s EXCEPT !.phase = "choosing_color",
                              !.currentPlayerIndex = p]
          [] type[c] = "wild_draw_four" ->
               [(IF chosen # null
                 THEN [withWildColor(s, c, chosen) EXCEPT !.phase = "challenging"]
                 ELSE [s EXCEPT !.phase = "choosing_color"]) EXCEPT
                  !.currentPlayerIndex = p,
                  !.pendingDrawPlayerId = next]
          [] type[c] = "number" ->
               IF On(s, "sevenSwapHands") /\ value[c] = 7
               THEN [colored EXCEPT !.phase = "choosing_swap_target",
                                    !.currentPlayerIndex = p]
               ELSE IF On(s, "zeroRotateHands") /\ value[c] = 0
               THEN [colored EXCEPT !.hand = rotateHands(s.hand, s.eliminated,
                                                         s.direction)]
               ELSE colored

jumpIn(s, p, c, chosen) ==
    checkRoundEnd(withJumpInEffect(withCardDiscarded(s, p, c), s, p, c, chosen),
                  p)

(***************************************************************************)
(* Pre-check plugins that judge a DRAW_CARD                                *)
(***************************************************************************)
handLimitClaims(s, p) ==
    ~hasPendingDrawObligation(s) /\ IsCurrent(s, p) /\ atHandLimit(s, p)

forcedPlayClaims(s, p) ==
    /\ On(s, "forcedPlay")
    /\ ~hasPendingDrawObligation(s)
    /\ s.phase = "playing" /\ IsCurrent(s, p)
    /\ hasPlayableCard(s, p)

stackingClaimsDraw(s) ==
    stackingOn(s) /\ s.drawStack > 0 /\ s.pendingPenaltyDraws = 0

drawUntilPlayableClaims(s, p) ==
    /\ On(s, "drawUntilPlayable")
    /\ ~hasPendingDrawObligation(s)
    /\ s.phase = "playing" /\ IsCurrent(s, p)

(* Refused: the hand limit, a card that must be played, a draw after a draw *)
(* without drawUntilPlayable.                                               *)
drawRefused(s, p) ==
    \/ handLimitClaims(s, p)
    \/ forcedPlayClaims(s, p)
    \/ IF drawUntilPlayableClaims(s, p)
       THEN hasPlayableCard(s, p)
       ELSE s.pendingPenaltyDraws = 0 /\ completedDraw(s, p)

(* stacking, case (c): the drawer takes the whole stack as a penalty and    *)
(* pays its first card.                                                     *)
resolveStack(s, p, side, card) ==
    handleDrawCard(
        startPenaltyDraw([s EXCEPT !.drawStack = 0,
                                   !.lastAction = Acted("DRAW_CARD", p)],
                         p, s.drawStack,
                         getNextAliveIndex(s.eliminated, p, s.direction),
                         IF s.lastAction.type = "PLAY_CARD"
                         THEN s.lastAction.playerId ELSE null),
        p, side, card)

(***************************************************************************)
(* Pre-check plugins that judge the other actions                          *)
(***************************************************************************)
multiPlayPassClaims(s, p) ==
    /\ anyOn(s, {"multiplePlaySameNumber", "bombCard"})
    /\ s.phase = "playing" /\ IsCurrent(s, p)
    /\ s.lastAction.type = "PLAY_CARD"
    /\ type[topCard(s)] = "number"

(* Three cards of one number on top of the discard pile are a bomb.         *)
isBomb(s) ==
    LET length == Len(s.discardPile)
    IN  /\ On(s, "bombCard")
        /\ length >= 3
        /\ \A i \in (length - 2)..length :
              isNumberCard(s.discardPile[i], value[topCard(s)])

(* Seats other than p, in seat order.                                       *)
SeatsBombed(s, p) ==
    LET hit == AliveSeats(s.eliminated) \ {p}
        after(i) == {j \in hit : j < i}
    IN  [k \in 1..Cardinality(hit) |->
            CHOOSE i \in hit : Cardinality(after(i)) = k - 1]

(* The penalties of a bomb.  The code calls startPenaltyDraw for each seat: *)
(* the first penalty starts, unless one is active; the others wait.         *)
multiPlayPass(s, p) ==
    LET next == getNextAliveIndex(s.eliminated, p, s.direction)
        passed == [s EXCEPT !.currentPlayerIndex = next,
                            !.lastAction = Acted("PASS", p)]
        hit == SeatsBombed(s, p)
        penalty(i) == [playerId |-> i, count |-> 1, nextPlayerIndex |-> next,
                       sourcePlayerId |-> null]
    IN  IF isBomb(s) /\ hit # <<>>
        THEN drainPenaltyQueue(
               [passed EXCEPT !.pendingPenaltyQueue =
                  @ \o [k \in DOMAIN hit |-> penalty(hit[k])]])
        ELSE drainPenaltyQueue(passed)

drawUntilPlayableRefusesPass(s, p) ==
    /\ On(s, "drawUntilPlayable")
    /\ s.phase = "playing" /\ IsCurrent(s, p)
    /\ hasCardsAvailable(s)
    /\ s.currentColor # null
    /\ ~hasPlayableCard(s, p)
    /\ ~isStuckAtHandLimit(s)

passRefused(s, p) ==
    \/ stackingOn(s) /\ s.drawStack > 0
    \/ drawUntilPlayableRefusesPass(s, p)

(* noChallengeWildFour: the chosen colour settles the Wild Draw Four.       *)
chooseColorUnchallenged(s, p, chosen) ==
    settleWildDrawFour(handleChooseColor(s, p, chosen),
                       Acted("CHOOSE_COLOR", p), s.pendingDrawPlayerId, 4, p)

(* Faulty: a swap of two hands of the same size is refused as pointless.    *)
chooseSwapTargetAllowedIfUnequal(s, p, target) ==
    /\ On(s, "sevenSwapHands")
    /\ s.phase = "choosing_swap_target"
    /\ IsCurrent(s, p)
    /\ Cardinality(s.hand[target]) # Cardinality(s.hand[p])
    /\ ~s.eliminated[target]

chooseSwapTargetAllowed(s, p, target) ==
    /\ On(s, "sevenSwapHands")
    /\ s.phase = "choosing_swap_target"
    /\ IsCurrent(s, p)
    /\ target # p
    /\ ~s.eliminated[target]

(* Faulty: the target gets the hand the player has already received.        *)
chooseSwapTargetOverwriting(s, p, target) ==
    [s EXCEPT !.hand = [s.hand EXCEPT ![p] = s.hand[target]],
              !.phase = "playing",
              !.currentPlayerIndex =
                  getNextAliveIndex(s.eliminated, p, s.direction),
              !.lastAction = Acted("CHOOSE_SWAP_TARGET", p)]

(* A hand of one card received in a swap counts as called.                  *)
chooseSwapTarget(s, p, target) ==
    LET swapped == [s.hand EXCEPT ![p] = s.hand[target],
                                  ![target] = s.hand[p]]
        pair == {p, target}
    IN  drainPenaltyQueue(
          [s EXCEPT !.hand = swapped,
                    !.calledUno = [i \in Seat |->
                        IF i \in pair THEN Cardinality(swapped[i]) = 1
                                      ELSE s.calledUno[i]],
                    !.unoCaught = [i \in Seat |->
                        i \notin pair /\ s.unoCaught[i]],
                    !.phase = "playing",
                    !.currentPlayerIndex =
                        getNextAliveIndex(s.eliminated, p, s.direction),
                    !.lastAction = Acted("CHOOSE_SWAP_TARGET", p)])
=============================================================================
