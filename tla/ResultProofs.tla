----------------------------- MODULE ResultProofs -----------------------------
(***************************************************************************)
(* What the phases of a round promise: a finished round is final, no       *)
(* handler meets a state it throws an error about, a penalty is paid by    *)
(* the player who owes it, card by card, automatic players always find a   *)
(* move, the points are what the hands are worth, and who draws for        *)
(* another's card loses the turn.                                          *)
(*                                                                         *)
(* Nothing forbids an action just because the round is over: most handlers *)
(* look at the phase, but a card that answers a stack of draws is judged   *)
(* by the stack alone.  What keeps it from being played on a finished      *)
(* round is that no stack is left there.                                   *)
(***************************************************************************)
EXTENDS AutomatedPlay, UnoGameProofs

(* s is a game state as far as its fields go, and owes no stack of draws    *)
(* once its round is over.                                                  *)
Settled(s) ==
    /\ DOMAIN s = StateField
    /\ terminal(s) => s.drawStack = 0

(***************************************************************************)
(* The operators of GameEngine                                             *)
(***************************************************************************)
LEMMA DefaultsSettled ==
    ASSUME NEW s, DOMAIN s = StateField
    PROVE  Settled(withPenaltyStateDefaults(s))
BY DEF Settled, StateField, withPenaltyStateDefaults

LEMMA CheckRoundEndSettled ==
    ASSUME NEW s, Settled(s), NEW p
    PROVE  Settled(checkRoundEnd(s, p))
<1> DEFINE total == s.score[p] + RoundScore(s, p)
           decided == [s EXCEPT !.score[p] = total,
                                !.roundWins[p] = @ + 1,
                                !.phase = IF total >= TargetScore
                                          THEN "game_over" ELSE "round_end",
                                !.winnerId = p]
<1>1. DOMAIN decided = StateField
  BY DEF Settled
<1> HIDE DEF decided
<1> QED
  BY <1>1, DefaultsSettled DEF checkRoundEnd, decided

LEMMA StartPenaltyDrawSettled ==
    ASSUME NEW s, Settled(s), NEW p, NEW count, NEW next, NEW source
    PROVE  Settled(startPenaltyDraw(s, p, count, next, source))
BY DEF Settled, StateField, terminal, startPenaltyDraw

LEMMA StartQueuedPenaltySettled ==
    ASSUME NEW s, Settled(s)
    PROVE  Settled(startQueuedPenalty(s))
<1>1. Settled([s EXCEPT !.pendingPenaltyQueue = Tail(@)])
  BY DEF Settled, StateField, terminal
<1> QED
  BY <1>1, StartPenaltyDrawSettled DEF startQueuedPenalty

LEMMA DrainPenaltyQueueSettled ==
    ASSUME NEW s, Settled(s)
    PROVE  Settled(drainPenaltyQueue(s))
BY StartQueuedPenaltySettled DEF drainPenaltyQueue

LEMMA FinishPenaltyDrawSettled ==
    ASSUME NEW s, Settled(s), NEW lastAction
    PROVE  Settled(finishPenaltyDrawIfNeeded(s, lastAction))
<1> DEFINE paid == [s EXCEPT !.pendingPenaltyDraws = 0,
                             !.pendingPenaltyNextPlayerIndex = null,
                             !.pendingPenaltySourcePlayerId = null,
                             !.lastAction = lastAction]
           finished == [paid EXCEPT
                          !.currentPlayerIndex = s.pendingPenaltyNextPlayerIndex]
<1>1. Settled(paid)
  BY DEF Settled, StateField, terminal
<1> HIDE DEF paid
<1>2. Settled(finished)
  BY <1>1 DEF Settled, StateField, terminal
<1> HIDE DEF finished
<1>3. Settled([s EXCEPT !.pendingPenaltyDraws = @ - 1,
                        !.lastAction = lastAction])
  BY DEF Settled, StateField, terminal
<1> QED
  BY <1>1, <1>2, <1>3, StartQueuedPenaltySettled, CheckRoundEndSettled
     DEF finishPenaltyDrawIfNeeded, paid, finished

(* A draw changes no phase and no result.                                   *)
LEMMA DrawCardsKeepsResult ==
    ASSUME NEW s, DOMAIN s = StateField, NEW p, NEW side, NEW card
    PROVE  LET t == drawCards(s, p, side, card)
           IN  /\ DOMAIN t = StateField
               /\ t.phase = s.phase /\ t.drawStack = s.drawStack
               /\ t.winnerId = s.winnerId /\ t.score = s.score
               /\ t.roundWins = s.roundWins /\ t.eliminated = s.eliminated
<1> DEFINE refilled == withSideRefilled(s, side)
           Kept(t) == /\ DOMAIN t = StateField
                      /\ t.phase = s.phase /\ t.drawStack = s.drawStack
                      /\ t.winnerId = s.winnerId /\ t.score = s.score
                      /\ t.roundWins = s.roundWins
                      /\ t.eliminated = s.eliminated
<1>1. Kept(refilled)
  BY DEF withSideRefilled, StateField
<1> HIDE DEF refilled
<1>2. Kept([refilled EXCEPT !.deck[side] = @ \ {card},
                            !.hand[p] = @ \cup {card},
                            !.calledUno[p] = FALSE,
                            !.unoCaught[p] = FALSE])
  BY <1>1 DEF StateField
<1> HIDE DEF Kept
<1>3. Kept(drawCards(s, p, side, card))
  BY <1>1, <1>2 DEF drawCards, refilled
<1> QED
  BY <1>3 DEF Kept

LEMMA DrawCardsSettled ==
    ASSUME NEW s, Settled(s), NEW p, NEW side, NEW card
    PROVE  Settled(drawCards(s, p, side, card))
BY DrawCardsKeepsResult DEF Settled, terminal

LEMMA HandleDrawCardSettled ==
    ASSUME NEW s, Settled(s), NEW p, NEW side, NEW card
    PROVE  Settled(handleDrawCard(s, p, side, card))
<1> DEFINE drawn == drawCards(s, p, side, card)
<1>1. Settled(drawn)
  BY DrawCardsSettled
<1> HIDE DEF drawn
<1>2. Settled([drawn EXCEPT !.lastAction = Acted("DRAW_CARD", p)])
  BY <1>1 DEF Settled, StateField, terminal
<1> QED
  BY <1>1, <1>2, FinishPenaltyDrawSettled DEF handleDrawCard, drawn

LEMMA WithCardDiscardedSettled ==
    ASSUME NEW s, Settled(s), NEW p, NEW c
    PROVE  Settled(withCardDiscarded(s, p, c))
BY DEF Settled, StateField, terminal, withCardDiscarded

LEMMA WithUnoFlagsSettled ==
    ASSUME NEW s, Settled(s), NEW p
    PROVE  Settled(withUnoFlagsAfterPlay(s, p))
BY DEF Settled, StateField, terminal, withUnoFlagsAfterPlay

LEMMA WithCardEffectSettled ==
    ASSUME NEW s, Settled(s), NEW p, NEW c \in Deck
    PROVE  Settled(withCardEffect(s, p, c))
<1> DEFINE next == getNextAliveIndex(s.eliminated, p, s.direction)
           afterNext == skipNextAliveIndex(s.eliminated, p, s.direction)
<1>1. type[c] \in CardType
  BY DeckAssumption
<1>2. ASSUME NEW turn, NEW direction
      PROVE  /\ Settled([s EXCEPT !.currentColor = color[c],
                                  !.currentPlayerIndex = turn])
             /\ Settled([s EXCEPT !.currentColor = color[c],
                                  !.direction = direction,
                                  !.currentPlayerIndex = turn])
  BY DEF Settled, StateField, terminal
<1>3. Settled([s EXCEPT !.currentColor = color[c]])
  BY DEF Settled, StateField, terminal
<1>4. Settled(startPenaltyDraw([s EXCEPT !.currentColor = color[c]],
                               next, 2, afterNext, p))
  BY <1>3, StartPenaltyDrawSettled
<1>5. /\ Settled([s EXCEPT !.phase = "choosing_color"])
      /\ Settled([s EXCEPT !.phase = "choosing_color",
                           !.pendingDrawPlayerId = next])
  BY DEF Settled, StateField, terminal, TerminalPhase
<1> HIDE DEF next, afterNext
<1> QED
  BY <1>1, <1>2, <1>4, <1>5 DEF withCardEffect, CardType, next, afterNext

LEMMA HandlePlayCardSettled ==
    ASSUME NEW s, Settled(s), NEW p, NEW c \in Deck
    PROVE  Settled(handlePlayCard(s, p, c))
BY WithCardDiscardedSettled, WithUnoFlagsSettled, WithCardEffectSettled,
   CheckRoundEndSettled DEF handlePlayCard

LEMMA HandlePassSettled ==
    ASSUME NEW s, Settled(s), NEW p
    PROVE  Settled(handlePass(s, p))
<1> DEFINE passed == [s EXCEPT !.lastAction = Acted("PASS", p)]
           advanced == [passed EXCEPT !.currentPlayerIndex =
                          getNextAliveIndex(s.eliminated, p, s.direction)]
           ended == [passed EXCEPT !.phase = "round_end", !.winnerId = null]
<1>1. Settled(passed)
  BY DEF Settled, StateField, terminal
<1> HIDE DEF passed
<1>2. Settled(advanced)
  BY <1>1 DEF Settled, StateField, terminal
<1> HIDE DEF advanced
<1>3. DOMAIN ended = StateField
  BY <1>1 DEF Settled
<1> HIDE DEF ended
<1>4. Settled(withPenaltyStateDefaults(ended))
  BY <1>3, DefaultsSettled
<1>5. Settled(withPenaltyStateDefaults(advanced))
  BY <1>2, DefaultsSettled DEF Settled
<1> QED
  BY <1>2, <1>4, <1>5 DEF handlePass, passed, advanced, ended

LEMMA HandleChooseColorSettled ==
    ASSUME NEW s, Settled(s), NEW p, NEW chosen
    PROVE  Settled(handleChooseColor(s, p, chosen))
<1> DEFINE colored == [s EXCEPT !.chosenColor[topCard(s)] = chosen,
                                !.currentColor = chosen,
                                !.lastAction = Acted("CHOOSE_COLOR", p)]
           challenged == [colored EXCEPT !.phase = "challenging"]
           played == [colored EXCEPT
                        !.phase = "playing",
                        !.currentPlayerIndex =
                           getNextAliveIndex(s.eliminated, p, s.direction)]
<1>1. DOMAIN colored = StateField
  BY DEF Settled
<1> HIDE DEF colored
<1>2. Settled(challenged) /\ Settled(played)
  BY <1>1 DEF Settled, StateField, terminal, TerminalPhase
<1> HIDE DEF challenged, played
<1> QED
  BY <1>2, DrainPenaltyQueueSettled
     DEF handleChooseColor, colored, challenged, played

LEMMA SettleWildDrawFourSettled ==
    ASSUME NEW s, Settled(s), NEW lastAction, NEW p, NEW count, NEW source
    PROVE  Settled(settleWildDrawFour(s, lastAction, p, count, source))
<1>1. Settled([s EXCEPT !.phase = "playing", !.pendingDrawPlayerId = null,
                        !.pendingRevengeDraws = 0,
                        !.lastAction = lastAction])
  BY DEF Settled, StateField, terminal, TerminalPhase
<1> QED
  BY <1>1, StartPenaltyDrawSettled DEF settleWildDrawFour

LEMMA AnswersSettled ==
    ASSUME NEW s, Settled(s), NEW p
    PROVE  Settled(handleChallenge(s, p)) /\ Settled(handleAccept(s, p))
BY SettleWildDrawFourSettled DEF handleChallenge, handleAccept

LEMMA HandleCallUnoSettled ==
    ASSUME NEW s, Settled(s), NEW p
    PROVE  Settled(handleCallUno(s, p))
BY DEF Settled, StateField, terminal, handleCallUno

LEMMA HandleCatchUnoSettled ==
    ASSUME NEW s, Settled(s), NEW target, NEW count
    PROVE  Settled(handleCatchUno(s, target, count))
<1>1. Settled([s EXCEPT !.unoCaught[target] = TRUE,
                        !.lastAction = Acted("CATCH_UNO", null)])
  BY DEF Settled, StateField, terminal
<1> QED
  BY <1>1, StartPenaltyDrawSettled DEF handleCatchUno

(***************************************************************************)
(* The operators of HouseRules                                             *)
(***************************************************************************)

(* zeroRotate, sevenSwapPost, revengeMode and multiPlayPost.                *)
LEMMA TurnPluginsSettled ==
    ASSUME NEW before, NEW after, Settled(after), NEW c
    PROVE  /\ Settled(zeroRotate(before, after, c))
           /\ Settled(sevenSwapPost(before, after, c))
           /\ Settled(revengeMode(before, after, c))
           /\ Settled(multiPlayPost(before, after, c))
<1>1. Settled(zeroRotate(before, after, c))
  BY DEF Settled, StateField, terminal, zeroRotate
<1>2. Settled(sevenSwapPost(before, after, c))
  BY DEF Settled, StateField, terminal, TerminalPhase, sevenSwapPost
<1>3. Settled(revengeMode(before, after, c))
  <2>1. Settled([after EXCEPT !.pendingRevengeDraws = @ + 4])
    BY DEF Settled, StateField, terminal
  <2> QED
    BY <2>1, StartPenaltyDrawSettled DEF revengeMode
<1>4. Settled(multiPlayPost(before, after, c))
  <2>1. Settled([after EXCEPT !.currentPlayerIndex = before.currentPlayerIndex])
    BY DEF Settled, StateField, terminal
  <2> QED
    BY <2>1 DEF multiPlayPost
<1> QED
  BY <1>1, <1>2, <1>3, <1>4

(* doubleScore, teamMode and elimination.                                   *)
LEMMA SettleRoundSettled ==
    ASSUME NEW before, NEW after, Settled(after)
    PROVE  Settled(settleRound(before, after))
<1> DEFINE doubled == doubleScore(before, after)
           shared == teamMode(before, doubled)
           loser == CHOOSE p \in Seat : IsLoser(shared, p)
           without == [shared EXCEPT !.eliminated[loser] = TRUE]
<1>1. Settled(doubled)
  <2>1. ASSUME NEW w, NEW total PROVE Settled([after EXCEPT !.score[w] = total])
    BY DEF Settled, StateField, terminal
  <2> QED
    BY <2>1 DEF doubleScore
<1> HIDE DEF doubled
<1>2. Settled(shared)
  <2>1. ASSUME NEW score PROVE Settled([doubled EXCEPT !.score = score])
    BY <1>1 DEF Settled, StateField, terminal
  <2> QED
    BY <1>1, <2>1 DEF teamMode
<1> HIDE DEF shared
<1>3. Settled(without) /\ without.phase = shared.phase
  BY <1>2 DEF Settled, StateField, terminal
<1> HIDE DEF without
<1>4. ASSUME shared.phase = "round_end", NEW w
      PROVE  Settled([without EXCEPT !.phase = "game_over", !.winnerId = w])
  BY <1>3, <1>4 DEF Settled, StateField, terminal, TerminalPhase
<1>5. Settled(elimination(before, shared))
  BY <1>2, <1>3, <1>4 DEF elimination, without, loser
<1> QED
  BY <1>5 DEF settleRound, shared, doubled

LEMMA PostProcessPlaySettled ==
    ASSUME NEW before, NEW after, Settled(after), NEW c
    PROVE  Settled(postProcessPlay(before, after, c))
BY TurnPluginsSettled, SettleRoundSettled DEF postProcessPlay

LEMMA PostProcessDrawSettled ==
    ASSUME NEW before, NEW after, Settled(after), NEW p, NEW card \in Deck
    PROVE  Settled(postProcessDraw(before, after, p, card))
BY HandlePlayCardSettled, SettleRoundSettled
   DEF postProcessDraw, forcedPlayAfterDraw

LEMMA HandledPlaySettled ==
    ASSUME NEW before, NEW result, Settled(result), NEW c
    PROVE  Settled(handledPlay(before, result, c))
BY DrainPenaltyQueueSettled, PostProcessPlaySettled DEF handledPlay

LEMMA DeflectionSettled ==
    ASSUME NEW s, Settled(s), NEW p, NEW c
    PROVE  Settled(deflection(s, p, c))
<1> DEFINE played == withDeflectionPlayed(s, p, c)
           answered == [played EXCEPT !.phase = "playing",
                                      !.pendingDrawPlayerId = null,
                                      !.pendingRevengeDraws = 0]
           passed == [played EXCEPT !.currentPlayerIndex =
                        getNextAliveIndex(s.eliminated, p, played.direction)]
<1>1. Settled(played)
  BY WithCardDiscardedSettled
     DEF Settled, StateField, terminal, withDeflectionPlayed
<1> HIDE DEF played
<1>2. Settled(answered) /\ Settled(passed)
  BY <1>1 DEF Settled, StateField, terminal, TerminalPhase
<1> HIDE DEF answered, passed
<1>3. Settled(checkRoundEnd(answered, p)) /\ Settled(checkRoundEnd(passed, p))
  BY <1>2, CheckRoundEndSettled
<1> QED
  BY <1>3, StartPenaltyDrawSettled
     DEF deflection, deflectChallenge, deflectStack, answered, passed, played

(* A card goes on a stack only while the round is on.                       *)
LEMMA AttackCardSettled ==
    ASSUME NEW s, DOMAIN s = StateField, ~terminal(s),
           NEW p, NEW c, NEW chosen
    PROVE  Settled(putAttackCardOnStack(s, p, c, chosen))
<1> DEFINE played == withUnoFlagsAfterPlay(withCardDiscarded(s, p, c), p)
           colored == IF type[c] = "draw_two"
                      THEN [played EXCEPT !.currentColor = color[c]]
                      ELSE [played EXCEPT !.currentColor = chosen,
                                          !.chosenColor[c] = chosen]
           stacked == [colored EXCEPT
                         !.drawStack = @ + getCardDrawPenalty(c),
                         !.currentPlayerIndex =
                            getNextAliveIndex(s.eliminated, p, s.direction)]
<1>1. DOMAIN played = StateField /\ ~terminal(played)
  BY DEF StateField, terminal, withUnoFlagsAfterPlay, withCardDiscarded
<1> HIDE DEF played
<1>2. DOMAIN colored = StateField /\ ~terminal(colored)
  BY <1>1 DEF StateField, terminal
<1> HIDE DEF colored
<1>3. Settled(stacked)
  BY <1>2 DEF Settled, StateField, terminal
<1> HIDE DEF stacked
<1> QED
  BY <1>3, CheckRoundEndSettled
     DEF putAttackCardOnStack, stacked, colored, played

LEMMA StackingSettled ==
    ASSUME NEW s, Settled(s), NEW p, NEW c, NEW chosen,
           stackingAllowed(s, p, c, chosen), stackingClaims(s, p, c)
    PROVE  Settled(stacking(s, p, c, chosen))
<1> DEFINE answered == [s EXCEPT !.phase = "playing",
                                 !.pendingDrawPlayerId = null,
                                 !.drawStack = 4 + s.pendingRevengeDraws,
                                 !.pendingRevengeDraws = 0,
                                 !.currentPlayerIndex = p]
<1>1. DOMAIN answered = StateField /\ ~terminal(answered)
  BY DEF Settled, StateField, terminal, TerminalPhase
<1> HIDE DEF answered
<1>2. ~answersChallenge(s, p) => s.drawStack > 0 \/ s.phase = "playing"
  BY DEF stackingClaims, startsStack
<1>3. ~answersChallenge(s, p) => ~terminal(s)
  BY <1>2 DEF Settled, terminal, TerminalPhase
<1>4. DOMAIN s = StateField
  BY DEF Settled
<1> QED
  BY <1>1, <1>3, <1>4, AttackCardSettled DEF stacking, answered

LEMMA JumpInSettled ==
    ASSUME NEW s, Settled(s), NEW p, NEW c \in Deck, NEW chosen
    PROVE  Settled(jumpIn(s, p, c, chosen))
<1> DEFINE played == withCardDiscarded(s, p, c)
           next == getNextAliveIndex(played.eliminated, p, played.direction)
           afterNext == skipNextAliveIndex(played.eliminated, p,
                                           played.direction)
           toNext == [played EXCEPT !.currentPlayerIndex = next]
           colored == [toNext EXCEPT !.currentColor = color[c]]
           wildColored == withWildColor(toNext, c, chosen)
           attacked == IF chosen # null
                       THEN [withWildColor(played, c, chosen)
                               EXCEPT !.phase = "challenging"]
                       ELSE [played EXCEPT !.phase = "choosing_color"]
<1>1. Settled(played)
  BY WithCardDiscardedSettled
<1> HIDE DEF played
<1>2. type[c] \in CardType
  BY DeckAssumption
<1>3. Settled(withCardEffect(played, p, c))
  BY <1>1, WithCardEffectSettled
<1>4. Settled(toNext)
  BY <1>1 DEF Settled, StateField, terminal
<1> HIDE DEF toNext
<1>5. Settled(colored) /\ Settled(wildColored)
  BY <1>4 DEF Settled, StateField, terminal, withWildColor
<1> HIDE DEF colored, wildColored, next, afterNext
<1>6. Settled(startPenaltyDraw(colored, next, 2, afterNext, p))
  BY <1>5, StartPenaltyDrawSettled
<1>7. Settled(startPenaltyDraw(startPenaltyDraw(colored, next, 2, afterNext, p),
                               next, 2, afterNext, null))
  BY <1>6, StartPenaltyDrawSettled
<1>8. Settled([played EXCEPT !.phase = "choosing_color",
                             !.currentPlayerIndex = p])
  BY <1>1 DEF Settled, StateField, terminal, TerminalPhase
<1>9. Settled([attacked EXCEPT !.currentPlayerIndex = p,
                               !.pendingDrawPlayerId = next])
  <2>1. DOMAIN attacked = StateField /\ ~terminal(attacked)
    BY <1>1 DEF Settled, StateField, terminal, TerminalPhase, withWildColor
  <2> HIDE DEF attacked
  <2> QED
    BY <2>1 DEF Settled, StateField, terminal
<1>10. ASSUME NEW hands
       PROVE  /\ Settled([colored EXCEPT !.hand = hands])
              /\ Settled([colored EXCEPT !.phase = "choosing_swap_target",
                                         !.currentPlayerIndex = p])
  BY <1>5 DEF Settled, StateField, terminal, TerminalPhase
<1>11. Settled(withJumpInEffect(played, s, p, c, chosen))
  BY <1>2, <1>3, <1>5, <1>6, <1>7, <1>8, <1>9, <1>10
     DEF withJumpInEffect, CardType, next, afterNext, toNext, colored,
         wildColored, attacked
<1> QED
  BY <1>11, CheckRoundEndSettled DEF jumpIn, played

LEMMA ResolveStackSettled ==
    ASSUME NEW s, Settled(s), NEW p, NEW side, NEW card
    PROVE  Settled(resolveStack(s, p, side, card))
<1>1. Settled([s EXCEPT !.drawStack = 0,
                        !.lastAction = Acted("DRAW_CARD", p)])
  BY DEF Settled, StateField, terminal
<1> QED
  BY <1>1, StartPenaltyDrawSettled, HandleDrawCardSettled DEF resolveStack

LEMMA MultiPlayPassSettled ==
    ASSUME NEW s, Settled(s), NEW p
    PROVE  Settled(multiPlayPass(s, p))
<1> DEFINE next == getNextAliveIndex(s.eliminated, p, s.direction)
           passed == [s EXCEPT !.currentPlayerIndex = next,
                               !.lastAction = Acted("PASS", p)]
<1>1. Settled(passed)
  BY DEF Settled, StateField, terminal
<1> HIDE DEF passed
<1>2. ASSUME NEW more
      PROVE  Settled([passed EXCEPT !.pendingPenaltyQueue = @ \o more])
  BY <1>1 DEF Settled, StateField, terminal
<1> QED
  BY <1>1, <1>2, DrainPenaltyQueueSettled DEF multiPlayPass, passed, next

LEMMA ChooseSwapTargetSettled ==
    ASSUME NEW s, Settled(s), NEW p, NEW target
    PROVE  Settled(chooseSwapTarget(s, p, target))
<1>1. ASSUME NEW hands, NEW called, NEW caught, NEW turn
      PROVE  Settled([s EXCEPT !.hand = hands, !.calledUno = called,
                               !.unoCaught = caught, !.phase = "playing",
                               !.currentPlayerIndex = turn,
                               !.lastAction = Acted("CHOOSE_SWAP_TARGET", p)])
  BY DEF Settled, StateField, terminal, TerminalPhase
<1> QED
  BY <1>1, DrainPenaltyQueueSettled DEF chooseSwapTarget

(***************************************************************************)
(* The actions                                                             *)
(***************************************************************************)
SettledState == Settled(state)

LEMMA DealtStateSettled ==
    ASSUME NEW d, NEW rules, NEW eliminated, NEW score, NEW roundWins,
           NEW teamId, NEW first, NEW round
    PROVE  /\ Settled(dealtState(d, rules, eliminated, score, roundWins, teamId,
                                 first, round))
           /\ dealtState(d, rules, eliminated, score, roundWins, teamId,
                         first, round).roundNumber = round
BY DEF Settled, StateField, terminal, TerminalPhase, dealtState

LEMMA TurnActionSettled ==
    ASSUME Sound(state), Settled(state), NEW p \in Seat, TurnAction(p)
    PROVE  Settled(state')
<1>1. state.hand[p] \in SUBSET Deck
  BY DEF Sound, IsGameState
<1>2. ASSUME NEW c \in state.hand[p],
             \/ PlayCard(p, c)
             \/ ForfeitFinishRestriction(p, c)
             \/ Deflect(p, c)
             \/ ForcedPlayWithoutDraw(p, c)
      PROVE  Settled(state')
  <2>1. c \in Deck
    BY <1>1
  <2>2. CASE PlayCard(p, c)
    BY <2>1, <2>2, HandlePlayCardSettled, PostProcessPlaySettled DEF PlayCard
  <2>3. CASE ForfeitFinishRestriction(p, c)
    BY <2>3, HandlePassSettled, HandledPlaySettled DEF ForfeitFinishRestriction
  <2>4. CASE Deflect(p, c)
    BY <2>4, DeflectionSettled, HandledPlaySettled DEF Deflect
  <2>5. CASE ForcedPlayWithoutDraw(p, c)
    BY <2>1, <2>5, PostProcessDrawSettled DEF ForcedPlayWithoutDraw
  <2> QED
    BY <1>2, <2>2, <2>3, <2>4, <2>5
<1>3. ASSUME NEW c \in state.hand[p], NEW chosen \in Color \cup {null},
             Stack(p, c, chosen)
      PROVE  Settled(state')
  BY <1>3, StackingSettled, HandledPlaySettled DEF Stack
<1>4. ASSUME NEW c \in state.hand[p], NEW card, PayFinishRestriction(p, c, card)
      PROVE  Settled(state')
  BY <1>4, DrawCardsSettled, HandledPlaySettled
     DEF PayFinishRestriction, finishPenaltyCard
<1>5. ASSUME NEW side \in DrawSide, NEW card \in drawnCards(p, side),
             \/ DrawCard(p, side, card)
             \/ DrawUntilPlayable(p, side, card)
             \/ TakeStack(p, side, card)
      PROVE  Settled(state')
  <2>1. card \in Deck
    BY DrawnCardsAreCards
  <2>2. CASE DrawCard(p, side, card)
    BY <2>1, <2>2, HandleDrawCardSettled, PostProcessDrawSettled DEF DrawCard
  <2>3. CASE DrawUntilPlayable(p, side, card)
    BY <2>3, HandleDrawCardSettled DEF DrawUntilPlayable
  <2>4. CASE TakeStack(p, side, card)
    BY <2>4, ResolveStackSettled, SettleRoundSettled DEF TakeStack
  <2> QED
    BY <1>5, <2>2, <2>3, <2>4
<1>6. CASE Pass(p)
  BY <1>6, HandlePassSettled, SettleRoundSettled DEF Pass
<1>7. CASE EndMultiPlay(p)
  BY <1>7, MultiPlayPassSettled DEF EndMultiPlay
<1>8. ASSUME NEW chosen \in Color,
             ChooseColor(p, chosen) \/ ChooseColorUnchallenged(p, chosen)
      PROVE  Settled(state')
  BY <1>8, HandleChooseColorSettled, SettleWildDrawFourSettled
     DEF ChooseColor, ChooseColorUnchallenged, chooseColorUnchallenged
<1>9. CASE Challenge(p) \/ Accept(p)
  BY <1>9, AnswersSettled DEF Challenge, Accept
<1>10. ASSUME NEW target \in Seat, ChooseSwapTarget(p, target)
       PROVE  Settled(state')
  BY <1>10, ChooseSwapTargetSettled DEF ChooseSwapTarget
<1> QED
  BY <1>2, <1>3, <1>4, <1>5, <1>6, <1>7, <1>8, <1>9, <1>10 DEF TurnAction

LEMMA SideActionSettled ==
    ASSUME Sound(state), Settled(state), NEW p \in Seat, SideAction(p)
    PROVE  Settled(state')
<1>1. ASSUME NEW c \in state.hand[p], NEW chosen \in Color \cup {null},
             JumpIn(p, c, chosen)
      PROVE  Settled(state')
  <2>1. c \in Deck
    BY DEF Sound, IsGameState
  <2> QED
    BY <1>1, <2>1, JumpInSettled, HandledPlaySettled DEF JumpIn
<1>2. ASSUME NEW c \in Deck, Misplay(p, c) PROVE Settled(state')
  BY <1>2, StartPenaltyDrawSettled, HandledPlaySettled
     DEF Misplay, misplayPenalty
<1>3. CASE CallUno(p)
  BY <1>3, HandleCallUnoSettled DEF CallUno
<1>4. CASE CatchUno(p)
  BY <1>4, HandleCatchUnoSettled DEF CatchUno
<1> QED
  BY <1>1, <1>2, <1>3, <1>4 DEF SideAction

(* No stack of draws is left on a finished round, whatever ended it.        *)
THEOREM AlwaysSettled == Spec => []SettledState
<1>1. Init => SettledState
  BY DealtStateSettled DEF Init, initializeGame, SettledState
<1>2. SoundState /\ SettledState /\ [Next]_vars => SettledState'
  <2> SUFFICES ASSUME Sound(state), Settled(state), [Next]_vars
               PROVE  Settled(state')
    BY DEF SoundState, SettledState
  <2>1. ASSUME NEW p \in Seat, TurnAction(p) \/ SideAction(p)
        PROVE  Settled(state')
    BY <2>1, TurnActionSettled, SideActionSettled
  <2>2. CASE NextRound
    BY <2>2, DealtStateSettled
       DEF NextRound, StartNextRound, initializeNextRound
  <2>3. CASE UNCHANGED vars
    BY <2>3 DEF vars
  <2> QED
    BY <2>1, <2>2, <2>3 DEF Next
<1> QED
  BY <1>1, <1>2, AlwaysSound, PTL DEF Spec

(***************************************************************************)
(* The result                                                              *)
(***************************************************************************)
SameResult(s, t) ==
    /\ t.phase = s.phase /\ t.winnerId = s.winnerId
    /\ t.score = s.score /\ t.roundWins = s.roundWins
    /\ t.eliminated = s.eliminated

(* What the player on turn can still do on a finished round: pay a card for *)
(* a last card the finish rules forbid him to play.                         *)
LEMMA TurnActionKeepsResult ==
    ASSUME Settled(state), terminal(state), NEW p \in Seat, TurnAction(p)
    PROVE  SameResult(state, state')
<1>1. /\ state.phase \notin {"playing", "choosing_color", "challenging",
                             "choosing_swap_target"}
      /\ state.drawStack = 0
  BY DEF Settled, terminal, TerminalPhase
<1>2. /\ \A c : ~playCardAllowed(state, p, c)
      /\ ~drawCardAllowed(state, p) /\ ~passAllowed(state, p)
  BY <1>1 DEF playCardAllowed, drawCardAllowed, passAllowed
<1>3. /\ \A c : ~deflectionClaims(state, p, c) /\ ~stackingClaims(state, p, c)
      /\ ~stackingClaimsDraw(state)
  BY <1>1 DEF deflectionClaims, stackingClaims, answersChallenge, startsStack,
              stackingClaimsDraw
<1>4. ASSUME NEW c, NEW card, PayFinishRestriction(p, c, card)
      PROVE  SameResult(state, state')
  <2> DEFINE drawn == drawCards(state, p, LongerSide(state), card)
  <2>1. drawn.phase = state.phase /\ SameResult(state, drawn)
    BY DrawCardsKeepsResult DEF Settled, SameResult
  <2>2. state' = handledPlay(state, drawn, c)
    BY <1>4 DEF PayFinishRestriction, finishPenaltyCard
  <2> HIDE DEF drawn
  <2>3. drainPenaltyQueue(drawn) = drawn
    BY <1>1, <2>1 DEF drainPenaltyQueue
  <2> QED
    BY <2>1, <2>2, <2>3 DEF handledPlay
<1>5. \A c, chosen, card, side, target :
         /\ ~PlayCard(p, c) /\ ~ForfeitFinishRestriction(p, c)
         /\ ~Deflect(p, c) /\ ~Stack(p, c, chosen)
         /\ ~ForcedPlayWithoutDraw(p, c)
         /\ ~DrawCard(p, side, card) /\ ~DrawUntilPlayable(p, side, card)
         /\ ~TakeStack(p, side, card)
         /\ ~Pass(p) /\ ~EndMultiPlay(p)
         /\ ~ChooseColor(p, chosen) /\ ~ChooseColorUnchallenged(p, chosen)
         /\ ~Challenge(p) /\ ~Accept(p)
         /\ ~ChooseSwapTarget(p, target)
  BY <1>1, <1>2, <1>3
     DEF PlayCard, ForfeitFinishRestriction, Deflect, Stack,
         ForcedPlayWithoutDraw, DrawCard, DrawUntilPlayable, TakeStack, Pass,
         EndMultiPlay, multiPlayPassClaims, ChooseColor,
         ChooseColorUnchallenged, chooseColorAllowed, Challenge,
         challengeAllowed, respondAllowed, Accept, ChooseSwapTarget,
         chooseSwapTargetAllowed
<1> QED
  BY <1>4, <1>5 DEF TurnAction

(* What the others can: call UNO, and catch a player without a call.        *)
LEMMA SideActionKeepsResult ==
    ASSUME Settled(state), terminal(state), NEW p \in Seat, SideAction(p)
    PROVE  SameResult(state, state')
<1>1. state.phase # "playing"
  BY DEF terminal, TerminalPhase
<1>2. \A c, chosen : ~JumpIn(p, c, chosen) /\ ~Misplay(p, c)
  BY <1>1 DEF JumpIn, jumpInClaims, Misplay, misplayPenaltyClaims
<1>3. CASE CallUno(p)
  BY <1>3 DEF CallUno, handleCallUno, SameResult, Settled, StateField
<1>4. CASE CatchUno(p)
  <2> DEFINE caught == [state EXCEPT !.unoCaught[p] = TRUE,
                                     !.lastAction = Acted("CATCH_UNO", null)]
             count == IF On(state, "unoPenaltyCount") THEN UnoPenaltyCount
                                                      ELSE 2
  <2>1. /\ DOMAIN caught = StateField
        /\ caught.phase = state.phase /\ SameResult(state, caught)
    BY DEF Settled, SameResult, StateField
  <2>2. state' = startPenaltyDraw(caught, p, count, state.currentPlayerIndex,
                                  null)
    BY <1>4 DEF CatchUno, handleCatchUno
  <2> HIDE DEF caught, count
  <2> QED
    BY <1>1, <2>1, <2>2 DEF startPenaltyDraw, SameResult, StateField
<1> QED
  BY <1>2, <1>3, <1>4 DEF SideAction

(* A finished round stays as it was decided until the next one is dealt:    *)
(* whatever arrives late, the phase, the winner, the points and the seats   *)
(* still in the game do not change.                                         *)
THEOREM ResultNeverChanges == Spec => ResultIsFinal
<1> DEFINE Final == terminal(state) /\ state'.roundNumber = state.roundNumber
                    => SameResult(state, state')
<1>1. SoundState /\ SettledState /\ [Next]_vars => Final
  <2> SUFFICES ASSUME Sound(state), Settled(state), [Next]_vars,
                      terminal(state),
                      state'.roundNumber = state.roundNumber
               PROVE  SameResult(state, state')
    BY DEF SoundState, SettledState
  <2>1. ASSUME NEW p \in Seat, TurnAction(p) \/ SideAction(p)
        PROVE  SameResult(state, state')
    BY <2>1, TurnActionKeepsResult, SideActionKeepsResult
  <2>2. ~NextRound
    <3>1. NextRound => state'.roundNumber = state.roundNumber + 1
      BY DealtStateSettled DEF NextRound, StartNextRound, initializeNextRound
    <3>2. state.roundNumber \in Nat
      BY DEF Sound, IsGameState
    <3> QED
      BY <3>1, <3>2
  <2>3. CASE UNCHANGED vars
    BY <2>3 DEF vars, SameResult
  <2> QED
    BY <2>1, <2>2, <2>3 DEF Next
<1>2. SoundState /\ SettledState /\ [Next]_vars =>
         [terminal(state) /\ state'.roundNumber = state.roundNumber =>
            /\ state'.phase = state.phase
            /\ state'.winnerId = state.winnerId
            /\ state'.score = state.score
            /\ state'.roundWins = state.roundWins
            /\ state'.eliminated = state.eliminated]_vars
  BY <1>1 DEF SameResult
<1> QED
  BY <1>2, AlwaysSound, AlwaysSettled, PTL DEF Spec, ResultIsFinal

(***************************************************************************)
(* The errors the engine may throw                                         *)
(*                                                                         *)
(* The rules that forbid a last card make a player draw in any phase.  The *)
(* draw may take the discards a challenge is judged by back into the deck. *)
(* Without them a deck is refilled only while the game is in the playing   *)
(* phase, and the discards tell every colour the handlers ask for.         *)
(***************************************************************************)
FinishRestriction == {"noFunctionCardFinish", "noWildFinish"}

StackingRule == {"stackDrawTwo", "stackDrawFour", "crossStack"}

Discards(pile, chosen) ==
    /\ pile \in Seq(Deck) /\ Len(pile) >= 1
    /\ chosen \in [Wild -> Color \cup {null}]

(* Every wild card of the pile shows the colour chosen for it.              *)
Open(pile, chosen, current) ==
    /\ Discards(pile, chosen)
    /\ \A i \in 1..Len(pile) : isWildCard(pile[i]) => chosen[pile[i]] # null
    /\ current # null

(* Every one but the last, for which a colour is being chosen.              *)
Asked(pile, chosen) ==
    /\ Discards(pile, chosen)
    /\ \A i \in 1..(Len(pile) - 1) :
          isWildCard(pile[i]) => chosen[pile[i]] # null
    /\ isWildCard(pile[Len(pile)])

FourOnTop(pile) ==
    Len(pile) >= 2 /\ type[pile[Len(pile)]] = "wild_draw_four"

(* What the fields of an unfinished round tell the handlers in each phase.  *)
Told(phase, pile, chosen, current, stack, victim, rules) ==
    \/ /\ phase \in {"playing", "choosing_swap_target"}
       /\ Open(pile, chosen, current)
       /\ victim = null
       /\ stack # 0 => phase = "playing" /\ rules \cap StackingRule # {}
       /\ phase = "choosing_swap_target" => "sevenSwapHands" \in rules
    \/ /\ phase = "choosing_color"
       /\ Asked(pile, chosen)
       /\ stack = 0
       /\ victim # null => FourOnTop(pile)
    \/ /\ phase = "challenging"
       /\ Open(pile, chosen, current)
       /\ stack = 0
       /\ victim # null /\ FourOnTop(pile)

Clear(s) ==
    /\ DOMAIN s = StateField
    /\ ~terminal(s) => Told(s.phase, s.discardPile, s.chosenColor,
                            s.currentColor, s.drawStack,
                            s.pendingDrawPlayerId, s.houseRules)

(* A round in the playing phase with no stack to answer.                    *)
Free(s) == Clear(s) /\ s.phase = "playing" /\ s.drawStack = 0

LEMMA DiscardColored ==
    ASSUME NEW pile, NEW chosen, NEW current, Open(pile, chosen, current),
           NEW c \in Deck, ~isWildCard(c)
    PROVE  Open(Append(pile, c), chosen, color[c])
<1>1. color[c] # null
  BY DeckAssumption
<1> QED
  BY <1>1 DEF Open, Discards

LEMMA DiscardWild ==
    ASSUME NEW pile, NEW chosen, NEW current, Open(pile, chosen, current),
           NEW c \in Deck, isWildCard(c)
    PROVE  /\ Asked(Append(pile, c), chosen)
           /\ type[c] = "wild_draw_four" => FourOnTop(Append(pile, c))
BY DEF Open, Asked, Discards, FourOnTop

LEMMA AskedIsWild ==
    ASSUME NEW pile, NEW chosen, Asked(pile, chosen)
    PROVE  pile[Len(pile)] \in Wild
<1>1. pile[Len(pile)] \in Deck
  BY DEF Asked, Discards
<1> QED
  BY <1>1 DEF Asked, Wild

LEMMA ChooseAsked ==
    ASSUME NEW pile, NEW chosen, Asked(pile, chosen), NEW k \in Color
    PROVE  Open(pile, [chosen EXCEPT ![pile[Len(pile)]] = k], k)
<1>1. k # null
  BY DeckAssumption
<1>2. \A i \in 1..Len(pile) : i \in 1..(Len(pile) - 1) \/ i = Len(pile)
  BY DEF Asked, Discards
<1>3. pile[Len(pile)] \in Wild
  BY AskedIsWild
<1>4. \A i \in 1..Len(pile) : isWildCard(pile[i]) => pile[i] \in Wild
  BY DEF Asked, Discards, Wild
<1> QED
  BY <1>1, <1>2, <1>3, <1>4 DEF Asked, Open, Discards

LEMMA DiscardColoredWild ==
    ASSUME NEW pile, NEW chosen, NEW current, Open(pile, chosen, current),
           NEW c \in Deck, isWildCard(c), NEW k \in Color
    PROVE  Open(Append(pile, c), [chosen EXCEPT ![c] = k], k)
<1>1. Asked(Append(pile, c), chosen)
  BY DiscardWild
<1>2. Append(pile, c)[Len(Append(pile, c))] = c
  BY DEF Open, Discards
<1> QED
  BY <1>1, <1>2, ChooseAsked

(* A refill takes the oldest discards, none of which remains.               *)
LEMMA RefillLeavesOpen ==
    ASSUME NEW pile, NEW chosen, NEW current, Open(pile, chosen, current),
           \A i, j \in 1..Len(pile) : pile[i] = pile[j] => i = j,
           NEW k \in Nat, k < Len(pile), NEW taken,
           taken = {pile[i] : i \in 1..k}
    PROVE  Open(SubSeq(pile, k + 1, Len(pile)),
                [w \in Wild |-> IF w \in taken THEN null ELSE chosen[w]],
                current)
<1> DEFINE rest == SubSeq(pile, k + 1, Len(pile))
           cleared == [w \in Wild |-> IF w \in taken THEN null ELSE chosen[w]]
<1>1. /\ rest \in Seq(Deck) /\ Len(rest) = Len(pile) - k
      /\ \A i \in 1..Len(rest) : rest[i] = pile[i + k] /\ i + k \in 1..Len(pile)
  BY DEF Open, Discards
<1>2. cleared \in [Wild -> Color \cup {null}]
  BY DEF Open, Discards
<1>3. \A i \in 1..Len(rest) : rest[i] \notin taken
  <2> SUFFICES ASSUME NEW i \in 1..Len(rest), NEW j \in 1..k,
                      rest[i] = pile[j]
               PROVE  FALSE
    OBVIOUS
  <2>1. j \in 1..Len(pile) /\ pile[i + k] = pile[j]
    BY <1>1 DEF Open, Discards
  <2>2. i + k = j
    BY <1>1, <2>1
  <2> QED
    BY <2>2
<1>4. \A i \in 1..Len(rest) :
         isWildCard(rest[i]) => rest[i] \in Wild /\ chosen[rest[i]] # null
  BY <1>1 DEF Open, Discards, Wild
<1>5. Len(rest) >= 1
  BY <1>1 DEF Open, Discards
<1> HIDE DEF rest
<1>6. \A i \in 1..Len(rest) : isWildCard(rest[i]) => cleared[rest[i]] # null
  BY <1>3, <1>4
<1>7. current # null
  BY DEF Open
<1> HIDE DEF cleared
<1>8. Open(rest, cleared, current)
  BY <1>1, <1>2, <1>5, <1>6, <1>7 DEF Open, Discards
<1> QED
  BY <1>8 DEF rest, cleared

(***************************************************************************)
(* Steps that change none of these fields, or end the round                *)
(***************************************************************************)
LEMMA CheckRoundEndClear ==
    ASSUME NEW s, Clear(s), NEW p
    PROVE  /\ Clear(checkRoundEnd(s, p))
           /\ ~terminal(checkRoundEnd(s, p)) => checkRoundEnd(s, p) = s
<1> DEFINE total == s.score[p] + RoundScore(s, p)
           decided == [s EXCEPT !.score[p] = total,
                                !.roundWins[p] = @ + 1,
                                !.phase = IF total >= TargetScore
                                          THEN "game_over" ELSE "round_end",
                                !.winnerId = p]
<1>1. DOMAIN decided = StateField /\ decided.phase \in TerminalPhase
  BY DEF Clear, StateField, TerminalPhase
<1> HIDE DEF decided
<1>2. LET t == withPenaltyStateDefaults(decided)
      IN  DOMAIN t = StateField /\ terminal(t)
  BY <1>1 DEF withPenaltyStateDefaults, StateField, terminal
<1> QED
  BY <1>2 DEF checkRoundEnd, decided, Clear

(* A penalty that starts or waits.                                          *)
LEMMA StartPenaltyDrawClear ==
    ASSUME NEW s, Clear(s), NEW p, NEW count, NEW next, NEW source
    PROVE  LET t == startPenaltyDraw(s, p, count, next, source)
           IN  /\ Clear(t)
               /\ t.phase = s.phase /\ t.drawStack = s.drawStack
               /\ t.discardPile = s.discardPile
               /\ t.deckInitialCount = s.deckInitialCount
               /\ t.pendingDrawPlayerId = s.pendingDrawPlayerId
BY DEF Clear, StateField, terminal, startPenaltyDraw

LEMMA StartQueuedPenaltyClear ==
    ASSUME NEW s, Clear(s)
    PROVE  Clear(startQueuedPenalty(s))
<1>1. Clear([s EXCEPT !.pendingPenaltyQueue = Tail(@)])
  BY DEF Clear, StateField, terminal
<1> QED
  BY <1>1, StartPenaltyDrawClear DEF startQueuedPenalty

LEMMA DrainPenaltyQueueClear ==
    ASSUME NEW s, Clear(s)
    PROVE  Clear(drainPenaltyQueue(s))
BY StartQueuedPenaltyClear DEF drainPenaltyQueue

LEMMA FinishPenaltyDrawClear ==
    ASSUME NEW s, Clear(s), NEW lastAction
    PROVE  Clear(finishPenaltyDrawIfNeeded(s, lastAction))
<1> DEFINE paid == [s EXCEPT !.pendingPenaltyDraws = 0,
                             !.pendingPenaltyNextPlayerIndex = null,
                             !.pendingPenaltySourcePlayerId = null,
                             !.lastAction = lastAction]
           finished == [paid EXCEPT
                          !.currentPlayerIndex = s.pendingPenaltyNextPlayerIndex]
<1>1. Clear(paid)
  BY DEF Clear, StateField, terminal
<1> HIDE DEF paid
<1>2. Clear(finished)
  BY <1>1 DEF Clear, StateField, terminal
<1> HIDE DEF finished
<1>3. Clear([s EXCEPT !.pendingPenaltyDraws = @ - 1,
                      !.lastAction = lastAction])
  BY DEF Clear, StateField, terminal
<1> QED
  BY <1>1, <1>2, <1>3, StartQueuedPenaltyClear, CheckRoundEndClear
     DEF finishPenaltyDrawIfNeeded, paid, finished

(* Nothing is pending once a turn is given up in the playing phase.         *)
LEMMA DefaultsClear ==
    ASSUME NEW s, Clear(s), s.phase = "playing"
    PROVE  Clear(withPenaltyStateDefaults(s))
BY DEF Clear, Told, StateField, terminal, TerminalPhase,
       withPenaltyStateDefaults

LEMMA HandlePassClear ==
    ASSUME NEW s, Clear(s), s.phase = "playing", NEW p
    PROVE  Clear(handlePass(s, p))
<1> DEFINE passed == [s EXCEPT !.lastAction = Acted("PASS", p)]
           advanced == [passed EXCEPT !.currentPlayerIndex =
                          getNextAliveIndex(s.eliminated, p, s.direction)]
           ended == [passed EXCEPT !.phase = "round_end", !.winnerId = null]
<1>1. Clear(passed) /\ passed.phase = "playing"
  BY DEF Clear, StateField, terminal
<1> HIDE DEF passed
<1>2. Clear(advanced) /\ advanced.phase = "playing"
  BY <1>1 DEF Clear, StateField, terminal
<1> HIDE DEF advanced
<1>3. DOMAIN ended = StateField /\ ended.phase \in TerminalPhase
  BY <1>1 DEF Clear, StateField, TerminalPhase
<1> HIDE DEF ended
<1>4. Clear(withPenaltyStateDefaults(ended))
  BY <1>3 DEF Clear, StateField, terminal, withPenaltyStateDefaults
<1>5. Clear(withPenaltyStateDefaults(advanced))
  BY <1>2, DefaultsClear
<1> QED
  BY <1>2, <1>4, <1>5 DEF handlePass, passed, advanced, ended

(***************************************************************************)
(* Draws                                                                   *)
(***************************************************************************)
LEMMA WithSideRefilledClear ==
    ASSUME NEW s, Clear(s), s.phase = "playing", NEW side,
           s.deckInitialCount[side] \in Nat,
           \A i, j \in 1..Len(s.discardPile) :
              s.discardPile[i] = s.discardPile[j] => i = j
    PROVE  /\ Clear(withSideRefilled(s, side))
           /\ withSideRefilled(s, side).phase = "playing"
<1> DEFINE pile == s.discardPile
           available == Len(pile) - 1
           takeCount == IF s.deckInitialCount[side] < available
                        THEN s.deckInitialCount[side] ELSE available
           taken == {pile[i] : i \in 1..takeCount}
           rest == SubSeq(pile, takeCount + 1, Len(pile))
           cleared == [w \in Wild |-> IF w \in taken THEN null
                                                     ELSE s.chosenColor[w]]
           refilled == [s EXCEPT !.deck[side] = taken, !.discardPile = rest,
                                 !.chosenColor = cleared]
<1>1. ~terminal(s) /\ DOMAIN s = StateField
  BY DEF Clear, terminal, TerminalPhase
<1>2. /\ Open(pile, s.chosenColor, s.currentColor)
      /\ s.pendingDrawPlayerId = null
      /\ s.drawStack # 0 => s.houseRules \cap StackingRule # {}
  BY <1>1 DEF Clear, Told
<1>3. Len(pile) \in Nat /\ Len(pile) >= 1
  BY <1>2 DEF Open, Discards
<1>4. takeCount \in Nat /\ takeCount < Len(pile)
  BY <1>3
<1> HIDE DEF takeCount
<1>5. Open(rest, cleared, s.currentColor)
  BY <1>2, <1>4, RefillLeavesOpen
<1> HIDE DEF rest, cleared, taken
<1>6. Clear(refilled) /\ refilled.phase = "playing"
  BY <1>1, <1>2, <1>5 DEF Clear, Told, StateField
<1> HIDE DEF refilled
<1> QED
  BY <1>6 DEF withSideRefilled, refilled, rest, cleared, taken, takeCount

LEMMA DrawCardsClear ==
    ASSUME NEW s, Clear(s), s.phase = "playing", NEW p, NEW side, NEW card,
           s.deckInitialCount[side] \in Nat,
           \A i, j \in 1..Len(s.discardPile) :
              s.discardPile[i] = s.discardPile[j] => i = j
    PROVE  /\ Clear(drawCards(s, p, side, card))
           /\ drawCards(s, p, side, card).phase = "playing"
<1> DEFINE refilled == withSideRefilled(s, side)
<1>1. Clear(refilled) /\ refilled.phase = "playing"
  BY WithSideRefilledClear
<1> HIDE DEF refilled
<1>2. LET t == [refilled EXCEPT !.deck[side] = @ \ {card},
                                !.hand[p] = @ \cup {card},
                                !.calledUno[p] = FALSE,
                                !.unoCaught[p] = FALSE]
      IN  Clear(t) /\ t.phase = "playing"
  BY <1>1 DEF Clear, StateField, terminal
<1> QED
  BY <1>1, <1>2 DEF drawCards, refilled

LEMMA HandleDrawCardClear ==
    ASSUME NEW s, Clear(s), s.phase = "playing", NEW p, NEW side, NEW card,
           s.deckInitialCount[side] \in Nat,
           \A i, j \in 1..Len(s.discardPile) :
              s.discardPile[i] = s.discardPile[j] => i = j
    PROVE  Clear(handleDrawCard(s, p, side, card))
<1> DEFINE drawn == drawCards(s, p, side, card)
<1>1. Clear(drawn)
  BY DrawCardsClear
<1> HIDE DEF drawn
<1>2. Clear([drawn EXCEPT !.lastAction = Acted("DRAW_CARD", p)])
  BY <1>1 DEF Clear, StateField, terminal
<1> QED
  BY <1>1, <1>2, FinishPenaltyDrawClear DEF handleDrawCard, drawn

(* The whole stack becomes a penalty, and its first card is drawn.          *)
LEMMA ResolveStackClear ==
    ASSUME NEW s, Clear(s), s.phase = "playing", NEW p, NEW side, NEW card,
           s.deckInitialCount[side] \in Nat,
           \A i, j \in 1..Len(s.discardPile) :
              s.discardPile[i] = s.discardPile[j] => i = j
    PROVE  Clear(resolveStack(s, p, side, card))
<1> DEFINE none == [s EXCEPT !.drawStack = 0,
                             !.lastAction = Acted("DRAW_CARD", p)]
<1>1. /\ Clear(none) /\ none.phase = "playing"
      /\ none.discardPile = s.discardPile
      /\ none.deckInitialCount = s.deckInitialCount
  BY DEF Clear, Told, StateField, terminal, TerminalPhase
<1> HIDE DEF none
<1>2. \A count, next, source :
         LET t == startPenaltyDraw(none, p, count, next, source)
         IN  /\ Clear(t) /\ t.phase = "playing"
             /\ t.discardPile = s.discardPile
             /\ t.deckInitialCount = s.deckInitialCount
  BY <1>1, StartPenaltyDrawClear
<1>3. \A count, next, source :
         Clear(handleDrawCard(startPenaltyDraw(none, p, count, next, source),
                              p, side, card))
  BY <1>2, HandleDrawCardClear
<1> QED
  BY <1>3 DEF resolveStack, none

(***************************************************************************)
(* Plays                                                                   *)
(***************************************************************************)
LEMMA FreeIsOpen ==
    ASSUME NEW s, Free(s)
    PROVE  /\ DOMAIN s = StateField /\ ~terminal(s)
           /\ Open(s.discardPile, s.chosenColor, s.currentColor)
           /\ s.pendingDrawPlayerId = null
BY DEF Free, Clear, Told, terminal, TerminalPhase

(* A card played with no stack to answer asks for a colour when it is wild. *)
(* s is the state after the card c went to the discard pile.                *)
LEMMA CardEffectClear ==
    ASSUME NEW s, DOMAIN s = StateField, s.phase = "playing",
           s.drawStack = 0, s.pendingDrawPlayerId = null,
           NEW pile, NEW current, NEW c \in Deck,
           Open(pile, s.chosenColor, current),
           s.discardPile = Append(pile, c), NEW p
    PROVE  /\ Clear(withCardEffect(s, p, c))
           /\ ~isWildCard(c) => Free(withCardEffect(s, p, c))
<1> DEFINE next == getNextAliveIndex(s.eliminated, p, s.direction)
           afterNext == skipNextAliveIndex(s.eliminated, p, s.direction)
           colored == [s EXCEPT !.currentColor = color[c]]
<1>1. type[c] \in CardType
  BY DeckAssumption
<1>2. CASE isWildCard(c)
  <2>1. /\ Asked(s.discardPile, s.chosenColor)
        /\ type[c] = "wild_draw_four" => FourOnTop(s.discardPile)
    BY <1>2, DiscardWild
  <2>2. CASE type[c] = "wild"
    <3>1. withCardEffect(s, p, c) = [s EXCEPT !.phase = "choosing_color"]
      BY <2>2 DEF withCardEffect
    <3> QED
      BY <1>2, <2>1, <3>1 DEF Clear, Told, StateField
  <2>3. CASE type[c] = "wild_draw_four"
    <3>1. withCardEffect(s, p, c) = [s EXCEPT !.phase = "choosing_color",
                                              !.pendingDrawPlayerId = next]
      BY <2>3 DEF withCardEffect
    <3> QED
      BY <1>2, <2>1, <2>3, <3>1 DEF Clear, Told, StateField
  <2> QED
    BY <1>2, <2>2, <2>3 DEF isWildCard
<1>3. CASE ~isWildCard(c)
  <2>1. Open(s.discardPile, s.chosenColor, color[c])
    BY <1>3, DiscardColored
  <2>2. Free(colored)
    BY <2>1 DEF Free, Clear, Told, StateField
  <2>3. ASSUME NEW turn, NEW direction
        PROVE  /\ Free([s EXCEPT !.currentColor = color[c],
                                 !.currentPlayerIndex = turn])
               /\ Free([s EXCEPT !.currentColor = color[c],
                                 !.direction = direction,
                                 !.currentPlayerIndex = turn])
    BY <2>1 DEF Free, Clear, Told, StateField
  <2> HIDE DEF colored
  <2>4. Free(startPenaltyDraw(colored, next, 2, afterNext, p))
    BY <2>2, StartPenaltyDrawClear DEF Free
  <2> HIDE DEF next, afterNext
  <2>5. Free(withCardEffect(s, p, c))
    BY <1>1, <1>3, <2>3, <2>4
       DEF withCardEffect, CardType, isWildCard, colored, next, afterNext
  <2> QED
    BY <1>3, <2>5 DEF Free
<1> QED
  BY <1>2, <1>3

LEMMA DiscardKeeps ==
    ASSUME NEW s, DOMAIN s = StateField, NEW p, NEW c
    PROVE  /\ \A t \in {withCardDiscarded(s, p, c),
                     withUnoFlagsAfterPlay(withCardDiscarded(s, p, c), p)} :
              /\ DOMAIN t = StateField
              /\ t.discardPile = Append(s.discardPile, c)
              /\ t.phase = s.phase /\ t.drawStack = s.drawStack
              /\ t.chosenColor = s.chosenColor
              /\ t.pendingDrawPlayerId = s.pendingDrawPlayerId
              /\ t.houseRules = s.houseRules
<1> DEFINE played == withCardDiscarded(s, p, c)
           Kept(t) == /\ DOMAIN t = StateField
                      /\ t.discardPile = Append(s.discardPile, c)
                      /\ t.phase = s.phase /\ t.drawStack = s.drawStack
                      /\ t.chosenColor = s.chosenColor
                      /\ t.pendingDrawPlayerId = s.pendingDrawPlayerId
                      /\ t.houseRules = s.houseRules
<1>1. Kept(played)
  BY DEF withCardDiscarded, StateField
<1> HIDE DEF played
<1>2. Kept(withUnoFlagsAfterPlay(played, p))
  BY <1>1 DEF withUnoFlagsAfterPlay, StateField
<1> QED
  BY <1>1, <1>2 DEF played

LEMMA HandlePlayCardClear ==
    ASSUME NEW s, Free(s), NEW p, NEW c \in Deck
    PROVE  LET t == handlePlayCard(s, p, c)
           IN  Clear(t) /\ (type[c] = "number" => terminal(t) \/ Free(t))
<1> DEFINE flagged == withUnoFlagsAfterPlay(withCardDiscarded(s, p, c), p)
           played == withCardEffect(flagged, p, c)
<1>1. /\ DOMAIN s = StateField
      /\ Open(s.discardPile, s.chosenColor, s.currentColor)
      /\ s.phase = "playing" /\ s.drawStack = 0
      /\ s.pendingDrawPlayerId = null
  BY FreeIsOpen DEF Free
<1>2. /\ DOMAIN flagged = StateField
      /\ flagged.discardPile = Append(s.discardPile, c)
      /\ flagged.phase = "playing" /\ flagged.drawStack = 0
      /\ flagged.chosenColor = s.chosenColor
      /\ flagged.pendingDrawPlayerId = null
  BY <1>1, DiscardKeeps
<1> HIDE DEF flagged
<1>3. Clear(played) /\ (~isWildCard(c) => Free(played))
  BY <1>1, <1>2, CardEffectClear
<1> HIDE DEF played
<1>4. type[c] = "number" => ~isWildCard(c)
  BY DEF isWildCard
<1> QED
  BY <1>3, <1>4, CheckRoundEndClear DEF handlePlayCard, played, flagged

(* A deflecting card is neither wild nor played outside of a challenge or a *)
(* stack.                                                                   *)
LEMMA DeflectionClear ==
    ASSUME NEW s, Clear(s), ~terminal(s), NEW p, NEW c \in Deck,
           s.drawStack \in Nat, deflectionClaims(s, p, c)
    PROVE  Clear(deflection(s, p, c))
<1> DEFINE played == withDeflectionPlayed(s, p, c)
           answered == [played EXCEPT !.phase = "playing",
                                      !.pendingDrawPlayerId = null,
                                      !.pendingRevengeDraws = 0]
           passed == [played EXCEPT !.currentPlayerIndex =
                        getNextAliveIndex(s.eliminated, p, played.direction)]
           discarded == withCardDiscarded(s, p, c)
<1>1. ~isWildCard(c)
  BY DEF deflectionClaims, deflectsWithReverse, deflectsWithSkip, isWildCard
<1>2. /\ DOMAIN s = StateField
      /\ Open(s.discardPile, s.chosenColor, s.currentColor)
      /\ \/ /\ answersChallenge(s, p) /\ s.drawStack = 0
         \/ /\ ~answersChallenge(s, p) /\ s.phase = "playing"
            /\ s.pendingDrawPlayerId = null
            /\ s.houseRules \cap StackingRule # {}
  BY DEF Clear, Told, deflectionClaims, answersChallenge
<1>3. Open(Append(s.discardPile, c), s.chosenColor, color[c])
  BY <1>1, <1>2, DiscardColored
<1>4. /\ DOMAIN discarded = StateField
      /\ discarded.discardPile = Append(s.discardPile, c)
      /\ discarded.phase = s.phase /\ discarded.drawStack = s.drawStack
      /\ discarded.chosenColor = s.chosenColor
      /\ discarded.pendingDrawPlayerId = s.pendingDrawPlayerId
      /\ discarded.houseRules = s.houseRules
  BY <1>2, DiscardKeeps
<1> HIDE DEF discarded
<1>5. /\ DOMAIN played = StateField
      /\ Open(played.discardPile, played.chosenColor, played.currentColor)
      /\ played.phase = s.phase /\ played.drawStack = s.drawStack
      /\ played.pendingDrawPlayerId = s.pendingDrawPlayerId
      /\ played.houseRules = s.houseRules
  <2>1. \A k, direction :
           LET t == [discarded EXCEPT !.currentColor = k, !.direction = direction]
           IN  /\ DOMAIN t = StateField
               /\ t.currentColor = k
               /\ t.discardPile = discarded.discardPile
               /\ t.chosenColor = discarded.chosenColor
               /\ t.phase = discarded.phase
               /\ t.drawStack = discarded.drawStack
               /\ t.pendingDrawPlayerId = discarded.pendingDrawPlayerId
               /\ t.houseRules = discarded.houseRules
    BY <1>4 DEF StateField
  <2>2. PICK direction : played = [discarded EXCEPT !.currentColor = color[c],
                                                    !.direction = direction]
    BY <1>4 DEF withDeflectionPlayed, discarded
  <2> HIDE DEF played
  <2>3. /\ DOMAIN played = StateField
        /\ played.currentColor = color[c]
        /\ played.discardPile = discarded.discardPile
        /\ played.chosenColor = discarded.chosenColor
        /\ played.phase = discarded.phase
        /\ played.drawStack = discarded.drawStack
        /\ played.pendingDrawPlayerId = discarded.pendingDrawPlayerId
        /\ played.houseRules = discarded.houseRules
    BY <2>1, <2>2
  <2> QED
    BY <1>3, <1>4, <2>3
<1> HIDE DEF played
<1>6. answersChallenge(s, p) => Clear(answered)
  BY <1>2, <1>5 DEF Clear, Told, StateField, answersChallenge
<1>7. ~answersChallenge(s, p) => Clear(passed)
  BY <1>2, <1>5 DEF Clear, Told, StateField
<1> HIDE DEF answered, passed
<1>8. /\ answersChallenge(s, p) => Clear(checkRoundEnd(answered, p))
      /\ ~answersChallenge(s, p) => Clear(checkRoundEnd(passed, p))
  BY <1>6, <1>7, CheckRoundEndClear
<1> QED
  BY <1>8, StartPenaltyDrawClear
     DEF deflection, deflectChallenge, deflectStack, answered, passed, played

(* A card on the stack is a +2, or a Wild Draw Four with its colour.        *)
LEMMA AttackCardClear ==
    ASSUME NEW s, DOMAIN s = StateField, s.phase = "playing",
           Open(s.discardPile, s.chosenColor, s.currentColor),
           s.pendingDrawPlayerId = null,
           s.houseRules \cap StackingRule # {},
           NEW p, NEW c \in Deck, NEW chosen \in Color \cup {null},
           \/ type[c] = "draw_two"
           \/ type[c] = "wild_draw_four" /\ chosen # null
    PROVE  Clear(putAttackCardOnStack(s, p, c, chosen))
<1> DEFINE played == withUnoFlagsAfterPlay(withCardDiscarded(s, p, c), p)
           colored == IF type[c] = "draw_two"
                      THEN [played EXCEPT !.currentColor = color[c]]
                      ELSE [played EXCEPT !.currentColor = chosen,
                                          !.chosenColor[c] = chosen]
           stacked == [colored EXCEPT
                         !.drawStack = @ + getCardDrawPenalty(c),
                         !.currentPlayerIndex =
                            getNextAliveIndex(s.eliminated, p, s.direction)]
<1>1. /\ DOMAIN played = StateField
      /\ played.discardPile = Append(s.discardPile, c)
      /\ played.phase = "playing"
      /\ played.chosenColor = s.chosenColor
      /\ played.pendingDrawPlayerId = null
      /\ played.houseRules = s.houseRules
  BY DiscardKeeps
<1> HIDE DEF played
<1>2. /\ DOMAIN colored = StateField
      /\ colored.phase = "playing" /\ colored.pendingDrawPlayerId = null
      /\ colored.houseRules = s.houseRules
      /\ Open(colored.discardPile, colored.chosenColor, colored.currentColor)
  <2>1. CASE type[c] = "draw_two"
    <3>1. Open(Append(s.discardPile, c), s.chosenColor, color[c])
      BY <2>1, DiscardColored DEF isWildCard
    <3> QED
      BY <1>1, <2>1, <3>1 DEF StateField
  <2>2. CASE type[c] # "draw_two"
    <3>1. Open(Append(s.discardPile, c), [s.chosenColor EXCEPT ![c] = chosen],
               chosen)
      BY <2>2, DiscardColoredWild DEF isWildCard
    <3> QED
      BY <1>1, <2>2, <3>1 DEF StateField
  <2> QED
    BY <2>1, <2>2
<1> HIDE DEF colored
<1>3. Clear(stacked)
  BY <1>2 DEF Clear, Told, StateField
<1> HIDE DEF stacked
<1> QED
  BY <1>3, CheckRoundEndClear DEF putAttackCardOnStack, stacked, colored, played

LEMMA StackingClear ==
    ASSUME NEW s, Clear(s), ~terminal(s), s.drawStack \in Nat,
           NEW p, NEW c \in Deck, NEW chosen \in Color \cup {null},
           stackingClaims(s, p, c), stackingAllowed(s, p, c, chosen)
    PROVE  Clear(stacking(s, p, c, chosen))
<1> DEFINE answered == [s EXCEPT !.phase = "playing",
                                 !.pendingDrawPlayerId = null,
                                 !.drawStack = 4 + s.pendingRevengeDraws,
                                 !.pendingRevengeDraws = 0,
                                 !.currentPlayerIndex = p]
<1>1. s.houseRules \cap StackingRule # {}
  BY DEF stackingClaims, stackingOn, anyOn, StackingRule
<1>2. \/ type[c] = "draw_two"
      \/ type[c] = "wild_draw_four" /\ chosen # null
  BY DEF stackingClaims, stackingAllowed, stacksOnChallenge, stacksOnStack,
         startsStack, isFunctionCard, answersChallenge
<1>3. DOMAIN s = StateField
  BY DEF Clear
<1>4. CASE answersChallenge(s, p)
  <2>1. Open(s.discardPile, s.chosenColor, s.currentColor)
    BY <1>4 DEF Clear, Told, answersChallenge
  <2>2. /\ DOMAIN answered = StateField /\ answered.phase = "playing"
        /\ Open(answered.discardPile, answered.chosenColor,
                answered.currentColor)
        /\ answered.pendingDrawPlayerId = null
        /\ answered.houseRules \cap StackingRule # {}
    BY <1>1, <1>3, <2>1 DEF StateField
  <2> HIDE DEF answered
  <2>3. Clear(putAttackCardOnStack(answered, p, c, chosen))
    BY <1>2, <2>2, AttackCardClear
  <2> QED
    BY <1>4, <2>3 DEF stacking, answered
<1>5. CASE ~answersChallenge(s, p)
  <2>1. /\ s.phase = "playing" /\ s.pendingDrawPlayerId = null
        /\ Open(s.discardPile, s.chosenColor, s.currentColor)
    BY <1>5 DEF Clear, Told, stackingClaims, startsStack
  <2>2. Clear(putAttackCardOnStack(s, p, c, chosen))
    BY <1>1, <1>2, <1>3, <2>1, AttackCardClear
  <2> QED
    BY <1>5, <2>2 DEF stacking
<1> QED
  BY <1>4, <1>5

LEMMA JumpInClear ==
    ASSUME NEW s, Free(s), NEW p, NEW c \in Deck,
           NEW chosen \in Color \cup {null},
           \A i \in Seat : \A direction :
              getNextAliveIndex(s.eliminated, i, direction) # null,
           p \in Seat
    PROVE  Clear(jumpIn(s, p, c, chosen))
<1> DEFINE played == withCardDiscarded(s, p, c)
           next == getNextAliveIndex(played.eliminated, p, played.direction)
           afterNext == skipNextAliveIndex(played.eliminated, p,
                                           played.direction)
           toNext == [played EXCEPT !.currentPlayerIndex = next]
           colored == [toNext EXCEPT !.currentColor = color[c]]
           penalized == startPenaltyDraw(colored, next, 2, afterNext, p)
           leapt == withJumpInEffect(played, s, p, c, chosen)
           answer == [(IF chosen # null
                       THEN [withWildColor(played, c, chosen)
                               EXCEPT !.phase = "challenging"]
                       ELSE [played EXCEPT !.phase = "choosing_color"])
                      EXCEPT !.currentPlayerIndex = p,
                             !.pendingDrawPlayerId = next]
<1>1. /\ DOMAIN s = StateField
      /\ Open(s.discardPile, s.chosenColor, s.currentColor)
      /\ s.phase = "playing" /\ s.drawStack = 0
      /\ s.pendingDrawPlayerId = null
  BY FreeIsOpen DEF Free
<1>2. /\ DOMAIN played = StateField
      /\ played.discardPile = Append(s.discardPile, c)
      /\ played.phase = "playing" /\ played.drawStack = 0
      /\ played.chosenColor = s.chosenColor
      /\ played.pendingDrawPlayerId = null
  BY <1>1, DiscardKeeps
<1>3. next # null
  <2>1. played.eliminated = s.eliminated
    BY <1>1 DEF withCardDiscarded, StateField
  <2> QED
    BY <2>1
<1> HIDE DEF played
<1>4. type[c] \in CardType
  BY DeckAssumption
<1>5. ASSUME type[c] \in {"skip", "reverse"} PROVE Clear(leapt)
  <2>1. leapt = withCardEffect(played, p, c)
    BY <1>5 DEF withJumpInEffect
  <2> HIDE DEF leapt
  <2>2. Open(s.discardPile, played.chosenColor, s.currentColor)
    BY <1>1, <1>2
  <2> QED
    BY <1>2, <2>1, <2>2, CardEffectClear
<1>6. ASSUME type[c] \in {"draw_two", "number"} PROVE Clear(leapt)
  <2>1. Open(Append(s.discardPile, c), s.chosenColor, color[c])
    BY <1>1, <1>6, DiscardColored DEF isWildCard
  <2>2. DOMAIN toNext = StateField /\ Free(colored)
        /\ colored.houseRules = s.houseRules
    BY <1>1, <1>2, <2>1 DEF Free, Clear, Told, StateField, withCardDiscarded, played
  <2> HIDE DEF colored, toNext, next, afterNext
  <2>3. Clear(penalized)
    BY <2>2, StartPenaltyDrawClear DEF Free
  <2>4. \A source : Clear(startPenaltyDraw(penalized, next, 2, afterNext, source))
    BY <2>3, StartPenaltyDrawClear
  <2> HIDE DEF penalized
  <2>5. ASSUME NEW hands
        PROVE  /\ Clear([colored EXCEPT !.hand = hands])
               /\ On(s, "sevenSwapHands") =>
                    Clear([colored EXCEPT !.phase = "choosing_swap_target",
                                          !.currentPlayerIndex = p])
    BY <2>2 DEF On, Free, Clear, Told, StateField, terminal, TerminalPhase
  <2>6. Clear(colored)
    BY <2>2 DEF Free
  <2>7. CASE type[c] = "draw_two"
    BY <2>3, <2>4, <2>7
       DEF withJumpInEffect, penalized, colored, toNext, next, afterNext
  <2>8. CASE type[c] = "number"
    <3>1. On(played, "sevenSwapHands") => On(s, "sevenSwapHands")
      BY <1>1 DEF On, withCardDiscarded, StateField, played
    <3> QED
      BY <2>5, <2>6, <2>8, <3>1 DEF withJumpInEffect, colored, toNext, next
  <2> QED
    BY <1>6, <2>7, <2>8
<1>7. ASSUME isWildCard(c) PROVE Clear(leapt)
  <2>1. /\ Asked(played.discardPile, played.chosenColor)
        /\ type[c] = "wild_draw_four" => FourOnTop(played.discardPile)
    BY <1>1, <1>2, <1>7, DiscardWild
  <2>2. chosen # null =>
           Open(played.discardPile, [played.chosenColor EXCEPT ![c] = chosen],
                chosen)
    BY <1>1, <1>2, <1>7, DiscardColoredWild
  <2> HIDE DEF next
  <2>3. DOMAIN toNext = StateField
    BY <1>2
  <2>4. chosen # null => Clear(withWildColor(toNext, c, chosen))
    BY <1>2, <2>2 DEF withWildColor, Clear, Told, StateField
  <2>5. Clear([played EXCEPT !.phase = "choosing_color",
                             !.currentPlayerIndex = p])
    BY <1>2, <2>1 DEF Clear, Told, StateField
  <2>6. type[c] = "wild_draw_four" => Clear(answer)
    BY <1>2, <1>3, <2>1, <2>2 DEF withWildColor, Clear, Told, StateField
  <2> HIDE DEF toNext, answer
  <2>7. CASE type[c] = "wild"
    BY <2>4, <2>5, <2>7 DEF withJumpInEffect, toNext, next
  <2>8. CASE type[c] = "wild_draw_four"
    BY <2>6, <2>8 DEF withJumpInEffect, answer, next
  <2> QED
    BY <1>7, <2>7, <2>8 DEF isWildCard
<1>8. Clear(leapt)
  BY <1>4, <1>5, <1>6, <1>7 DEF CardType, isWildCard
<1> QED
  BY <1>8, CheckRoundEndClear DEF jumpIn, played, leapt

(***************************************************************************)
(* The plugins, and the other handlers                                     *)
(***************************************************************************)

(* Only the swap of a 7 changes the phase, after a play that asked nobody.  *)
LEMMA TurnPluginsClear ==
    ASSUME NEW before, NEW after, Clear(after), NEW c
    PROVE  /\ Clear(zeroRotate(before, after, c))
           /\ terminal(after) => terminal(zeroRotate(before, after, c))
           /\ zeroRotate(before, after, c).houseRules = after.houseRules
           /\ Free(after) => Free(zeroRotate(before, after, c))
           /\ \/ terminal(after)
              \/ Free(after) /\ before.houseRules = after.houseRules
              => Clear(sevenSwapPost(before, after, c))
           /\ type[c] # "number" => Clear(sevenSwapPost(before, after, c))
           /\ Clear(revengeMode(before, after, c))
           /\ Clear(multiPlayPost(before, after, c))
<1>1. /\ Clear(zeroRotate(before, after, c))
      /\ terminal(after) => terminal(zeroRotate(before, after, c))
      /\ zeroRotate(before, after, c).houseRules = after.houseRules
      /\ Free(after) => Free(zeroRotate(before, after, c))
  BY DEF Clear, Free, StateField, terminal, zeroRotate
<1>2. /\ \/ terminal(after)
         \/ Free(after) /\ before.houseRules = after.houseRules
         => Clear(sevenSwapPost(before, after, c))
      /\ type[c] # "number" => Clear(sevenSwapPost(before, after, c))
  BY DEF Free, Clear, Told, StateField, terminal, TerminalPhase, sevenSwapPost,
         playedNumber, isNumberCard, On
<1>3. Clear(revengeMode(before, after, c))
  <2>1. Clear([after EXCEPT !.pendingRevengeDraws = @ + 4])
    BY DEF Clear, StateField, terminal
  <2> QED
    BY <2>1, StartPenaltyDrawClear DEF revengeMode
<1>4. Clear(multiPlayPost(before, after, c))
  <2>1. Clear([after EXCEPT !.currentPlayerIndex = before.currentPlayerIndex])
    BY DEF Clear, StateField, terminal
  <2> QED
    BY <2>1 DEF multiPlayPost
<1> QED
  BY <1>1, <1>2, <1>3, <1>4

LEMMA SettleRoundClear ==
    ASSUME NEW before, NEW after, Clear(after)
    PROVE  Clear(settleRound(before, after))
<1> DEFINE doubled == doubleScore(before, after)
           shared == teamMode(before, doubled)
           loser == CHOOSE p \in Seat : IsLoser(shared, p)
           without == [shared EXCEPT !.eliminated[loser] = TRUE]
<1>1. Clear(doubled)
  <2>1. ASSUME NEW w, NEW total PROVE Clear([after EXCEPT !.score[w] = total])
    BY DEF Clear, StateField, terminal
  <2> QED
    BY <2>1 DEF doubleScore
<1> HIDE DEF doubled
<1>2. Clear(shared)
  <2>1. ASSUME NEW score PROVE Clear([doubled EXCEPT !.score = score])
    BY <1>1 DEF Clear, StateField, terminal
  <2> QED
    BY <1>1, <2>1 DEF teamMode
<1> HIDE DEF shared
<1>3. Clear(without)
  BY <1>2 DEF Clear, StateField, terminal
<1> HIDE DEF without
<1>4. ASSUME NEW w
      PROVE  Clear([without EXCEPT !.phase = "game_over", !.winnerId = w])
  BY <1>3 DEF Clear, StateField, terminal, TerminalPhase
<1>5. Clear(elimination(before, shared))
  BY <1>2, <1>3, <1>4 DEF elimination, without, loser
<1> QED
  BY <1>5 DEF settleRound, shared, doubled

LEMMA HandlePlayCardRules ==
    ASSUME NEW s, DOMAIN s = StateField, NEW p, NEW c \in Deck
    PROVE  handlePlayCard(s, p, c).houseRules = s.houseRules
<1> DEFINE Like(t) == DOMAIN t = StateField /\ t.houseRules = s.houseRules
           flagged == withUnoFlagsAfterPlay(withCardDiscarded(s, p, c), p)
<1>1. Like(flagged)
  BY DEF withUnoFlagsAfterPlay, withCardDiscarded, StateField
<1> HIDE DEF flagged
<1>2. Like(withCardEffect(flagged, p, c))
  <2>1. type[c] \in CardType
    BY DeckAssumption
  <2>2. ASSUME NEW t, Like(t), NEW q, NEW count, NEW next, NEW source
        PROVE  Like(startPenaltyDraw(t, q, count, next, source))
    BY <2>2 DEF startPenaltyDraw, StateField
  <2>3. \A x : Like([flagged EXCEPT !.currentColor = x])
    BY <1>1 DEF StateField
  <2> QED
    BY <1>1, <2>1, <2>2, <2>3 DEF withCardEffect, CardType, StateField
<1>3. ASSUME NEW t, Like(t) PROVE Like(checkRoundEnd(t, p))
  BY <1>3 DEF checkRoundEnd, withPenaltyStateDefaults, StateField
<1> QED
  BY <1>2, <1>3 DEF handlePlayCard, flagged

LEMMA PostProcessPlayClear ==
    ASSUME NEW before, NEW after, Clear(after), NEW c,
           type[c] = "number" =>
              \/ terminal(after)
              \/ Free(after) /\ before.houseRules = after.houseRules
    PROVE  Clear(postProcessPlay(before, after, c))
<1>1. Clear(sevenSwapPost(before, zeroRotate(before, after, c), c))
  BY TurnPluginsClear
<1> QED
  BY <1>1, TurnPluginsClear, SettleRoundClear DEF postProcessPlay

LEMMA HandledPlayClear ==
    ASSUME NEW before, NEW result, Clear(result), NEW c
    PROVE  Clear(handledPlay(before, result, c))
BY DrainPenaltyQueueClear, PostProcessPlayClear DEF handledPlay

LEMMA PostProcessDrawClear ==
    ASSUME NEW before, NEW after, Clear(after), after.drawStack \in Nat,
           NEW p, NEW card \in Deck
    PROVE  Clear(postProcessDraw(before, after, p, card))
<1>1. /\ ~hasPendingDrawObligation(after)
      /\ playCardAllowed(after, p, card)
      => Free(after)
  BY DEF hasPendingDrawObligation, playCardAllowed, Free
<1> QED
  BY <1>1, HandlePlayCardClear, SettleRoundClear
     DEF postProcessDraw, forcedPlayAfterDraw

LEMMA HandleChooseColorClear ==
    ASSUME NEW s, Clear(s), s.phase = "choosing_color", NEW p,
           NEW chosen \in Color
    PROVE  LET t == handleChooseColor(s, p, chosen)
           IN  Clear(t) /\ (s.pendingDrawPlayerId # null =>
                              t.phase = "challenging")
<1> DEFINE colored == [s EXCEPT !.chosenColor[topCard(s)] = chosen,
                                !.currentColor = chosen,
                                !.lastAction = Acted("CHOOSE_COLOR", p)]
           challenged == [colored EXCEPT !.phase = "challenging"]
           played == [colored EXCEPT
                        !.phase = "playing",
                        !.currentPlayerIndex =
                           getNextAliveIndex(s.eliminated, p, s.direction)]
<1>1. /\ DOMAIN s = StateField /\ s.drawStack = 0
      /\ Asked(s.discardPile, s.chosenColor)
      /\ s.pendingDrawPlayerId # null => FourOnTop(s.discardPile)
  BY DEF Clear, Told, terminal, TerminalPhase
<1>2. Open(s.discardPile, [s.chosenColor EXCEPT ![topCard(s)] = chosen], chosen)
  BY <1>1, ChooseAsked DEF topCard
<1>3. /\ DOMAIN colored = StateField /\ colored.drawStack = 0
      /\ Open(colored.discardPile, colored.chosenColor, colored.currentColor)
      /\ colored.discardPile = s.discardPile
      /\ colored.pendingDrawPlayerId = s.pendingDrawPlayerId
  BY <1>1, <1>2 DEF StateField
<1> HIDE DEF colored
<1>4. s.pendingDrawPlayerId # null =>
         Clear(challenged) /\ challenged.phase = "challenging"
  BY <1>1, <1>3 DEF Clear, Told, StateField
<1>5. s.pendingDrawPlayerId = null => Clear(played)
  BY <1>3 DEF Clear, Told, StateField
<1> HIDE DEF challenged, played
<1> QED
  BY <1>4, <1>5, DrainPenaltyQueueClear
     DEF handleChooseColor, colored, challenged, played

LEMMA SettleWildDrawFourClear ==
    ASSUME NEW s, Clear(s), s.phase = "challenging",
           NEW lastAction, NEW p, NEW count, NEW source
    PROVE  LET t == settleWildDrawFour(s, lastAction, p, count, source)
           IN  Clear(t) /\ t.pendingDrawPlayerId = null
<1> DEFINE settled == [s EXCEPT !.phase = "playing",
                                !.pendingDrawPlayerId = null,
                                !.pendingRevengeDraws = 0,
                                !.lastAction = lastAction]
<1>1. Clear(settled) /\ settled.pendingDrawPlayerId = null
  BY DEF Clear, Told, StateField, terminal, TerminalPhase
<1> HIDE DEF settled
<1>2. \A n, next :
         LET t == startPenaltyDraw(settled, p, n, next, source)
         IN  Clear(t) /\ t.pendingDrawPlayerId = null
  BY <1>1, StartPenaltyDrawClear
<1> QED
  BY <1>2 DEF settleWildDrawFour, settled

LEMMA AnswersClear ==
    ASSUME NEW s, Clear(s), s.phase = "challenging", NEW p
    PROVE  Clear(handleChallenge(s, p)) /\ Clear(handleAccept(s, p))
BY SettleWildDrawFourClear DEF handleChallenge, handleAccept

LEMMA MultiPlayPassClear ==
    ASSUME NEW s, Clear(s), NEW p
    PROVE  Clear(multiPlayPass(s, p))
<1> DEFINE next == getNextAliveIndex(s.eliminated, p, s.direction)
           passed == [s EXCEPT !.currentPlayerIndex = next,
                               !.lastAction = Acted("PASS", p)]
<1>1. Clear(passed)
  BY DEF Clear, StateField, terminal
<1> HIDE DEF passed
<1>2. ASSUME NEW more
      PROVE  Clear([passed EXCEPT !.pendingPenaltyQueue = @ \o more])
  BY <1>1 DEF Clear, StateField, terminal
<1> QED
  BY <1>1, <1>2, DrainPenaltyQueueClear DEF multiPlayPass, passed, next

LEMMA ChooseSwapTargetClear ==
    ASSUME NEW s, Clear(s), s.phase = "choosing_swap_target", NEW p, NEW target
    PROVE  Clear(chooseSwapTarget(s, p, target))
<1>1. ASSUME NEW hands, NEW called, NEW caught, NEW turn
      PROVE  Clear([s EXCEPT !.hand = hands, !.calledUno = called,
                             !.unoCaught = caught, !.phase = "playing",
                             !.currentPlayerIndex = turn,
                             !.lastAction = Acted("CHOOSE_SWAP_TARGET", p)])
  BY DEF Clear, Told, StateField, terminal, TerminalPhase
<1> QED
  BY <1>1, DrainPenaltyQueueClear DEF chooseSwapTarget

LEMMA UnoCallsClear ==
    ASSUME NEW s, Clear(s), NEW p, NEW count
    PROVE  Clear(handleCallUno(s, p)) /\ Clear(handleCatchUno(s, p, count))
<1>1. Clear([s EXCEPT !.unoCaught[p] = TRUE,
                      !.lastAction = Acted("CATCH_UNO", null)])
  BY DEF Clear, StateField, terminal
<1>2. Clear(handleCallUno(s, p))
  BY DEF Clear, StateField, terminal, handleCallUno
<1> QED
  BY <1>1, <1>2, StartPenaltyDrawClear DEF handleCatchUno

(***************************************************************************)
(* The actions                                                             *)
(***************************************************************************)
Unrestricted == state.houseRules \cap FinishRestriction = {}

ClearState == Unrestricted => Clear(state)

LEMMA DealtStateClear ==
    ASSUME NEW d \in Deals, NEW rules, NEW eliminated, NEW score,
           NEW roundWins, NEW teamId, NEW first, NEW round,
           type[d.top] # "wild_draw_four"
    PROVE  Clear(dealtState(d, rules, eliminated, score, roundWins, teamId,
                            first, round))
<1> DEFINE pile == <<d.top>>
           chosen == [w \in Wild |-> null]
           s == dealtState(d, rules, eliminated, score, roundWins, teamId,
                           first, round)
<1>1. d.top \in Deck
  BY UnoGameAssumption DEF IsDeal
<1>2. /\ Discards(pile, chosen)
      /\ pile[Len(pile)] = d.top
      /\ \A i \in 1..Len(pile) : pile[i] = d.top
      /\ \A i \in 1..(Len(pile) - 1) : FALSE
  BY <1>1 DEF Discards
<1>3. /\ DOMAIN s = StateField
      /\ s.phase = (IF type[d.top] = "wild" THEN "choosing_color" ELSE "playing")
      /\ s.discardPile = pile /\ s.chosenColor = chosen
      /\ s.currentColor = color[d.top]
      /\ s.drawStack = 0 /\ s.pendingDrawPlayerId = null
  BY DEF dealtState, StateField
<1> HIDE DEF s, pile, chosen
<1>4. CASE type[d.top] = "wild"
  <2>1. Asked(pile, chosen)
    BY <1>2, <1>4 DEF Asked, isWildCard
  <2> QED
    BY <1>3, <1>4, <2>1 DEF Clear, Told, s
<1>5. CASE type[d.top] # "wild"
  <2>1. ~isWildCard(d.top)
    BY <1>5 DEF isWildCard
  <2>2. color[d.top] # null
    BY <1>1, <2>1, DeckAssumption
  <2>3. Open(pile, chosen, color[d.top])
    BY <1>2, <2>1, <2>2 DEF Open
  <2> QED
    BY <1>3, <1>5, <2>3 DEF Clear, Told, s
<1> QED
  BY <1>4, <1>5

(* Nobody pays for a last card when no rule forbids one.                    *)
LEMMA NoRestrictionClaims ==
    ASSUME Unrestricted, NEW p, NEW c
    PROVE  ~finishRestrictionsClaims(state, p, c)
BY DEF Unrestricted, FinishRestriction, finishRestrictionsClaims,
       isFinishRestrictedLastCard, On

LEMMA TurnActionClear ==
    ASSUME Sound(state), InPlace(state), Settled(state), Clear(state),
           Unrestricted, NEW p \in Seat, TurnAction(p)
    PROVE  Clear(state')
<1>1. /\ state.hand[p] \in SUBSET Deck
      /\ state.drawStack \in Nat
      /\ \A side \in DrawSide : state.deckInitialCount[side] \in Nat
      /\ \A i, j \in 1..Len(state.discardPile) :
            state.discardPile[i] = state.discardPile[j] => i = j
  BY DEF Sound, IsGameState, InPlace, SharedOut
<1>2. CASE terminal(state)
  <2>1. state'.phase = state.phase
    BY <1>2, TurnActionKeepsResult DEF SameResult
  <2>2. DOMAIN state' = StateField
    BY TurnActionSound DEF Sound, IsGameState
  <2> QED
    BY <1>2, <2>1, <2>2 DEF Clear, terminal
<1>3. CASE ~terminal(state)
  <2>1. state.drawStack # 0 =>
           state.phase = "playing" /\ state.houseRules \cap StackingRule # {}
    BY <1>3 DEF Clear, Told
  <2>2. ASSUME NEW c \in state.hand[p], PlayCard(p, c)
        PROVE  Clear(state')
    <3>1. state.phase = "playing" /\ ~stackingClaims(state, p, c)
      BY <2>2 DEF PlayCard, playCardAllowed, claimedByPlugin,
                  claimedBeforeJumpIn
    <3>2. state.drawStack = 0
      BY <1>1, <2>1, <3>1 DEF stackingClaims, stackingOn, anyOn, StackingRule
    <3>3. Free(state) /\ c \in Deck
      BY <1>1, <3>1, <3>2 DEF Free
    <3> QED
      BY <2>2, <3>3, HandlePlayCardClear, HandlePlayCardRules,
         PostProcessPlayClear DEF PlayCard, Clear
  <2>3. ASSUME NEW c \in state.hand[p], ForfeitFinishRestriction(p, c)
        PROVE  FALSE
    BY <2>3, NoRestrictionClaims DEF ForfeitFinishRestriction
  <2>4. ASSUME NEW c \in state.hand[p], Deflect(p, c)
        PROVE  Clear(state')
    <3>1. Clear(deflection(state, p, c))
      BY <1>1, <1>3, <2>4, DeflectionClear DEF Deflect
    <3> QED
      BY <2>4, <3>1, HandledPlayClear DEF Deflect
  <2>5. ASSUME NEW c \in state.hand[p], NEW chosen \in Color \cup {null},
               Stack(p, c, chosen)
        PROVE  Clear(state')
    <3>1. Clear(stacking(state, p, c, chosen))
      BY <1>1, <1>3, <2>5, StackingClear DEF Stack
    <3> QED
      BY <2>5, <3>1, HandledPlayClear DEF Stack
  <2>6. ASSUME NEW c \in state.hand[p], NEW card, PayFinishRestriction(p, c, card)
        PROVE  FALSE
    BY <2>6, NoRestrictionClaims DEF PayFinishRestriction
  <2>7. ASSUME NEW c \in state.hand[p], ForcedPlayWithoutDraw(p, c)
        PROVE  Clear(state')
    BY <1>1, <2>7, PostProcessDrawClear DEF ForcedPlayWithoutDraw
  <2>8. ASSUME NEW side \in DrawSide, NEW card \in drawnCards(p, side),
               \/ DrawCard(p, side, card)
               \/ DrawUntilPlayable(p, side, card)
               \/ TakeStack(p, side, card)
        PROVE  Clear(state')
    <3> DEFINE drawn == handleDrawCard(state, p, side, card)
    <3>1. card \in Deck
      BY DrawnCardsAreCards
    <3>2. state.phase = "playing"
      BY <2>1, <2>8 DEF DrawCard, DrawUntilPlayable, TakeStack,
                        drawCardAllowed, stackingClaimsDraw
    <3>3. Clear(drawn) /\ Clear(resolveStack(state, p, side, card))
      BY <1>1, <3>2, HandleDrawCardClear, ResolveStackClear
    <3>4. drawn.drawStack \in Nat
      BY <3>1, HandleDrawCardSound DEF Sound, IsGameState
    <3> HIDE DEF drawn
    <3>5. CASE DrawCard(p, side, card)
      BY <3>1, <3>3, <3>4, <3>5, PostProcessDrawClear DEF DrawCard, drawn
    <3>6. CASE DrawUntilPlayable(p, side, card)
      BY <3>3, <3>6 DEF DrawUntilPlayable, drawn
    <3>7. CASE TakeStack(p, side, card)
      BY <3>3, <3>7, SettleRoundClear DEF TakeStack
    <3> QED
      BY <2>8, <3>5, <3>6, <3>7
  <2>9. CASE Pass(p)
    BY <2>9, HandlePassClear, SettleRoundClear DEF Pass, passAllowed
  <2>10. CASE EndMultiPlay(p)
    BY <2>10, MultiPlayPassClear DEF EndMultiPlay
  <2>11. ASSUME NEW chosen \in Color,
                ChooseColor(p, chosen) \/ ChooseColorUnchallenged(p, chosen)
         PROVE  Clear(state')
    <3>1. LET t == handleChooseColor(state, p, chosen)
          IN  Clear(t) /\ (state.pendingDrawPlayerId # null =>
                             t.phase = "challenging")
      BY <2>11, HandleChooseColorClear
         DEF ChooseColor, ChooseColorUnchallenged, chooseColorAllowed
    <3>2. CASE ChooseColor(p, chosen)
      BY <3>1, <3>2 DEF ChooseColor
    <3>3. CASE ChooseColorUnchallenged(p, chosen)
      BY <3>1, <3>3, SettleWildDrawFourClear
         DEF ChooseColorUnchallenged, chooseColorUnchallenged
    <3> QED
      BY <2>11, <3>2, <3>3
  <2>12. CASE Challenge(p) \/ Accept(p)
    BY <2>12, AnswersClear DEF Challenge, challengeAllowed, respondAllowed,
                               Accept
  <2>13. ASSUME NEW target \in Seat, ChooseSwapTarget(p, target)
         PROVE  Clear(state')
    BY <2>13, ChooseSwapTargetClear DEF ChooseSwapTarget, chooseSwapTargetAllowed
  <2> QED
    BY <2>2, <2>3, <2>4, <2>5, <2>6, <2>7, <2>8, <2>9, <2>10, <2>11, <2>12,
       <2>13 DEF TurnAction
<1> QED
  BY <1>2, <1>3

LEMMA SideActionClear ==
    ASSUME Sound(state), Clear(state), NEW p \in Seat, SideAction(p)
    PROVE  Clear(state')
<1>1. ASSUME NEW c \in state.hand[p], NEW chosen \in Color \cup {null},
             JumpIn(p, c, chosen)
      PROVE  Clear(state')
  <2>1. c \in Deck /\ state.drawStack \in Nat
    BY DEF Sound, IsGameState
  <2>2. Free(state)
    BY <1>1, <2>1
       DEF Free, JumpIn, jumpInClaims, hasPendingDrawObligation
  <2>3. \A i \in Seat : \A direction :
           getNextAliveIndex(state.eliminated, i, direction) # null
    BY NextIsSeat, SettingsAssumption
  <2>4. Clear(jumpIn(state, p, c, chosen))
    BY <2>1, <2>2, <2>3, JumpInClear
  <2> QED
    BY <1>1, <2>4, HandledPlayClear DEF JumpIn
<1>2. ASSUME NEW c \in Deck, Misplay(p, c) PROVE Clear(state')
  BY <1>2, StartPenaltyDrawClear, HandledPlayClear DEF Misplay, misplayPenalty
<1>3. CASE CallUno(p) \/ CatchUno(p)
  BY <1>3, UnoCallsClear DEF CallUno, CatchUno
<1> QED
  BY <1>1, <1>2, <1>3 DEF SideAction

(* In a game without the finish restrictions the discard pile and the
   chosen colour tell what the engine asks of them (a colour to play on, the
   wild draw four a challenge judges) in every state a game reaches. *)
THEOREM AlwaysClear == Spec => []ClearState
<1>1. Init => ClearState
  <2> SUFFICES ASSUME NEW rules \in RuleSets, NEW d \in Deals,
                      LegalDeal(d, rules, Nobody, 0),
                      state = initializeGame(d, rules)
               PROVE  Clear(state)
    BY DEF Init, ClearState
  <2> QED
    BY DealtStateClear DEF LegalDeal, initializeGame
<1>2. /\ SoundState /\ CardsInPlace /\ SettledState /\ FitState
      /\ ClearState /\ [Next]_vars
      => ClearState'
  <2> SUFFICES ASSUME Sound(state), InPlace(state), Settled(state), FitState,
                      ClearState, [Next]_vars, Unrestricted'
               PROVE  Clear(state')
    BY DEF SoundState, CardsInPlace, SettledState, ClearState
  <2>1. ASSUME NEW p \in Seat, TurnAction(p) \/ SideAction(p)
        PROVE  Clear(state')
    <3>1. state'.houseRules = state.houseRules
      BY <2>1, TurnActionFits, SideActionFits
    <3>2. Unrestricted /\ Clear(state)
      BY <3>1 DEF Unrestricted, ClearState
    <3> QED
      BY <2>1, <3>2, TurnActionClear, SideActionClear
  <2>2. CASE NextRound
    <3>1. PICK d \in Deals, seating \in Seatings(state.houseRules) :
             StartNextRound(d, seating)
      BY <2>2 DEF NextRound
    <3>2. type[d.top] # "wild_draw_four"
      BY <3>1 DEF StartNextRound, LegalDeal
    <3> QED
      BY <3>1, <3>2, DealtStateClear DEF StartNextRound, initializeNextRound
  <2>3. CASE UNCHANGED vars
    BY <2>3 DEF vars, ClearState, Unrestricted
  <2> QED
    BY <2>1, <2>2, <2>3 DEF Next
<1> QED
  BY <1>1, <1>2, AlwaysSound, AlwaysInPlace, AlwaysSettled, AlwaysFit, PTL
     DEF Spec

(* A challenge finds the colour in force before the Wild Draw Four.         *)
LEMMA ChallengeFindsColor ==
    ASSUME Open(state.discardPile, state.chosenColor, state.currentColor),
           FourOnTop(state.discardPile)
    PROVE  /\ Len(state.discardPile) >= 2
           /\ state.chosenColor[topCard(state)] # null
           /\ getWildDrawFourChallengeColor(state) # null
<1> DEFINE pile == state.discardPile
           chosen == state.chosenColor
           n == Len(pile)
<1>1. /\ n \in 1..n /\ n - 1 \in 1..n /\ n >= 2
      /\ pile[n - 1] \in Deck
  BY DEF Open, Discards, FourOnTop
<1>2. isWildCard(pile[n])
  BY DEF FourOnTop, isWildCard
<1>3. \A i \in 1..n : isWildCard(pile[i]) => chosen[pile[i]] # null
  BY DEF Open
<1>4. ~isWildCard(pile[n - 1]) => color[pile[n - 1]] # null
  BY <1>1, DeckAssumption
<1> QED
  BY <1>1, <1>2, <1>3, <1>4 DEF topCard, getWildDrawFourChallengeColor

(* In a game without the rules that forbid a last card no handler meets a   *)
(* state it throws an error about: a colour is chosen for the wild card on  *)
(* top, a challenge finds the Wild Draw Four and the colour in force before *)
(* it, and an active penalty knows whose turn comes next.                   *)
THEOREM EngineThrowsNothing ==
    Spec => [](state.houseRules \cap {"noFunctionCardFinish", "noWildFinish"} = {}
                  => EngineNeverThrows)
<1>1. SoundState /\ ClearState =>
         (state.houseRules \cap {"noFunctionCardFinish", "noWildFinish"} = {}
             => EngineNeverThrows)
  <2> SUFFICES ASSUME Sound(state), Clear(state)
               PROVE  EngineNeverThrows
    BY DEF SoundState, ClearState, Unrestricted, FinishRestriction
  <2> DEFINE pile == state.discardPile
             chosen == state.chosenColor
  <2>1. CASE terminal(state)
    BY <2>1 DEF EngineNeverThrows, terminal, TerminalPhase, Sound
  <2>2. CASE ~terminal(state)
    <3>1. Told(state.phase, pile, chosen, state.currentColor, state.drawStack,
               state.pendingDrawPlayerId, state.houseRules)
      BY <2>2 DEF Clear
    <3>2. state.phase = "choosing_color" => isWildCard(topCard(state))
      BY <3>1 DEF Told, Asked, topCard
    <3>3. state.pendingDrawPlayerId # null =>
             /\ state.phase \in {"choosing_color", "challenging"}
             /\ FourOnTop(pile)
      BY <3>1 DEF Told
    <3>4. ASSUME state.phase = "challenging"
          PROVE  /\ state.pendingDrawPlayerId # null
                 /\ Len(pile) >= 2
                 /\ chosen[topCard(state)] # null
                 /\ getWildDrawFourChallengeColor(state) # null
      BY <3>1, <3>4, ChallengeFindsColor DEF Told
    <3>5. state.phase = "playing" => state.currentColor # null
      BY <3>1 DEF Told, Open
    <3>6. state.pendingPenaltyDraws > 0 =>
             state.pendingPenaltyNextPlayerIndex # null
      BY DEF Sound
    <3> QED
      BY <3>2, <3>3, <3>4, <3>5, <3>6 DEF EngineNeverThrows, FourOnTop, topCard
  <2> QED
    BY <2>1, <2>2
<1> QED
  BY <1>1, AlwaysSound, AlwaysClear, PTL

(***************************************************************************)
(* The hand a challenge judges                                             *)
(***************************************************************************)
SameHand(s, t) ==
    /\ t.currentPlayerIndex = s.currentPlayerIndex
    /\ t.hand = s.hand

(* Nobody is challenged in s.                                               *)
Settles(s) == DOMAIN s = StateField /\ s.pendingDrawPlayerId = null

LEMMA CheckRoundEndSettles ==
    ASSUME NEW s, Settles(s), NEW p
    PROVE  Settles(checkRoundEnd(s, p))
<1>1. ASSUME NEW score, NEW wins, NEW phase
      PROVE  Settles(withPenaltyStateDefaults(
                [s EXCEPT !.score[p] = score, !.roundWins[p] = wins,
                          !.phase = phase, !.winnerId = p]))
  BY DEF Settles, StateField, withPenaltyStateDefaults
<1> QED
  BY <1>1 DEF checkRoundEnd

LEMMA StartPenaltyDrawSettles ==
    ASSUME NEW s, Settles(s), NEW p, NEW count, NEW next, NEW source
    PROVE  Settles(startPenaltyDraw(s, p, count, next, source))
BY DEF Settles, StateField, startPenaltyDraw

LEMMA HandledPlaySettles ==
    ASSUME NEW before, NEW result, Settles(result), NEW c
    PROVE  Settles(handledPlay(before, result, c))
<1>1. Settles(drainPenaltyQueue(result))
  <2>1. Settles([result EXCEPT !.pendingPenaltyQueue = Tail(@)])
    BY DEF Settles, StateField
  <2> QED
    BY <2>1, StartPenaltyDrawSettles DEF drainPenaltyQueue, startQueuedPenalty
<1>2. ASSUME NEW after, Settles(after)
      PROVE  /\ Settles(zeroRotate(before, after, c))
             /\ Settles(sevenSwapPost(before, after, c))
             /\ Settles(multiPlayPost(before, after, c))
             /\ Settles(doubleScore(before, after))
             /\ Settles(teamMode(before, after))
  <2>1. ASSUME NEW x, NEW w, NEW y
        PROVE  /\ Settles([after EXCEPT !.hand = x])
               /\ Settles([after EXCEPT !.phase = x, !.currentPlayerIndex = y])
               /\ Settles([after EXCEPT !.currentPlayerIndex = x])
               /\ Settles([after EXCEPT !.score[w] = x])
               /\ Settles([after EXCEPT !.score = x])
    BY <1>2 DEF Settles, StateField
  <2> QED
    BY <1>2, <2>1 DEF zeroRotate, sevenSwapPost, multiPlayPost, doubleScore,
                      teamMode
<1>3. ASSUME NEW after, Settles(after)
      PROVE  Settles(revengeMode(before, after, c))
  <2>1. Settles([after EXCEPT !.pendingRevengeDraws = @ + 4])
    BY <1>3 DEF Settles, StateField
  <2> QED
    BY <1>3, <2>1, StartPenaltyDrawSettles DEF revengeMode
<1>4. ASSUME NEW after, Settles(after)
      PROVE  Settles(elimination(before, after))
  <2> DEFINE loser == CHOOSE p \in Seat : IsLoser(after, p)
             without == [after EXCEPT !.eliminated[loser] = TRUE]
  <2>1. Settles(without)
    BY <1>4 DEF Settles, StateField
  <2> HIDE DEF without
  <2>2. ASSUME NEW w
        PROVE  Settles([without EXCEPT !.phase = "game_over", !.winnerId = w])
    BY <2>1 DEF Settles, StateField
  <2> QED
    BY <1>4, <2>1, <2>2 DEF elimination, without, loser
<1> QED
  BY <1>1, <1>2, <1>3, <1>4 DEF handledPlay, postProcessPlay, settleRound

LEMMA DeflectionSettles ==
    ASSUME NEW s, DOMAIN s = StateField, NEW p, NEW c, answersChallenge(s, p)
    PROVE  Settles(deflection(s, p, c))
<1> DEFINE played == withDeflectionPlayed(s, p, c)
           answered == [played EXCEPT !.phase = "playing",
                                      !.pendingDrawPlayerId = null,
                                      !.pendingRevengeDraws = 0]
<1>1. DOMAIN played = StateField
  BY DEF withDeflectionPlayed, withCardDiscarded
<1> HIDE DEF played
<1>2. Settles(answered)
  BY <1>1 DEF Settles, StateField
<1> HIDE DEF answered
<1>3. Settles(checkRoundEnd(answered, p))
  BY <1>2, CheckRoundEndSettles
<1> QED
  BY <1>3, StartPenaltyDrawSettles
     DEF deflection, deflectChallenge, answered, played

LEMMA StackingSettles ==
    ASSUME NEW s, DOMAIN s = StateField, NEW p, NEW c, NEW chosen,
           answersChallenge(s, p)
    PROVE  Settles(stacking(s, p, c, chosen))
<1> DEFINE answered == [s EXCEPT !.phase = "playing",
                                 !.pendingDrawPlayerId = null,
                                 !.drawStack = 4 + s.pendingRevengeDraws,
                                 !.pendingRevengeDraws = 0,
                                 !.currentPlayerIndex = p]
           played == withUnoFlagsAfterPlay(withCardDiscarded(answered, p, c), p)
           colored == IF type[c] = "draw_two"
                      THEN [played EXCEPT !.currentColor = color[c]]
                      ELSE [played EXCEPT !.currentColor = chosen,
                                          !.chosenColor[c] = chosen]
           stacked == [colored EXCEPT
                         !.drawStack = @ + getCardDrawPenalty(c),
                         !.currentPlayerIndex =
                            getNextAliveIndex(answered.eliminated, p,
                                              answered.direction)]
<1>1. Settles(answered)
  BY DEF Settles, StateField
<1> HIDE DEF answered
<1>2. Settles(played)
  BY <1>1, DiscardKeeps DEF Settles
<1> HIDE DEF played
<1>3. Settles(colored)
  BY <1>2 DEF Settles, StateField
<1> HIDE DEF colored
<1>4. Settles(stacked)
  BY <1>3 DEF Settles, StateField
<1> HIDE DEF stacked
<1>5. Settles(checkRoundEnd(stacked, p))
  BY <1>4, CheckRoundEndSettles
<1> QED
  BY <1>5 DEF stacking, putAttackCardOnStack, stacked, colored, played, answered

LEMMA TurnActionKeepsHand ==
    ASSUME Sound(state), Clear(state), Unrestricted,
           wildDrawFourPending(state), NEW p \in Seat, TurnAction(p),
           state'.pendingDrawPlayerId # null
    PROVE  SameHand(state, state')
<1>1. /\ state.pendingDrawPlayerId # null
      /\ state.phase \in {"choosing_color", "challenging"}
      /\ DOMAIN state = StateField /\ state.drawStack = 0
  BY DEF wildDrawFourPending, Clear, Told, terminal, TerminalPhase
<1>2. \A c, card, side, target :
         /\ ~PlayCard(p, c) /\ ~ForfeitFinishRestriction(p, c)
         /\ ~PayFinishRestriction(p, c, card)
         /\ ~ForcedPlayWithoutDraw(p, c)
         /\ ~DrawCard(p, side, card) /\ ~DrawUntilPlayable(p, side, card)
         /\ ~TakeStack(p, side, card)
         /\ ~Pass(p) /\ ~EndMultiPlay(p) /\ ~ChooseSwapTarget(p, target)
  BY <1>1, NoRestrictionClaims
     DEF PlayCard, playCardAllowed, ForfeitFinishRestriction,
         PayFinishRestriction, ForcedPlayWithoutDraw, DrawCard,
         drawCardAllowed, DrawUntilPlayable, TakeStack, stackingClaimsDraw,
         Pass, passAllowed, EndMultiPlay, multiPlayPassClaims,
         ChooseSwapTarget, chooseSwapTargetAllowed
<1>3. CASE Challenge(p) \/ Accept(p)
  <2>1. state.phase = "challenging"
    BY <1>3 DEF Challenge, challengeAllowed, respondAllowed, Accept
  <2>2. \A lastAction, q, count, source :
           settleWildDrawFour(state, lastAction, q, count, source)
              .pendingDrawPlayerId = null
    BY <2>1, SettleWildDrawFourClear
  <2>3. state'.pendingDrawPlayerId = null
    BY <1>3, <2>2 DEF Challenge, handleChallenge, Accept, handleAccept
  <2> QED
    BY <2>3
<1>4. ASSUME NEW chosen \in Color, ChooseColor(p, chosen)
      PROVE  SameHand(state, state')
  BY <1>1, <1>4 DEF ChooseColor, handleChooseColor, SameHand, StateField
<1>5. ASSUME NEW chosen \in Color, ChooseColorUnchallenged(p, chosen)
      PROVE  FALSE
  <2> DEFINE colored == handleChooseColor(state, p, chosen)
  <2>1. Clear(colored) /\ colored.phase = "challenging"
    BY <1>1, <1>5, HandleChooseColorClear
       DEF ChooseColorUnchallenged, chooseColorAllowed
  <2> HIDE DEF colored
  <2>2. \A lastAction, q, count, source :
           settleWildDrawFour(colored, lastAction, q, count, source)
              .pendingDrawPlayerId = null
    BY <2>1, SettleWildDrawFourClear
  <2>3. state'.pendingDrawPlayerId = null
    BY <1>5, <2>2
       DEF ChooseColorUnchallenged, chooseColorUnchallenged, colored
  <2> QED
    BY <2>3
<1>6. ASSUME NEW c \in state.hand[p], Deflect(p, c)
      PROVE  FALSE
  <2>1. answersChallenge(state, p)
    BY <1>1, <1>6 DEF Deflect, deflectionClaims
  <2> QED
    BY <1>1, <1>6, <2>1, DeflectionSettles, HandledPlaySettles
       DEF Deflect, Settles
<1>7. ASSUME NEW c \in state.hand[p], NEW chosen, Stack(p, c, chosen)
      PROVE  FALSE
  <2>1. answersChallenge(state, p)
    BY <1>1, <1>7 DEF Stack, stackingClaims, startsStack
  <2> QED
    BY <1>1, <1>7, <2>1, StackingSettles, HandledPlaySettles
       DEF Stack, Settles
<1> QED
  BY <1>2, <1>3, <1>4, <1>5, <1>6, <1>7 DEF TurnAction

LEMMA SideActionKeepsHand ==
    ASSUME Clear(state), wildDrawFourPending(state), NEW p \in Seat,
           SideAction(p)
    PROVE  SameHand(state, state')
<1>1. state.phase # "playing" /\ DOMAIN state = StateField
  BY DEF wildDrawFourPending, Clear
<1>2. \A c, chosen : ~JumpIn(p, c, chosen) /\ ~Misplay(p, c)
  BY <1>1 DEF JumpIn, jumpInClaims, Misplay, misplayPenaltyClaims
<1>3. CASE CallUno(p)
  BY <1>1, <1>3 DEF CallUno, handleCallUno, SameHand, StateField
<1>4. CASE CatchUno(p)
  <2> DEFINE caught == [state EXCEPT !.unoCaught[p] = TRUE,
                                     !.lastAction = Acted("CATCH_UNO", null)]
             count == IF On(state, "unoPenaltyCount") THEN UnoPenaltyCount
                                                      ELSE 2
  <2>1. /\ DOMAIN caught = StateField
        /\ caught.phase # "playing" /\ SameHand(state, caught)
    BY <1>1 DEF SameHand, StateField
  <2>2. state' = startPenaltyDraw(caught, p, count, state.currentPlayerIndex,
                                  null)
    BY <1>4 DEF CatchUno, handleCatchUno
  <2> HIDE DEF caught, count
  <2> QED
    BY <2>1, <2>2 DEF startPenaltyDraw, SameHand, StateField
<1> QED
  BY <1>2, <1>3, <1>4 DEF SideAction

(* A challenge judges the hand the Wild Draw Four was played from, in every *)
(* game without the rules that forbid a last card: while the answer is due  *)
(* nobody but the challenged player moves the game on, and a catch waits in *)
(* the queue.                                                               *)
THEOREM ChallengeJudgesThatHand ==
    Spec /\ [](state.houseRules \cap {"noFunctionCardFinish", "noWildFinish"} = {})
       => ChallengeJudgesHandAtPlay
<1> DEFINE Unforbidden == state.houseRules \cap {"noFunctionCardFinish", "noWildFinish"}
                    = {}
           Judged == wildDrawFourPending(state) /\ wildDrawFourPending(state') =>
                       LET p == state.currentPlayerIndex
                       IN  /\ state'.currentPlayerIndex = p
                           /\ state'.hand[p] = state.hand[p]
<1>1. SoundState /\ ClearState /\ Unforbidden /\ [Next]_vars => [Judged]_vars
  <2> SUFFICES ASSUME Sound(state), Clear(state), Unrestricted, [Next]_vars,
                      wildDrawFourPending(state), wildDrawFourPending(state')
               PROVE  SameHand(state, state')
    BY DEF SoundState, ClearState, Unrestricted, FinishRestriction, SameHand
  <2>1. ASSUME NEW p \in Seat, TurnAction(p) \/ SideAction(p)
        PROVE  SameHand(state, state')
    BY <2>1, TurnActionKeepsHand, SideActionKeepsHand DEF wildDrawFourPending
  <2>2. CASE NextRound
    BY <2>2 DEF NextRound, StartNextRound, wildDrawFourPending
  <2>3. CASE UNCHANGED vars
    BY <2>3 DEF vars, SameHand
  <2> QED
    BY <2>1, <2>2, <2>3 DEF Next
<1> QED
  BY <1>1, AlwaysSound, AlwaysClear, PTL DEF Spec, ChallengeJudgesHandAtPlay

(***************************************************************************)
(* Penalties: what is owed is paid                                         *)
(*                                                                         *)
(* cardsOwed counts the cards of the active penalty, of the stack and of   *)
(* the queue.                                                              *)
(***************************************************************************)

(* A queue of penalties of some number of cards each.                       *)
Payable(queue) ==
    \E S : /\ queue \in Seq(S)
           /\ \A i \in DOMAIN queue : queue[i].count \in Nat

LEMMA Batch ==
    ASSUME NEW k, NEW n \in Nat
    PROVE  /\ IsFiniteSet({k} \X (1..n))
           /\ Cardinality({k} \X (1..n)) = n
<1>1. IsFiniteSet({k}) /\ Cardinality({k}) = 1
  BY FS_Singleton
<1>2. IsFiniteSet(1..n) /\ Cardinality(1..n) = n
  BY FS_Interval
<1>3. /\ IsFiniteSet({k} \X (1..n))
      /\ Cardinality({k} \X (1..n)) = Cardinality({k}) * Cardinality(1..n)
  BY <1>1, <1>2, FS_Product
<1> QED
  BY <1>1, <1>2, <1>3

LEMMA Shares ==
    ASSUME NEW S, IsFiniteSet(S), NEW T, IsFiniteSet(T), S \cap T = {}
    PROVE  Cardinality(S \cup T) = Cardinality(S) + Cardinality(T)
<1>1. Cardinality(S) \in Nat /\ Cardinality(T) \in Nat
  BY FS_CardinalityType
<1>2. Cardinality(S \cup T)
        = Cardinality(S) + Cardinality(T) - Cardinality(S \cap T)
  BY FS_Union
<1>3. Cardinality(S \cap T) = 0
  BY FS_EmptySet
<1> QED
  BY <1>1, <1>2, <1>3

LEMMA QueuedAreFinite ==
    ASSUME NEW queue, Payable(queue)
    PROVE  /\ IsFiniteSet(queuedCards(queue))
           /\ Cardinality(queuedCards(queue)) \in Nat
<1> DEFINE batch == [i \in DOMAIN queue |-> {i} \X (1..queue[i].count)]
           batches == {{i} \X (1..queue[i].count) : i \in DOMAIN queue}
<1>1. PICK S : /\ queue \in Seq(S)
               /\ \A i \in DOMAIN queue : queue[i].count \in Nat
  BY DEF Payable
<1>2. IsFiniteSet(DOMAIN queue)
  <2>1. DOMAIN queue = 1..Len(queue) /\ Len(queue) \in Nat
    BY <1>1
  <2> QED
    BY <2>1, FS_Interval
<1>3. batch \in Surjection(DOMAIN queue, batches)
  BY DEF Surjection
<1>4. IsFiniteSet(batches)
  BY <1>2, <1>3, FS_Surjection
<1>5. \A b \in batches : IsFiniteSet(b)
  <2> SUFFICES ASSUME NEW i \in DOMAIN queue
               PROVE  IsFiniteSet({i} \X (1..queue[i].count))
    OBVIOUS
  <2>1. queue[i].count \in Nat
    BY <1>1
  <2> HIDE DEF batch, batches
  <2> QED
    BY <2>1, Batch, ZenonT(30)
<1>6. IsFiniteSet(queuedCards(queue))
  BY <1>4, <1>5, FS_UNION DEF queuedCards
<1> QED
  BY <1>6, FS_CardinalityType

LEMMA NothingQueued ==
    Payable(<<>>) /\ Cardinality(queuedCards(<<>>)) = 0
<1>1. DOMAIN <<>> = {}
  OBVIOUS
<1>2. queuedCards(<<>>) = {}
  BY <1>1 DEF queuedCards
<1>3. <<>> \in Seq({})
  OBVIOUS
<1> QED
  BY <1>1, <1>2, <1>3, FS_EmptySet DEF Payable

LEMMA QueuedAfterAppend ==
    ASSUME NEW queue, Payable(queue), NEW entry, entry.count \in Nat
    PROVE  LET longer == Append(queue, entry)
           IN  /\ Payable(longer)
               /\ Cardinality(queuedCards(longer))
                     = Cardinality(queuedCards(queue)) + entry.count
<1> DEFINE longer == Append(queue, entry)
           last == Len(queue) + 1
           added == {last} \X (1..entry.count)
<1>1. PICK S : /\ queue \in Seq(S)
               /\ \A i \in DOMAIN queue : queue[i].count \in Nat
  BY DEF Payable
<1>2. /\ longer \in Seq(S \cup {entry})
      /\ DOMAIN queue = 1..Len(queue) /\ Len(queue) \in Nat
      /\ DOMAIN longer = DOMAIN queue \cup {last}
      /\ last \notin DOMAIN queue
      /\ longer[last] = entry
      /\ \A i \in DOMAIN queue : longer[i] = queue[i]
  <2>1. queue \in Seq(S \cup {entry})
    BY <1>1, SeqMonotonic
  <2> QED
    BY <2>1, AppendProperties, LenProperties
<1> HIDE DEF longer, last
<1>3. Payable(longer)
  BY <1>1, <1>2 DEF Payable
<1>4. queuedCards(longer) = queuedCards(queue) \cup added
  BY <1>2 DEF queuedCards
<1>5. queuedCards(queue) \cap added = {}
  BY <1>2 DEF queuedCards
<1>6. IsFiniteSet(added) /\ Cardinality(added) = entry.count
  BY Batch
<1> HIDE DEF added
<1>7. /\ IsFiniteSet(queuedCards(queue))
      /\ Cardinality(queuedCards(queue)) \in Nat
  BY QueuedAreFinite
<1>8. Cardinality(queuedCards(longer))
        = Cardinality(queuedCards(queue)) + entry.count
  BY <1>4, <1>5, <1>6, <1>7, Shares
<1> QED
  BY <1>3, <1>8 DEF longer

LEMMA QueuedAfterTail ==
    ASSUME NEW queue, Payable(queue), queue # <<>>
    PROVE  /\ Payable(Tail(queue))
           /\ Head(queue).count \in Nat
           /\ Cardinality(queuedCards(queue))
                 = Cardinality(queuedCards(Tail(queue))) + Head(queue).count
<1> DEFINE rest == Tail(queue)
           first == {1} \X (1..Head(queue).count)
           moved == {<<x[1] + 1, x[2]>> : x \in queuedCards(rest)}
           shift == [x \in queuedCards(rest) |-> <<x[1] + 1, x[2]>>]
<1>1. PICK S : /\ queue \in Seq(S)
               /\ \A i \in DOMAIN queue : queue[i].count \in Nat
  BY DEF Payable
<1>2. /\ rest \in Seq(S)
      /\ Len(queue) \in Nat /\ Len(queue) > 0
      /\ DOMAIN queue = 1..Len(queue)
      /\ DOMAIN rest = 1..(Len(queue) - 1)
      /\ \A i \in DOMAIN rest : rest[i] = queue[i + 1]
      /\ Head(queue) = queue[1]
  BY <1>1, HeadTailProperties, LenProperties, EmptySeq
<1> HIDE DEF rest
<1>3. Payable(rest) /\ Head(queue).count \in Nat
  <2>1. \A i \in DOMAIN rest : i + 1 \in DOMAIN queue
    BY <1>2
  <2> QED
    BY <1>1, <1>2, <2>1 DEF Payable
<1>4. \A x \in queuedCards(rest) :
         x[1] \in Nat /\ x = <<x[1], x[2]>>
  BY <1>2 DEF queuedCards
<1>5. queuedCards(queue) = first \cup moved
  <2>1. \A i \in DOMAIN queue : i = 1 \/ (i - 1 \in DOMAIN rest /\ i = (i - 1) + 1)
    BY <1>2
  <2>2. ASSUME NEW y \in queuedCards(queue) PROVE y \in first \cup moved
    <3>1. PICK i \in DOMAIN queue : y \in {i} \X (1..queue[i].count)
      BY DEF queuedCards
    <3>2. CASE i = 1
      BY <1>2, <3>1, <3>2
    <3>3. CASE i # 1
      <4>1. i - 1 \in DOMAIN rest /\ rest[i - 1] = queue[i] /\ i \in Nat
        BY <1>2, <2>1, <3>3
      <4>2. <<i - 1, y[2]>> \in queuedCards(rest)
        BY <3>1, <4>1 DEF queuedCards
      <4>3. y = <<(i - 1) + 1, y[2]>>
        BY <3>1, <4>1
      <4> QED
        BY <4>2, <4>3
    <3> QED
      BY <3>2, <3>3
  <2>3. ASSUME NEW y \in first \cup moved PROVE y \in queuedCards(queue)
    <3>1. CASE y \in first
      BY <1>2, <3>1 DEF queuedCards
    <3>2. CASE y \in moved
      <4>1. PICK x \in queuedCards(rest) : y = <<x[1] + 1, x[2]>>
        BY <3>2
      <4>2. PICK i \in DOMAIN rest : x \in {i} \X (1..rest[i].count)
        BY DEF queuedCards
      <4>3. /\ i + 1 \in DOMAIN queue
            /\ y \in {i + 1} \X (1..queue[i + 1].count)
        BY <1>2, <4>1, <4>2
      <4> QED
        BY <4>3 DEF queuedCards
    <3> QED
      BY <3>1, <3>2
  <2> QED
    BY <2>2, <2>3
<1>6. first \cap moved = {}
  <2>1. \A x \in queuedCards(rest) : x[1] \in Nat /\ x[1] # 0
    BY <1>2 DEF queuedCards
  <2>2. \A x \in queuedCards(rest) : x[1] + 1 # 1
    BY <2>1
  <2> QED
    BY <2>2
<1>7. shift \in Bijection(queuedCards(rest), moved)
  <2>1. shift \in Surjection(queuedCards(rest), moved)
    BY DEF Surjection
  <2>2. ASSUME NEW x \in queuedCards(rest), NEW y \in queuedCards(rest),
               shift[x] = shift[y]
        PROVE  x = y
    <3>1. x[1] + 1 = y[1] + 1 /\ x[2] = y[2]
      BY <2>2
    <3>2. x[1] = y[1]
      BY <1>4, <3>1
    <3> QED
      BY <1>4, <3>1, <3>2
  <2> QED
    BY <2>1, <2>2 DEF Bijection, Injection, Surjection, IsInjective
<1>8. /\ IsFiniteSet(queuedCards(rest))
      /\ Cardinality(queuedCards(rest)) \in Nat
  BY <1>3, QueuedAreFinite
<1>9. /\ IsFiniteSet(moved)
      /\ Cardinality(moved) = Cardinality(queuedCards(rest))
  BY <1>7, <1>8, FS_Bijection DEF ExistsBijection
<1>10. IsFiniteSet(first) /\ Cardinality(first) = Head(queue).count
  BY <1>3, Batch
<1> HIDE DEF first, moved
<1>11. Cardinality(queuedCards(queue))
         = Cardinality(queuedCards(rest)) + Head(queue).count
  BY <1>3, <1>5, <1>6, <1>8, <1>9, <1>10, Shares
<1> QED
  BY <1>3, <1>11 DEF rest

LEMMA QueuedAfterConcat ==
    ASSUME NEW queue, Payable(queue), NEW more, Payable(more)
    PROVE  /\ Payable(queue \o more)
           /\ Cardinality(queuedCards(queue))
                 <= Cardinality(queuedCards(queue \o more))
<1> DEFINE longer == queue \o more
<1>1. PICK S : /\ queue \in Seq(S)
               /\ \A i \in DOMAIN queue : queue[i].count \in Nat
  BY DEF Payable
<1>2. PICK T : /\ more \in Seq(T)
               /\ \A i \in DOMAIN more : more[i].count \in Nat
  BY DEF Payable
<1>3. queue \in Seq(S \cup T) /\ more \in Seq(S \cup T)
  BY <1>1, <1>2
<1>4. /\ longer \in Seq(S \cup T)
      /\ DOMAIN queue = 1..Len(queue) /\ DOMAIN more = 1..Len(more)
      /\ Len(queue) \in Nat /\ Len(more) \in Nat
      /\ DOMAIN longer = 1..(Len(queue) + Len(more))
      /\ \A i \in DOMAIN longer :
            longer[i] = IF i <= Len(queue) THEN queue[i]
                        ELSE more[i - Len(queue)]
  BY <1>3, ConcatProperties, LenProperties
<1> HIDE DEF longer
<1>5. Payable(longer)
  <2>1. \A i \in DOMAIN longer :
           /\ i <= Len(queue) => i \in DOMAIN queue
           /\ ~(i <= Len(queue)) => i - Len(queue) \in DOMAIN more
    BY <1>4
  <2> QED
    BY <1>1, <1>2, <1>4, <2>1 DEF Payable
<1>6. queuedCards(queue) \subseteq queuedCards(longer)
  <2>1. \A i \in DOMAIN queue : i \in DOMAIN longer /\ longer[i] = queue[i]
    BY <1>4
  <2> QED
    BY <2>1 DEF queuedCards
<1>7. Cardinality(queuedCards(queue)) <= Cardinality(queuedCards(longer))
  BY <1>5, <1>6, QueuedAreFinite, FS_Subset
<1> QED
  BY <1>5, <1>7 DEF longer

(***************************************************************************)
(* What a state owes                                                       *)
(***************************************************************************)

(* A penalty is paid, and a stack answered, only while the round is played. *)
Due(phase, draws, stack, rules) ==
    /\ draws \in Nat /\ stack \in Nat
    /\ draws # 0 \/ stack # 0 => phase = "playing"
    /\ stack # 0 => rules \cap StackingRule # {}

(* The penalties of s are in order, and k cards of them are unpaid unless   *)
(* the round is over.                                                       *)
Owes(s, k) ==
    /\ DOMAIN s = StateField
    /\ Due(s.phase, s.pendingPenaltyDraws, s.drawStack, s.houseRules)
    /\ Payable(s.pendingPenaltyQueue)
    /\ ~terminal(s) => k <= cardsOwed(s)

(* No card is owed at once.                                                 *)
Idle(s) == s.pendingPenaltyDraws = 0 /\ s.drawStack = 0

LEMMA OwedIsNatural ==
    ASSUME NEW s, NEW k, Owes(s, k)
    PROVE  cardsOwed(s) \in Nat /\ Owes(s, 0)
<1>1. Cardinality(queuedCards(s.pendingPenaltyQueue)) \in Nat
  BY QueuedAreFinite DEF Owes
<1> QED
  BY <1>1 DEF Owes, Due, cardsOwed

LEMMA OutOfPlayIsIdle ==
    ASSUME NEW s, NEW k, Owes(s, k), s.phase # "playing"
    PROVE  Idle(s)
BY DEF Owes, Due, Idle

LEMMA DefaultsOwe ==
    ASSUME NEW s, DOMAIN s = StateField
    PROVE  LET t == withPenaltyStateDefaults(s)
           IN  /\ Owes(t, 0) /\ Idle(t) /\ cardsOwed(t) = 0
               /\ terminal(s) => \A k : Owes(t, k)
<1> DEFINE t == withPenaltyStateDefaults(s)
<1>1. /\ DOMAIN t = StateField /\ t.phase = s.phase
      /\ t.pendingPenaltyDraws = 0 /\ t.drawStack = 0
      /\ t.pendingPenaltyQueue = <<>>
  BY DEF StateField, withPenaltyStateDefaults
<1> HIDE DEF t
<1>2. /\ DOMAIN t = StateField /\ Payable(t.pendingPenaltyQueue)
      /\ Due(t.phase, t.pendingPenaltyDraws, t.drawStack, t.houseRules)
      /\ cardsOwed(t) = 0
  BY <1>1, NothingQueued DEF Due, cardsOwed
<1>3. terminal(t) <=> terminal(s)
  BY <1>1 DEF terminal
<1> QED
  BY <1>1, <1>2, <1>3 DEF Owes, Idle, t

LEMMA CheckRoundEndOwes ==
    ASSUME NEW s, NEW k, Owes(s, k), NEW p
    PROVE  LET t == checkRoundEnd(s, p)
           IN  /\ Owes(t, k)
               /\ Idle(s) => Idle(t)
               /\ t = s \/ (terminal(t) /\ Idle(t) /\ cardsOwed(t) = 0)
<1> DEFINE total == s.score[p] + RoundScore(s, p)
           decided == [s EXCEPT !.score[p] = total,
                                !.roundWins[p] = @ + 1,
                                !.phase = IF total >= TargetScore
                                          THEN "game_over" ELSE "round_end",
                                !.winnerId = p]
<1>1. DOMAIN decided = StateField /\ terminal(decided)
  BY DEF Owes, StateField, terminal, TerminalPhase
<1> HIDE DEF decided
<1> DEFINE ended == withPenaltyStateDefaults(decided)
<1>2. /\ Owes(ended, k) /\ Idle(ended) /\ cardsOwed(ended) = 0
      /\ terminal(ended)
  <2>1. ended.phase = decided.phase
    BY <1>1 DEF StateField, withPenaltyStateDefaults
  <2> QED
    BY <1>1, <2>1, DefaultsOwe DEF terminal
<1>3. checkRoundEnd(s, p) = s \/ checkRoundEnd(s, p) = ended
  BY DEF checkRoundEnd, decided
<1> HIDE DEF ended
<1> QED
  BY <1>2, <1>3

(* A penalty adds its cards to what is owed, whether it starts or waits.    *)
LEMMA StartPenaltyDrawOwes ==
    ASSUME NEW s, NEW k \in Int, Owes(s, k), NEW p, NEW count \in Nat,
           NEW next, NEW source
    PROVE  LET t == startPenaltyDraw(s, p, count, next, source)
           IN  /\ Owes(t, k + count)
               /\ Owes(t, k)
               /\ cardsOwed(t) = cardsOwed(s) + count
<1> DEFINE entry == [playerId |-> p, count |-> count,
                     nextPlayerIndex |-> next, sourcePlayerId |-> source]
           waiting == [s EXCEPT !.pendingPenaltyQueue = Append(@, entry)]
           started == [s EXCEPT !.currentPlayerIndex = p,
                                !.pendingPenaltyDraws = count,
                                !.pendingPenaltyNextPlayerIndex = next,
                                !.pendingPenaltySourcePlayerId = source]
           queued == Cardinality(queuedCards(s.pendingPenaltyQueue))
           Adds(t) == /\ Owes(t, k + count) /\ Owes(t, k)
                      /\ cardsOwed(t) = cardsOwed(s) + count
<1>1. /\ DOMAIN s = StateField
      /\ Due(s.phase, s.pendingPenaltyDraws, s.drawStack, s.houseRules)
      /\ Payable(s.pendingPenaltyQueue)
      /\ ~terminal(s) => k <= cardsOwed(s)
      /\ cardsOwed(s) = s.pendingPenaltyDraws + s.drawStack + queued
      /\ queued \in Nat
      /\ s.pendingPenaltyDraws \in Nat /\ s.drawStack \in Nat
  BY QueuedAreFinite DEF Owes, Due, cardsOwed
<1>2. Adds(waiting)
  <2> DEFINE longer == Append(s.pendingPenaltyQueue, entry)
  <2>1. /\ DOMAIN waiting = StateField /\ waiting.phase = s.phase
        /\ waiting.pendingPenaltyQueue = longer
        /\ waiting.houseRules = s.houseRules
        /\ waiting.pendingPenaltyDraws = s.pendingPenaltyDraws
        /\ waiting.drawStack = s.drawStack
    BY <1>1 DEF StateField
  <2>2. /\ Payable(longer)
        /\ Cardinality(queuedCards(longer)) = queued + count
    BY <1>1, QueuedAfterAppend
  <2> HIDE DEF waiting, longer, queued
  <2>3. cardsOwed(waiting) = cardsOwed(s) + count
    BY <1>1, <2>1, <2>2 DEF cardsOwed
  <2> QED
    BY <1>1, <2>1, <2>2, <2>3 DEF Owes, terminal
<1>3. s.pendingPenaltyDraws = 0 /\ s.phase = "playing" => Adds(started)
  <2> SUFFICES ASSUME s.pendingPenaltyDraws = 0, s.phase = "playing"
               PROVE  Adds(started)
    OBVIOUS
  <2>1. /\ DOMAIN started = StateField /\ started.phase = s.phase
        /\ started.pendingPenaltyQueue = s.pendingPenaltyQueue
        /\ started.houseRules = s.houseRules
        /\ started.pendingPenaltyDraws = count
        /\ started.drawStack = s.drawStack
    BY <1>1 DEF StateField
  <2> HIDE DEF started
  <2>2. cardsOwed(started) = cardsOwed(s) + count
    BY <1>1, <2>1 DEF cardsOwed
  <2>3. Due(started.phase, started.pendingPenaltyDraws, started.drawStack,
            started.houseRules)
    BY <1>1, <2>1 DEF Due
  <2> HIDE DEF queued
  <2> QED
    BY <1>1, <2>1, <2>2, <2>3 DEF Owes, terminal
<1>4. count = 0 => Adds(s)
  BY <1>1
<1> HIDE DEF Adds, waiting, started
<1>5. Adds(startPenaltyDraw(s, p, count, next, source))
  BY <1>1, <1>2, <1>3, <1>4 DEF startPenaltyDraw, waiting, started
<1> QED
  BY <1>5 DEF Adds

LEMMA StartQueuedPenaltyOwes ==
    ASSUME NEW s, NEW k \in Int, Owes(s, k), s.pendingPenaltyQueue # <<>>
    PROVE  /\ Owes(startQueuedPenalty(s), k)
           /\ cardsOwed(startQueuedPenalty(s)) = cardsOwed(s)
<1> DEFINE first == Head(s.pendingPenaltyQueue)
           rest == [s EXCEPT !.pendingPenaltyQueue = Tail(@)]
           queued == Cardinality(queuedCards(s.pendingPenaltyQueue))
           left == Cardinality(queuedCards(Tail(s.pendingPenaltyQueue)))
<1>1. /\ DOMAIN s = StateField
      /\ Due(s.phase, s.pendingPenaltyDraws, s.drawStack, s.houseRules)
      /\ ~terminal(s) => k <= cardsOwed(s)
      /\ cardsOwed(s) = s.pendingPenaltyDraws + s.drawStack + queued
      /\ s.pendingPenaltyDraws \in Nat /\ s.drawStack \in Nat
  BY DEF Owes, Due, cardsOwed
<1>2. /\ Payable(Tail(s.pendingPenaltyQueue))
      /\ first.count \in Nat
      /\ queued = left + first.count
      /\ left \in Nat
  BY QueuedAfterTail, QueuedAreFinite DEF Owes
<1>3. /\ DOMAIN rest = StateField /\ rest.phase = s.phase
      /\ rest.pendingPenaltyQueue = Tail(s.pendingPenaltyQueue)
      /\ rest.houseRules = s.houseRules
      /\ rest.pendingPenaltyDraws = s.pendingPenaltyDraws
      /\ rest.drawStack = s.drawStack
  BY <1>1 DEF StateField
<1> HIDE DEF rest, queued
<1>4. cardsOwed(rest) = s.pendingPenaltyDraws + s.drawStack + left
  BY <1>3 DEF cardsOwed
<1> HIDE DEF left, first
<1>5. cardsOwed(s) = cardsOwed(rest) + first.count
  BY <1>1, <1>2, <1>4
<1>6. Owes(rest, k - first.count)
  BY <1>1, <1>2, <1>3, <1>4, <1>5 DEF Owes, terminal
<1>7. \A p, next, source :
         LET t == startPenaltyDraw(rest, p, first.count, next, source)
         IN  /\ Owes(t, (k - first.count) + first.count)
             /\ cardsOwed(t) = cardsOwed(rest) + first.count
  BY <1>2, <1>6, StartPenaltyDrawOwes
<1>8. (k - first.count) + first.count = k
  BY <1>2
<1> QED
  BY <1>5, <1>7, <1>8 DEF startQueuedPenalty, rest, first

LEMMA DrainPenaltyQueueOwes ==
    ASSUME NEW s, NEW k \in Int, Owes(s, k)
    PROVE  Owes(drainPenaltyQueue(s), k)
BY StartQueuedPenaltyOwes DEF drainPenaltyQueue

(***************************************************************************)
(* Draws                                                                   *)
(***************************************************************************)

(* The fields a draw leaves alone as far as penalties go.                   *)
SameDebt(s, t) ==
    /\ DOMAIN t = StateField
    /\ t.phase = s.phase /\ t.houseRules = s.houseRules
    /\ t.pendingPenaltyDraws = s.pendingPenaltyDraws
    /\ t.drawStack = s.drawStack
    /\ t.pendingPenaltyQueue = s.pendingPenaltyQueue
    /\ t.pendingDrawPlayerId = s.pendingDrawPlayerId
    /\ t.pendingRevengeDraws = s.pendingRevengeDraws

LEMMA SameDebtOwes ==
    ASSUME NEW s, NEW k, Owes(s, k), NEW t, SameDebt(s, t)
    PROVE  Owes(t, k) /\ cardsOwed(t) = cardsOwed(s)
BY DEF SameDebt, Owes, terminal, cardsOwed

LEMMA DrawCardsOwe ==
    ASSUME NEW s, DOMAIN s = StateField, NEW p, NEW side, NEW card
    PROVE  SameDebt(s, drawCards(s, p, side, card))
<1> DEFINE refilled == withSideRefilled(s, side)
           drawn == [refilled EXCEPT !.deck[side] = @ \ {card},
                                     !.hand[p] = @ \cup {card},
                                     !.calledUno[p] = FALSE,
                                     !.unoCaught[p] = FALSE]
<1>1. SameDebt(s, refilled)
  BY DEF SameDebt, StateField, withSideRefilled
<1> HIDE DEF refilled
<1>2. SameDebt(s, drawn)
  BY <1>1 DEF SameDebt, StateField
<1> HIDE DEF drawn
<1> QED
  BY <1>1, <1>2 DEF drawCards, refilled, drawn

(* The cards are where they were.                                           *)
SamePlaces(s, t) ==
    /\ t.hand = s.hand /\ t.deck = s.deck /\ t.discardPile = s.discardPile

LEMMA CheckRoundEndKeepsPlaces ==
    ASSUME NEW s, DOMAIN s = StateField, NEW p
    PROVE  SamePlaces(s, checkRoundEnd(s, p))
<1> DEFINE total == s.score[p] + RoundScore(s, p)
           decided == [s EXCEPT !.score[p] = total,
                                !.roundWins[p] = @ + 1,
                                !.phase = IF total >= TargetScore
                                          THEN "game_over" ELSE "round_end",
                                !.winnerId = p]
<1>1. DOMAIN decided = StateField /\ SamePlaces(s, decided)
  BY DEF StateField, SamePlaces
<1> HIDE DEF decided
<1>2. SamePlaces(decided, withPenaltyStateDefaults(decided))
  BY <1>1 DEF StateField, SamePlaces, withPenaltyStateDefaults
<1> QED
  BY <1>1, <1>2 DEF checkRoundEnd, decided, SamePlaces

LEMMA StartQueuedKeepsPlaces ==
    ASSUME NEW s, DOMAIN s = StateField
    PROVE  SamePlaces(s, startQueuedPenalty(s))
<1> DEFINE rest == [s EXCEPT !.pendingPenaltyQueue = Tail(@)]
<1>1. DOMAIN rest = StateField /\ SamePlaces(s, rest)
  BY DEF StateField, SamePlaces
<1> HIDE DEF rest
<1>2. \A p, count, next, source :
         SamePlaces(rest, startPenaltyDraw(rest, p, count, next, source))
  BY <1>1 DEF StateField, SamePlaces, startPenaltyDraw
<1>3. SamePlaces(rest, startQueuedPenalty(s))
  BY <1>2 DEF startQueuedPenalty, rest
<1> QED
  BY <1>1, <1>3 DEF SamePlaces

(* A card drawn for a penalty pays one card, unless it was the last there   *)
(* was: then the rest of this penalty is forgiven.                          *)
LEMMA FinishPenaltyDrawOwes ==
    ASSUME NEW s, NEW k, Owes(s, k), s.pendingPenaltyDraws > 0,
           NEW lastAction
    PROVE  LET t == finishPenaltyDrawIfNeeded(s, lastAction)
           IN  /\ Owes(t, 0)
               /\ SamePlaces(s, t)
               /\ \/ terminal(t) /\ Idle(t) /\ cardsOwed(t) = 0
                     /\ (s.pendingPenaltyDraws = 1 \/ ~hasCardsAvailable(t))
                  \/ /\ cardsOwed(t) = cardsOwed(s) - 1
                     /\ \/ s.pendingPenaltyDraws = 1
                        \/ t.currentPlayerIndex = s.currentPlayerIndex
                  \/ ~hasCardsAvailable(t)
<1> DEFINE queued == Cardinality(queuedCards(s.pendingPenaltyQueue))
           paid == [s EXCEPT !.pendingPenaltyDraws = 0,
                             !.pendingPenaltyNextPlayerIndex = null,
                             !.pendingPenaltySourcePlayerId = null,
                             !.lastAction = lastAction]
           finished == [paid EXCEPT
                          !.currentPlayerIndex = s.pendingPenaltyNextPlayerIndex]
           paying == [s EXCEPT !.pendingPenaltyDraws = @ - 1,
                               !.lastAction = lastAction]
           result == finishPenaltyDrawIfNeeded(s, lastAction)
           less == cardsOwed(s) - s.pendingPenaltyDraws
<1>1. /\ DOMAIN s = StateField
      /\ Due(s.phase, s.pendingPenaltyDraws, s.drawStack, s.houseRules)
      /\ Payable(s.pendingPenaltyQueue)
      /\ s.phase = "playing" /\ ~terminal(s)
      /\ cardsOwed(s) = s.pendingPenaltyDraws + s.drawStack + queued
      /\ queued \in Nat /\ s.pendingPenaltyDraws \in Nat /\ s.drawStack \in Nat
  BY QueuedAreFinite DEF Owes, Due, cardsOwed, terminal, TerminalPhase
<1>2. \A t : SamePlaces(s, t) => (hasCardsAvailable(t) <=> hasCardsAvailable(s))
  BY DEF SamePlaces, hasCardsAvailable
<1> DEFINE Like(t) == /\ DOMAIN t = StateField /\ t.phase = "playing"
                      /\ t.drawStack = s.drawStack
                      /\ t.pendingPenaltyQueue = s.pendingPenaltyQueue
                      /\ t.houseRules = s.houseRules
                      /\ SamePlaces(s, t)
<1>3. ASSUME NEW t, Like(t), t.pendingPenaltyDraws \in Nat
      PROVE  /\ Owes(t, 0) /\ SamePlaces(s, t)
             /\ cardsOwed(t) = less + t.pendingPenaltyDraws
  <2>1. cardsOwed(t) = t.pendingPenaltyDraws + s.drawStack + queued
    BY <1>3 DEF cardsOwed
  <2>2. Due(t.phase, t.pendingPenaltyDraws, t.drawStack, t.houseRules)
    BY <1>1, <1>3 DEF Due
  <2> HIDE DEF queued
  <2>3. cardsOwed(t) = less + t.pendingPenaltyDraws /\ 0 <= cardsOwed(t)
    BY <1>1, <1>3, <2>1
  <2> HIDE DEF less
  <2> QED
    BY <1>1, <1>3, <2>2, <2>3 DEF Owes
<1>4. /\ Owes(paid, 0) /\ SamePlaces(s, paid) /\ cardsOwed(paid) = less
      /\ Owes(finished, 0) /\ SamePlaces(s, finished)
      /\ cardsOwed(finished) = less
  <2>1. /\ Like(paid) /\ paid.pendingPenaltyDraws = 0
        /\ Like(finished) /\ finished.pendingPenaltyDraws = 0
    BY <1>1 DEF StateField, SamePlaces
  <2>2. less + 0 = less
    BY <1>1
  <2> HIDE DEF paid, finished, less, Like
  <2> QED
    BY <1>3, <2>1, <2>2
<1>5. /\ Owes(paying, 0) /\ SamePlaces(s, paying)
      /\ cardsOwed(paying) = cardsOwed(s) - 1
      /\ paying.currentPlayerIndex = s.currentPlayerIndex
  <2>1. /\ Like(paying)
        /\ paying.pendingPenaltyDraws = s.pendingPenaltyDraws - 1
        /\ paying.currentPlayerIndex = s.currentPlayerIndex
    BY <1>1 DEF StateField, SamePlaces
  <2>2. /\ s.pendingPenaltyDraws - 1 \in Nat
        /\ less + (s.pendingPenaltyDraws - 1) = cardsOwed(s) - 1
    BY <1>1
  <2> HIDE DEF paying, less, Like
  <2> QED
    BY <1>3, <2>1, <2>2
<1>6. s.pendingPenaltyDraws = 1 => less = cardsOwed(s) - 1
  BY <1>1
<1>7. /\ DOMAIN paid = StateField /\ DOMAIN finished = StateField
      /\ paid.pendingPenaltyQueue = s.pendingPenaltyQueue
  BY <1>1 DEF StateField
<1> HIDE DEF paid, finished, paying, less, queued, Like
<1>8. CASE hasCardsAvailable(s) /\ s.pendingPenaltyDraws > 1
  BY <1>5, <1>8 DEF finishPenaltyDrawIfNeeded, paying
<1>9. CASE ~(hasCardsAvailable(s) /\ s.pendingPenaltyDraws > 1)
  <2>1. s.pendingPenaltyDraws = 1 \/ ~hasCardsAvailable(s)
    BY <1>1, <1>9
  <2>2. CASE s.pendingPenaltyQueue # <<>>
    <3> DEFINE started == startQueuedPenalty(paid)
    <3>1. /\ Owes(started, 0) /\ cardsOwed(started) = less
          /\ SamePlaces(s, started)
      BY <1>4, <1>7, <2>2, StartQueuedPenaltyOwes, StartQueuedKeepsPlaces
         DEF SamePlaces
    <3>2. result = started
      BY <1>9, <2>2 DEF finishPenaltyDrawIfNeeded, paid
    <3> HIDE DEF started, result
    <3> QED
      BY <1>2, <1>6, <2>1, <3>1, <3>2 DEF result
  <2>3. CASE s.pendingPenaltyQueue = <<>>
    <3> DEFINE checked == checkRoundEnd(finished, s.pendingPenaltySourcePlayerId)
    <3>1. /\ Owes(checked, 0) /\ SamePlaces(s, checked)
          /\ \/ checked = finished
             \/ terminal(checked) /\ Idle(checked) /\ cardsOwed(checked) = 0
      BY <1>4, <1>7, CheckRoundEndOwes, CheckRoundEndKeepsPlaces
         DEF SamePlaces
    <3>2. result = checked \/ result = finished
      BY <1>9, <2>3 DEF finishPenaltyDrawIfNeeded, finished, paid
    <3> HIDE DEF checked, result
    <3>3. /\ Owes(result, 0) /\ SamePlaces(s, result)
          /\ \/ result = finished
             \/ terminal(result) /\ Idle(result) /\ cardsOwed(result) = 0
      BY <1>4, <3>1, <3>2
    <3> QED
      BY <1>2, <1>4, <1>6, <2>1, <3>3 DEF result
  <2> QED
    BY <2>2, <2>3
<1> QED
  BY <1>8, <1>9

(* A draw pays at most the active penalty; what it draws joins the hand.    *)
LEMMA HandleDrawCardOwes ==
    ASSUME NEW s, NEW k \in Int, Owes(s, k), NEW p, NEW side, NEW card
    PROVE  LET t == handleDrawCard(s, p, side, card)
           IN  /\ Owes(t, 0)
               /\ s.pendingPenaltyDraws = 0 =>
                     Owes(t, k) /\ (Idle(s) => Idle(t))
<1> DEFINE drawn == drawCards(s, p, side, card)
           told == [drawn EXCEPT !.lastAction = Acted("DRAW_CARD", p)]
<1>1. SameDebt(s, drawn) /\ DOMAIN drawn = StateField
  BY DrawCardsOwe DEF Owes, SameDebt
<1> HIDE DEF drawn
<1>2. Owes(drawn, k) /\ drawn.pendingPenaltyDraws = s.pendingPenaltyDraws
  BY <1>1, SameDebtOwes DEF SameDebt
<1>3. SameDebt(s, told)
  BY <1>1 DEF SameDebt, StateField
<1> HIDE DEF told
<1>4. Owes(told, k) /\ Owes(told, 0) /\ (Idle(s) => Idle(told))
  BY <1>3, SameDebtOwes, OwedIsNatural DEF SameDebt, Idle
<1>5. s.pendingPenaltyDraws > 0 =>
         Owes(finishPenaltyDrawIfNeeded(drawn, Acted("DRAW_CARD", p)), 0)
  BY <1>2, FinishPenaltyDrawOwes
<1>6. s.pendingPenaltyDraws \in Nat
  BY DEF Owes, Due
<1> QED
  BY <1>2, <1>4, <1>5, <1>6 DEF handleDrawCard, drawn, told

LEMMA ResolveStackOwes ==
    ASSUME NEW s, NEW k, Owes(s, k), NEW p, NEW side, NEW card
    PROVE  Owes(resolveStack(s, p, side, card), 0)
<1> DEFINE taken == [s EXCEPT !.drawStack = 0,
                              !.lastAction = Acted("DRAW_CARD", p)]
<1>1. Owes(s, 0) /\ s.drawStack \in Nat
  BY OwedIsNatural DEF Owes, Due
<1>2. Owes(taken, 0)
  <2>1. /\ DOMAIN taken = StateField /\ taken.phase = s.phase
        /\ taken.pendingPenaltyDraws = s.pendingPenaltyDraws
        /\ taken.drawStack = 0
        /\ taken.pendingPenaltyQueue = s.pendingPenaltyQueue
    BY DEF Owes, StateField
  <2> HIDE DEF taken
  <2>2. Due(taken.phase, taken.pendingPenaltyDraws, taken.drawStack,
            taken.houseRules)
    BY <2>1 DEF Owes, Due
  <2>3. 0 <= cardsOwed(taken)
    BY <2>1, <2>2, QueuedAreFinite DEF Owes, Due, cardsOwed
  <2> QED
    BY <2>1, <2>2, <2>3 DEF Owes
<1> HIDE DEF taken
<1>3. \A next, source :
         Owes(startPenaltyDraw(taken, p, s.drawStack, next, source), 0)
  BY <1>1, <1>2, StartPenaltyDrawOwes
<1> QED
  BY <1>3, HandleDrawCardOwes DEF resolveStack, taken

(***************************************************************************)
(* Plays                                                                   *)
(***************************************************************************)
LEMMA DiscardOwes ==
    ASSUME NEW s, DOMAIN s = StateField, NEW p, NEW c
    PROVE  /\ SameDebt(s, withCardDiscarded(s, p, c))
           /\ SameDebt(s, withUnoFlagsAfterPlay(withCardDiscarded(s, p, c), p))
<1> DEFINE played == withCardDiscarded(s, p, c)
<1>1. SameDebt(s, played)
  BY DEF SameDebt, StateField, withCardDiscarded
<1> HIDE DEF played
<1>2. SameDebt(s, withUnoFlagsAfterPlay(played, p))
  BY <1>1 DEF SameDebt, StateField, withUnoFlagsAfterPlay
<1> QED
  BY <1>1, <1>2 DEF played

(* With nothing owed at once the phase may change.                          *)
LEMMA PhaseOwes ==
    ASSUME NEW s, NEW k, Owes(s, k), Idle(s), ~terminal(s),
           NEW t, DOMAIN t = StateField, Idle(t),
           t.pendingPenaltyQueue = s.pendingPenaltyQueue
    PROVE  Owes(t, k)
BY DEF Owes, Due, Idle, cardsOwed

(* In the playing phase what is owed may grow.                              *)
LEMMA PlayingOwes ==
    ASSUME NEW s, NEW k, Owes(s, k), ~terminal(s),
           NEW t, DOMAIN t = StateField, t.phase = "playing",
           t.pendingPenaltyDraws = s.pendingPenaltyDraws,
           t.drawStack = s.drawStack, t.houseRules = s.houseRules,
           t.pendingPenaltyQueue = s.pendingPenaltyQueue
    PROVE  Owes(t, k)
BY DEF Owes, Due, cardsOwed

LEMMA CardEffectOwes ==
    ASSUME NEW s, NEW k \in Int, Owes(s, k), Idle(s), ~terminal(s),
           NEW p, NEW c \in Deck
    PROVE  /\ Owes(withCardEffect(s, p, c), k)
           /\ type[c] = "number" => Idle(withCardEffect(s, p, c))
<1> DEFINE next == getNextAliveIndex(s.eliminated, p, s.direction)
           afterNext == skipNextAliveIndex(s.eliminated, p, s.direction)
           colored == [s EXCEPT !.currentColor = color[c]]
           Like(t) == /\ DOMAIN t = StateField /\ Idle(t)
                      /\ t.pendingPenaltyQueue = s.pendingPenaltyQueue
<1>1. type[c] \in CardType /\ DOMAIN s = StateField
  BY DeckAssumption DEF Owes
<1>2. ASSUME NEW turn, NEW direction
      PROVE  /\ Like([s EXCEPT !.currentColor = color[c],
                               !.currentPlayerIndex = turn])
             /\ Like([s EXCEPT !.currentColor = color[c],
                               !.direction = direction,
                               !.currentPlayerIndex = turn])
  BY <1>1 DEF Idle, StateField
<1>3. /\ Like(colored)
      /\ Like([s EXCEPT !.phase = "choosing_color"])
      /\ Like([s EXCEPT !.phase = "choosing_color",
                        !.pendingDrawPlayerId = next])
  BY <1>1 DEF Idle, StateField
<1>4. \A t : Like(t) => Owes(t, k) /\ Idle(t)
  BY PhaseOwes
<1> HIDE DEF Like, colored
<1>5. Owes(startPenaltyDraw(colored, next, 2, afterNext, p), k)
  BY <1>3, <1>4, StartPenaltyDrawOwes
<1> HIDE DEF next, afterNext
<1> QED
  BY <1>1, <1>2, <1>3, <1>4, <1>5
     DEF withCardEffect, CardType, next, afterNext, colored

LEMMA HandlePlayCardOwes ==
    ASSUME NEW s, NEW k \in Int, Owes(s, k), Idle(s), ~terminal(s),
           NEW p, NEW c \in Deck
    PROVE  /\ Owes(handlePlayCard(s, p, c), k)
           /\ type[c] = "number" => Idle(handlePlayCard(s, p, c))
<1> DEFINE flagged == withUnoFlagsAfterPlay(withCardDiscarded(s, p, c), p)
           played == withCardEffect(flagged, p, c)
<1>1. Owes(flagged, k) /\ Idle(flagged) /\ ~terminal(flagged)
  BY DiscardOwes, SameDebtOwes DEF Owes, SameDebt, Idle, terminal
<1> HIDE DEF flagged
<1>2. Owes(played, k) /\ (type[c] = "number" => Idle(played))
  BY <1>1, CardEffectOwes
<1> HIDE DEF played
<1> QED
  BY <1>2, CheckRoundEndOwes DEF handlePlayCard, played, flagged

(* zeroRotate, sevenSwapPost, revengeMode and multiPlayPost.                *)
LEMMA TurnPluginsOwe ==
    ASSUME NEW before, NEW after, NEW k \in Int, Owes(after, k), NEW c
    PROVE  /\ Owes(zeroRotate(before, after, c), k)
           /\ Idle(after) => Idle(zeroRotate(before, after, c))
           /\ (type[c] = "number" => Idle(after)) =>
                 Owes(sevenSwapPost(before, after, c), k)
           /\ Owes(revengeMode(before, after, c), k)
           /\ Owes(multiPlayPost(before, after, c), k)
<1>1. DOMAIN after = StateField
  BY DEF Owes
<1>2. /\ Owes(zeroRotate(before, after, c), k)
      /\ Idle(after) => Idle(zeroRotate(before, after, c))
  <2>1. \A hands : /\ SameDebt(after, [after EXCEPT !.hand = hands])
                   /\ Idle(after) => Idle([after EXCEPT !.hand = hands])
    BY <1>1 DEF SameDebt, StateField, Idle
  <2> QED
    BY <2>1, SameDebtOwes DEF zeroRotate
<1>3. (type[c] = "number" => Idle(after)) =>
         Owes(sevenSwapPost(before, after, c), k)
  <2> DEFINE swapping == [after EXCEPT
                            !.phase = "choosing_swap_target",
                            !.currentPlayerIndex = before.currentPlayerIndex]
  <2>1. Idle(after) /\ ~terminal(after) => Owes(swapping, k)
    <3>1. /\ DOMAIN swapping = StateField
          /\ Idle(after) => Idle(swapping)
          /\ swapping.pendingPenaltyQueue = after.pendingPenaltyQueue
      BY <1>1 DEF StateField, Idle
    <3> HIDE DEF swapping
    <3> QED
      BY <3>1, PhaseOwes
  <2> HIDE DEF swapping
  <2>2. playedNumber(before, c, 7) => type[c] = "number"
    BY DEF playedNumber, isNumberCard
  <2> QED
    BY <2>1, <2>2 DEF sevenSwapPost, swapping
<1>4. Owes(revengeMode(before, after, c), k)
  <2>1. Owes([after EXCEPT !.pendingRevengeDraws = @ + 4], k)
    BY <1>1 DEF Owes, StateField, terminal, cardsOwed
  <2>2. \A p, next, source : Owes(startPenaltyDraw(after, p, 2, next, source), k)
    BY StartPenaltyDrawOwes
  <2> QED
    BY <2>1, <2>2 DEF revengeMode
<1>5. Owes(multiPlayPost(before, after, c), k)
  <2>1. \A turn : SameDebt(after, [after EXCEPT !.currentPlayerIndex = turn])
    BY <1>1 DEF SameDebt, StateField
  <2> QED
    BY <2>1, SameDebtOwes DEF multiPlayPost
<1> QED
  BY <1>2, <1>3, <1>4, <1>5

(* doubleScore, teamMode and elimination: who is out changes, not what is   *)
(* owed, nor whose turn it is, nor where the cards are.                     *)
LEMMA SettleRoundOwes ==
    ASSUME NEW before, NEW after, NEW k, Owes(after, k)
    PROVE  LET t == settleRound(before, after)
           IN  /\ Owes(t, k)
               /\ SamePlaces(after, t)
               /\ cardsOwed(t) = cardsOwed(after)
               /\ t.currentPlayerIndex = after.currentPlayerIndex
               /\ terminal(t) <=> terminal(after)
<1> DEFINE Like(t) == /\ DOMAIN t = StateField
                      /\ t.houseRules = after.houseRules
                      /\ t.pendingPenaltyDraws = after.pendingPenaltyDraws
                      /\ t.drawStack = after.drawStack
                      /\ t.pendingPenaltyQueue = after.pendingPenaltyQueue
                      /\ t.currentPlayerIndex = after.currentPlayerIndex
                      /\ t.hand = after.hand /\ t.deck = after.deck
                      /\ t.discardPile = after.discardPile
           Same(t) == Like(t) /\ t.phase = after.phase
           Ended(t) == Like(t) /\ after.phase = "round_end"
                       /\ t.phase = "game_over"
           doubled == doubleScore(before, after)
           shared == teamMode(before, doubled)
           loser == CHOOSE p \in Seat : IsLoser(shared, p)
           without == [shared EXCEPT !.eliminated[loser] = TRUE]
           settled == settleRound(before, after)
<1>1. DOMAIN after = StateField
  BY DEF Owes
<1>2. Same(doubled)
  <2>1. \A w, total : Same([after EXCEPT !.score[w] = total])
    BY <1>1 DEF StateField
  <2>2. Same(after)
    BY <1>1
  <2> HIDE DEF Same
  <2> QED
    BY <2>1, <2>2 DEF doubleScore
<1> HIDE DEF doubled
<1>3. Same(shared)
  <2>1. \A score : Same([doubled EXCEPT !.score = score])
    BY <1>2 DEF StateField
  <2> HIDE DEF Same
  <2> QED
    BY <1>2, <2>1 DEF teamMode
<1> HIDE DEF shared
<1>4. /\ Same(without)
      /\ shared.phase = "round_end" =>
            \A w : Ended([without EXCEPT !.phase = "game_over", !.winnerId = w])
  BY <1>3 DEF StateField
<1> HIDE DEF without, Ended, Same
<1>5. Same(settled) \/ Ended(settled)
  BY <1>3, <1>4 DEF settleRound, elimination, shared, doubled, without, loser
<1>6. /\ Like(settled)
      /\ \/ settled.phase = after.phase
         \/ settled.phase = "game_over" /\ after.phase = "round_end"
  BY <1>5 DEF Same, Ended
<1> HIDE DEF settled
<1>7. /\ terminal(settled) <=> terminal(after)
      /\ cardsOwed(settled) = cardsOwed(after)
      /\ SamePlaces(after, settled)
  BY <1>6 DEF terminal, TerminalPhase, cardsOwed, SamePlaces
<1>8. Owes(settled, k)
  BY <1>6, <1>7 DEF Owes, Due
<1> QED
  BY <1>6, <1>7, <1>8 DEF settled

LEMMA PostProcessPlayOwes ==
    ASSUME NEW before, NEW after, NEW k \in Int, Owes(after, k), NEW c,
           type[c] = "number" => Idle(after)
    PROVE  Owes(postProcessPlay(before, after, c), k)
<1> DEFINE rotated == zeroRotate(before, after, c)
           swapped == sevenSwapPost(before, rotated, c)
           avenged == revengeMode(before, swapped, c)
           played == multiPlayPost(before, avenged, c)
<1>1. Owes(rotated, k) /\ (type[c] = "number" => Idle(rotated))
  BY TurnPluginsOwe
<1> HIDE DEF rotated
<1>2. Owes(swapped, k)
  BY <1>1, TurnPluginsOwe
<1> HIDE DEF swapped
<1>3. Owes(avenged, k)
  BY <1>2, TurnPluginsOwe
<1> HIDE DEF avenged
<1>4. Owes(played, k)
  BY <1>3, TurnPluginsOwe
<1> HIDE DEF played
<1> QED
  BY <1>4, SettleRoundOwes
     DEF postProcessPlay, played, avenged, swapped, rotated

LEMMA PostProcessDrawOwes ==
    ASSUME NEW before, NEW after, NEW k \in Int, Owes(after, k),
           NEW p, NEW card \in Deck
    PROVE  /\ Owes(postProcessDraw(before, after, p, card), k)
           /\ hasPendingDrawObligation(before) =>
                 postProcessDraw(before, after, p, card)
                    = settleRound(before, after)
<1> DEFINE forced == forcedPlayAfterDraw(before, after, p, card)
<1>1. Owes(forced, k)
  <2>1. ~hasPendingDrawObligation(after) /\ playCardAllowed(after, p, card) =>
           Idle(after) /\ ~terminal(after)
    BY DEF hasPendingDrawObligation, playCardAllowed, Owes, Due, Idle,
           terminal, TerminalPhase
  <2> QED
    BY <2>1, HandlePlayCardOwes DEF forcedPlayAfterDraw
<1>2. hasPendingDrawObligation(before) => forced = after
  BY DEF forcedPlayAfterDraw
<1> HIDE DEF forced
<1> QED
  BY <1>1, <1>2, SettleRoundOwes DEF postProcessDraw, forced

LEMMA HandledPlayOwes ==
    ASSUME NEW before, NEW result, NEW k \in Int, Owes(result, k), NEW c
    PROVE  Owes(handledPlay(before, result, c), k)
<1> DEFINE drained == drainPenaltyQueue(result)
<1>1. Owes(drained, k)
  BY DrainPenaltyQueueOwes
<1>2. terminal(drained) => Idle(drained)
  BY <1>1, OutOfPlayIsIdle DEF terminal, TerminalPhase
<1> HIDE DEF drained
<1> QED
  BY <1>1, <1>2, PostProcessPlayOwes DEF handledPlay, drained

(***************************************************************************)
(* The other handlers                                                      *)
(***************************************************************************)
LEMMA HandlePassOwes ==
    ASSUME NEW s, NEW k, Owes(s, k), NEW p
    PROVE  /\ Owes(handlePass(s, p), 0)
           /\ hasCardsAvailable(s) => Owes(handlePass(s, p), k)
           /\ SamePlaces(s, handlePass(s, p))
<1> DEFINE passed == [s EXCEPT !.lastAction = Acted("PASS", p)]
           advanced == [passed EXCEPT !.currentPlayerIndex =
                          getNextAliveIndex(s.eliminated, p, s.direction)]
           ended == [passed EXCEPT !.phase = "round_end", !.winnerId = null]
<1>1. DOMAIN s = StateField
  BY DEF Owes
<1>2. DOMAIN passed = StateField /\ SameDebt(s, passed) /\ SamePlaces(s, passed)
  BY <1>1 DEF SameDebt, SamePlaces, StateField
<1> HIDE DEF passed
<1>3. /\ DOMAIN advanced = StateField /\ SameDebt(s, advanced)
      /\ SamePlaces(s, advanced)
      /\ DOMAIN ended = StateField /\ terminal(ended) /\ SamePlaces(s, ended)
  BY <1>2 DEF SameDebt, SamePlaces, StateField, terminal, TerminalPhase
<1> HIDE DEF advanced, ended
<1>4. Owes(advanced, k) /\ Owes(advanced, 0)
  BY <1>3, SameDebtOwes, OwedIsNatural
<1>5. /\ Owes(withPenaltyStateDefaults(ended), k)
      /\ Owes(withPenaltyStateDefaults(ended), 0)
      /\ Owes(withPenaltyStateDefaults(advanced), 0)
  BY <1>3, DefaultsOwe
<1>6. /\ SamePlaces(s, withPenaltyStateDefaults(ended))
      /\ SamePlaces(s, withPenaltyStateDefaults(advanced))
  BY <1>3 DEF SamePlaces, StateField, withPenaltyStateDefaults
<1> QED
  BY <1>3, <1>4, <1>5, <1>6 DEF handlePass, passed, advanced, ended

LEMMA HandleChooseColorOwes ==
    ASSUME NEW s, NEW k \in Int, Owes(s, k), s.phase = "choosing_color",
           NEW p, NEW chosen
    PROVE  LET t == handleChooseColor(s, p, chosen)
           IN  /\ Owes(t, k)
               /\ s.pendingDrawPlayerId # null =>
                     /\ t.phase = "challenging"
                     /\ t.pendingRevengeDraws = s.pendingRevengeDraws
<1> DEFINE colored == [s EXCEPT !.chosenColor[topCard(s)] = chosen,
                                !.currentColor = chosen,
                                !.lastAction = Acted("CHOOSE_COLOR", p)]
           challenged == [colored EXCEPT !.phase = "challenging"]
           played == [colored EXCEPT
                        !.phase = "playing",
                        !.currentPlayerIndex =
                           getNextAliveIndex(s.eliminated, p, s.direction)]
           Like(t) == /\ DOMAIN t = StateField /\ Idle(t)
                      /\ t.pendingPenaltyQueue = s.pendingPenaltyQueue
                      /\ t.pendingRevengeDraws = s.pendingRevengeDraws
<1>1. DOMAIN s = StateField /\ Idle(s) /\ ~terminal(s)
  BY OutOfPlayIsIdle DEF Owes, terminal, TerminalPhase
<1>2. Like(colored)
  BY <1>1 DEF Idle, StateField
<1> HIDE DEF colored
<1>3. Like(challenged) /\ Like(played) /\ challenged.phase = "challenging"
  BY <1>2 DEF Idle, StateField
<1> HIDE DEF challenged, played
<1>4. Owes(challenged, k) /\ Owes(played, k)
  BY <1>1, <1>3, PhaseOwes
<1>5. Owes(drainPenaltyQueue(played), k)
  BY <1>4, DrainPenaltyQueueOwes
<1> QED
  BY <1>3, <1>4, <1>5 DEF handleChooseColor, challenged, played, colored

LEMMA SettleWildDrawFourOwes ==
    ASSUME NEW s, NEW k \in Int, Owes(s, k), s.phase = "challenging",
           s.pendingRevengeDraws \in Nat,
           NEW lastAction, NEW p, NEW count \in Nat, NEW source
    PROVE  Owes(settleWildDrawFour(s, lastAction, p, count, source), k)
<1> DEFINE settled == [s EXCEPT !.phase = "playing",
                                !.pendingDrawPlayerId = null,
                                !.pendingRevengeDraws = 0,
                                !.lastAction = lastAction]
<1>1. DOMAIN s = StateField /\ ~terminal(s)
  BY DEF Owes, terminal, TerminalPhase
<1>2. /\ DOMAIN settled = StateField /\ settled.phase = "playing"
      /\ settled.pendingPenaltyDraws = s.pendingPenaltyDraws
      /\ settled.drawStack = s.drawStack
      /\ settled.houseRules = s.houseRules
      /\ settled.pendingPenaltyQueue = s.pendingPenaltyQueue
  BY <1>1 DEF StateField
<1> HIDE DEF settled
<1>3. Owes(settled, k)
  BY <1>1, <1>2, PlayingOwes
<1>4. count + s.pendingRevengeDraws \in Nat
  OBVIOUS
<1> QED
  BY <1>3, <1>4, StartPenaltyDrawOwes DEF settleWildDrawFour, settled

LEMMA AnswersOwe ==
    ASSUME NEW s, NEW k \in Int, Owes(s, k), s.phase = "challenging",
           s.pendingRevengeDraws \in Nat, NEW p
    PROVE  Owes(handleChallenge(s, p), k) /\ Owes(handleAccept(s, p), k)
BY SettleWildDrawFourOwes DEF handleChallenge, handleAccept

LEMMA UnoCallsOwe ==
    ASSUME NEW s, NEW k \in Int, Owes(s, k), NEW p, NEW count \in Nat
    PROVE  Owes(handleCallUno(s, p), k) /\ Owes(handleCatchUno(s, p, count), k)
<1>1. SameDebt(s, handleCallUno(s, p))
  BY DEF Owes, SameDebt, StateField, handleCallUno
<1>2. SameDebt(s, [s EXCEPT !.unoCaught[p] = TRUE,
                            !.lastAction = Acted("CATCH_UNO", null)])
  BY DEF Owes, SameDebt, StateField
<1> QED
  BY <1>1, <1>2, SameDebtOwes, StartPenaltyDrawOwes DEF handleCatchUno

LEMMA DeflectionOwes ==
    ASSUME NEW s, NEW k \in Int, Owes(s, k), s.pendingRevengeDraws \in Nat,
           NEW p, NEW c
    PROVE  Owes(deflection(s, p, c), k)
<1> DEFINE played == withDeflectionPlayed(s, p, c)
           answered == [played EXCEPT !.phase = "playing",
                                      !.pendingDrawPlayerId = null,
                                      !.pendingRevengeDraws = 0]
           passed == [played EXCEPT !.currentPlayerIndex =
                        getNextAliveIndex(s.eliminated, p, played.direction)]
           discarded == withCardDiscarded(s, p, c)
<1>1. SameDebt(s, discarded)
  BY DiscardOwes DEF Owes
<1> HIDE DEF discarded
<1>2. SameDebt(s, played)
  BY <1>1 DEF SameDebt, StateField, withDeflectionPlayed, discarded
<1> HIDE DEF played
<1>3. SameDebt(s, passed)
  BY <1>2 DEF SameDebt, StateField
<1>4. answersChallenge(s, p) => Owes(answered, k)
  <2>1. /\ DOMAIN answered = StateField /\ answered.phase = "playing"
        /\ answered.pendingPenaltyDraws = s.pendingPenaltyDraws
        /\ answered.drawStack = s.drawStack
        /\ answered.houseRules = s.houseRules
        /\ answered.pendingPenaltyQueue = s.pendingPenaltyQueue
    BY <1>2 DEF SameDebt, StateField
  <2>2. answersChallenge(s, p) => ~terminal(s)
    BY DEF answersChallenge, terminal, TerminalPhase
  <2> HIDE DEF answered
  <2> QED
    BY <2>1, <2>2, PlayingOwes
<1> HIDE DEF answered, passed
<1>5. /\ answersChallenge(s, p) => Owes(checkRoundEnd(answered, p), k)
      /\ Owes(checkRoundEnd(passed, p), k)
  BY <1>3, <1>4, SameDebtOwes, CheckRoundEndOwes
<1>6. 4 + s.pendingRevengeDraws \in Nat
  OBVIOUS
<1> QED
  BY <1>5, <1>6, StartPenaltyDrawOwes
     DEF deflection, deflectChallenge, deflectStack, answered, passed, played

LEMMA AttackCardOwes ==
    ASSUME NEW s, NEW k \in Int, Owes(s, k), s.phase = "playing",
           s.houseRules \cap StackingRule # {}, NEW p, NEW c, NEW chosen
    PROVE  Owes(putAttackCardOnStack(s, p, c, chosen), k)
<1> DEFINE played == withUnoFlagsAfterPlay(withCardDiscarded(s, p, c), p)
           colored == IF type[c] = "draw_two"
                      THEN [played EXCEPT !.currentColor = color[c]]
                      ELSE [played EXCEPT !.currentColor = chosen,
                                          !.chosenColor[c] = chosen]
           stacked == [colored EXCEPT
                         !.drawStack = @ + getCardDrawPenalty(c),
                         !.currentPlayerIndex =
                            getNextAliveIndex(s.eliminated, p, s.direction)]
           queued == Cardinality(queuedCards(s.pendingPenaltyQueue))
<1>1. SameDebt(s, played)
  BY DiscardOwes DEF Owes
<1> HIDE DEF played
<1>2. SameDebt(s, colored)
  BY <1>1 DEF SameDebt, StateField
<1> HIDE DEF colored
<1>3. /\ DOMAIN stacked = StateField /\ stacked.phase = "playing"
      /\ stacked.houseRules = s.houseRules
      /\ stacked.pendingPenaltyDraws = s.pendingPenaltyDraws
      /\ stacked.drawStack = s.drawStack + getCardDrawPenalty(c)
      /\ stacked.pendingPenaltyQueue = s.pendingPenaltyQueue
  BY <1>2 DEF SameDebt, StateField
<1> HIDE DEF stacked
<1>4. getCardDrawPenalty(c) \in Nat
  BY DEF getCardDrawPenalty
<1>5. /\ s.pendingPenaltyDraws \in Nat /\ s.drawStack \in Nat /\ queued \in Nat
      /\ k <= s.pendingPenaltyDraws + s.drawStack + queued
  BY QueuedAreFinite DEF Owes, Due, cardsOwed, terminal, TerminalPhase
<1>6. Owes(stacked, k)
  <2>1. Due(stacked.phase, stacked.pendingPenaltyDraws, stacked.drawStack,
            stacked.houseRules)
    BY <1>3, <1>4, <1>5 DEF Due
  <2>2. cardsOwed(stacked) = s.pendingPenaltyDraws
                               + (s.drawStack + getCardDrawPenalty(c)) + queued
    BY <1>3 DEF cardsOwed
  <2> HIDE DEF queued
  <2>3. k <= cardsOwed(stacked)
    BY <1>4, <1>5, <2>2
  <2> QED
    BY <1>3, <2>1, <2>3 DEF Owes
<1> QED
  BY <1>6, CheckRoundEndOwes DEF putAttackCardOnStack, stacked, colored, played

LEMMA StackingOwes ==
    ASSUME NEW s, NEW k \in Int, Owes(s, k), s.pendingRevengeDraws \in Nat,
           NEW p, NEW c, NEW chosen, stackingClaims(s, p, c),
           stackingAllowed(s, p, c, chosen)
    PROVE  Owes(stacking(s, p, c, chosen), k)
<1> DEFINE answered == [s EXCEPT !.phase = "playing",
                                 !.pendingDrawPlayerId = null,
                                 !.drawStack = 4 + s.pendingRevengeDraws,
                                 !.pendingRevengeDraws = 0,
                                 !.currentPlayerIndex = p]
           queued == Cardinality(queuedCards(s.pendingPenaltyQueue))
<1>1. s.houseRules \cap StackingRule # {}
  BY DEF stackingClaims, stackingOn, anyOn, StackingRule
<1>2. CASE answersChallenge(s, p)
  <2>1. s.phase = "challenging" /\ Idle(s) /\ ~terminal(s)
    BY <1>2, OutOfPlayIsIdle DEF answersChallenge, terminal, TerminalPhase
  <2>2. queued \in Nat /\ k <= queued
    BY <2>1, QueuedAreFinite DEF Owes, Idle, cardsOwed
  <2>3. /\ DOMAIN answered = StateField /\ answered.phase = "playing"
        /\ answered.houseRules = s.houseRules
        /\ answered.pendingPenaltyDraws = 0
        /\ answered.drawStack = 4 + s.pendingRevengeDraws
        /\ answered.pendingPenaltyQueue = s.pendingPenaltyQueue
    BY <2>1 DEF Owes, Idle, StateField
  <2> HIDE DEF answered
  <2>4. cardsOwed(answered) = (4 + s.pendingRevengeDraws) + queued
    BY <2>2, <2>3 DEF cardsOwed
  <2> HIDE DEF queued
  <2>5. k <= cardsOwed(answered)
    BY <2>2, <2>4
  <2>6. Due(answered.phase, answered.pendingPenaltyDraws, answered.drawStack,
            answered.houseRules)
    BY <1>1, <2>3 DEF Due
  <2>7. Owes(answered, k)
    BY <2>3, <2>5, <2>6 DEF Owes
  <2> QED
    BY <1>1, <1>2, <2>3, <2>7, AttackCardOwes DEF stacking, answered
<1>3. CASE ~answersChallenge(s, p)
  <2>1. s.drawStack > 0 \/ s.phase = "playing"
    BY <1>3 DEF stackingClaims, startsStack
  <2>2. s.phase = "playing"
    BY <2>1 DEF Owes, Due
  <2> QED
    BY <1>1, <1>3, <2>2, AttackCardOwes DEF stacking
<1> QED
  BY <1>2, <1>3

LEMMA JumpInOwes ==
    ASSUME NEW s, NEW k \in Int, Owes(s, k), s.phase = "playing", Idle(s),
           NEW p, NEW c \in Deck, NEW chosen
    PROVE  Owes(jumpIn(s, p, c, chosen), k)
<1> DEFINE played == withCardDiscarded(s, p, c)
           next == getNextAliveIndex(played.eliminated, p, played.direction)
           afterNext == skipNextAliveIndex(played.eliminated, p,
                                           played.direction)
           toNext == [played EXCEPT !.currentPlayerIndex = next]
           colored == [toNext EXCEPT !.currentColor = color[c]]
           wildColored == withWildColor(toNext, c, chosen)
           attacked == IF chosen # null
                       THEN [withWildColor(played, c, chosen)
                               EXCEPT !.phase = "challenging"]
                       ELSE [played EXCEPT !.phase = "choosing_color"]
           penalized == startPenaltyDraw(colored, next, 2, afterNext, p)
           Like(t) == /\ DOMAIN t = StateField /\ Idle(t)
                      /\ t.pendingPenaltyQueue = s.pendingPenaltyQueue
<1>1. Like(played) /\ Owes(played, k) /\ Idle(played) /\ ~terminal(played)
  BY DiscardOwes, SameDebtOwes
     DEF Owes, SameDebt, Idle, terminal, TerminalPhase
<1> HIDE DEF played
<1>2. \A t : Like(t) => Owes(t, k)
  <2>1. ~terminal(s)
    BY DEF terminal, TerminalPhase
  <2> QED
    BY <2>1, PhaseOwes
<1>3. type[c] \in CardType
  BY DeckAssumption
<1>4. Owes(withCardEffect(played, p, c), k)
  BY <1>1, CardEffectOwes
<1>5. Like(toNext)
  BY <1>1 DEF StateField, Idle
<1> HIDE DEF toNext
<1>6. Like(colored) /\ Like(wildColored)
  BY <1>5 DEF StateField, Idle, withWildColor
<1> HIDE DEF colored, wildColored, next, afterNext
<1>7. Owes(penalized, k)
  BY <1>2, <1>6, StartPenaltyDrawOwes
<1> HIDE DEF penalized
<1>8. Owes(startPenaltyDraw(penalized, next, 2, afterNext, null), k)
  BY <1>7, StartPenaltyDrawOwes
<1>9. Like([played EXCEPT !.phase = "choosing_color",
                          !.currentPlayerIndex = p])
  BY <1>1 DEF StateField, Idle
<1>10. Like([attacked EXCEPT !.currentPlayerIndex = p,
                             !.pendingDrawPlayerId = next])
  <2>1. Like(attacked)
    BY <1>1 DEF StateField, Idle, withWildColor
  <2> HIDE DEF attacked
  <2> QED
    BY <2>1 DEF StateField, Idle
<1>11. ASSUME NEW hands
       PROVE  /\ Like([colored EXCEPT !.hand = hands])
              /\ Like([colored EXCEPT !.phase = "choosing_swap_target",
                                      !.currentPlayerIndex = p])
  BY <1>6 DEF StateField, Idle
<1> HIDE DEF Like
<1>12. Owes(withJumpInEffect(played, s, p, c, chosen), k)
  BY <1>2, <1>3, <1>4, <1>6, <1>7, <1>8, <1>9, <1>10, <1>11
     DEF withJumpInEffect, CardType, next, afterNext, toNext, colored,
         wildColored, attacked, penalized
<1> QED
  BY <1>12, CheckRoundEndOwes DEF jumpIn, played

LEMMA MultiPlayPassOwes ==
    ASSUME NEW s, NEW k \in Int, Owes(s, k), NEW p
    PROVE  Owes(multiPlayPass(s, p), k)
<1> DEFINE next == getNextAliveIndex(s.eliminated, p, s.direction)
           passed == [s EXCEPT !.currentPlayerIndex = next,
                               !.lastAction = Acted("PASS", p)]
           hit == SeatsBombed(s, p)
           penalties == [i \in DOMAIN hit |->
                           [playerId |-> hit[i], count |-> 1,
                            nextPlayerIndex |-> next,
                            sourcePlayerId |-> null]]
           bombed == [passed EXCEPT !.pendingPenaltyQueue = @ \o penalties]
<1>1. SameDebt(s, passed)
  BY DEF Owes, SameDebt, StateField
<1> HIDE DEF passed, next
<1>2. Owes(passed, k) /\ passed.pendingPenaltyQueue = s.pendingPenaltyQueue
  BY <1>1, SameDebtOwes DEF SameDebt
<1>3. Payable(penalties)
  <2> DEFINE penalty(i) == [playerId |-> hit[i], count |-> 1,
                            nextPlayerIndex |-> next, sourcePlayerId |-> null]
             Penalty == {penalty(i) : i \in DOMAIN hit}
  <2>1. DOMAIN hit = 1..Len(hit) /\ Len(hit) \in Nat
    BY SeatsBombedAreSeats, LenProperties
  <2>2. penalties \in [1..Len(hit) -> Penalty]
    BY <2>1
  <2>3. penalties \in Seq(Penalty)
    BY <2>1, <2>2
  <2>4. \A i \in DOMAIN penalties : penalties[i].count \in Nat
    OBVIOUS
  <2> HIDE DEF Penalty, penalties
  <2> QED
    BY <2>3, <2>4 DEF Payable
<1> HIDE DEF penalties
<1>4. Owes(bombed, k)
  <2> DEFINE longer == s.pendingPenaltyQueue \o penalties
  <2>1. /\ DOMAIN bombed = StateField /\ bombed.phase = s.phase
        /\ bombed.houseRules = s.houseRules
        /\ bombed.pendingPenaltyDraws = s.pendingPenaltyDraws
        /\ bombed.drawStack = s.drawStack
        /\ bombed.pendingPenaltyQueue = longer
    BY <1>1 DEF SameDebt, StateField
  <2>2. /\ Payable(longer)
        /\ Cardinality(queuedCards(s.pendingPenaltyQueue))
              <= Cardinality(queuedCards(longer))
        /\ Cardinality(queuedCards(s.pendingPenaltyQueue)) \in Nat
        /\ Cardinality(queuedCards(longer)) \in Nat
    BY <1>3, QueuedAfterConcat, QueuedAreFinite DEF Owes
  <2> HIDE DEF bombed, longer
  <2>3. cardsOwed(s) <= cardsOwed(bombed)
    BY <2>1, <2>2 DEF Owes, Due, cardsOwed
  <2>4. cardsOwed(s) \in Nat /\ cardsOwed(bombed) \in Nat
    BY <2>1, <2>2 DEF Owes, Due, cardsOwed
  <2> QED
    BY <2>1, <2>2, <2>3, <2>4 DEF Owes, terminal
<1> HIDE DEF bombed
<1> QED
  BY <1>2, <1>4, DrainPenaltyQueueOwes
     DEF multiPlayPass, bombed, passed, hit, next, penalties

LEMMA ChooseSwapTargetOwes ==
    ASSUME NEW s, NEW k \in Int, Owes(s, k), ~terminal(s), NEW p, NEW target
    PROVE  Owes(chooseSwapTarget(s, p, target), k)
<1>1. ASSUME NEW hands, NEW called, NEW caught, NEW turn
      PROVE  Owes([s EXCEPT !.hand = hands, !.calledUno = called,
                            !.unoCaught = caught, !.phase = "playing",
                            !.currentPlayerIndex = turn,
                            !.lastAction = Acted("CHOOSE_SWAP_TARGET", p)], k)
  BY PlayingOwes DEF Owes, StateField
<1> QED
  BY <1>1, DrainPenaltyQueueOwes DEF chooseSwapTarget

(***************************************************************************)
(* What is owed, in every state of a game                                  *)
(***************************************************************************)
DueState == Owes(state, 0)

LEMMA DealtStateOwes ==
    ASSUME NEW d, NEW rules, NEW eliminated, NEW score, NEW wins, NEW teams,
           NEW first, NEW round
    PROVE  Owes(dealtState(d, rules, eliminated, score, wins, teams, first,
                           round), 0)
<1> DEFINE s == dealtState(d, rules, eliminated, score, wins, teams, first,
                           round)
<1>1. /\ DOMAIN s = StateField
      /\ s.pendingPenaltyDraws = 0 /\ s.drawStack = 0
      /\ s.pendingPenaltyQueue = <<>>
  BY DEF dealtState, StateField
<1> HIDE DEF s
<1>2. cardsOwed(s) = 0 /\ Payable(s.pendingPenaltyQueue)
  BY <1>1, NothingQueued DEF cardsOwed
<1>3. Owes(s, 0)
  BY <1>1, <1>2 DEF Owes, Due
<1> QED
  BY <1>3 DEF s

(* The current player draws a card of an active penalty, or the first one   *)
(* of the stack.                                                            *)
Pays(p, side, card) ==
    \/ DrawCard(p, side, card) /\ state.pendingPenaltyDraws > 0
    \/ TakeStack(p, side, card)

(* What is owed after an action of a player who does not pay.               *)
LEMMA TurnActionOwes ==
    ASSUME Sound(state), NEW k \in Int, Owes(state, k), NEW p \in Seat,
           TurnAction(p)
    PROVE  /\ Owes(state', 0)
           /\ \/ Owes(state', k)
              \/ ~hasCardsAvailable(state)
              \/ \E side \in DrawSide :
                    \E card \in drawnCards(p, side) : Pays(p, side, card)
<1> DEFINE Keeps(t) == Owes(t, k) /\ Owes(t, 0)
<1>1. /\ state.hand[p] \in SUBSET Deck
      /\ state.drawStack \in Nat /\ state.pendingPenaltyDraws \in Nat
      /\ state.pendingRevengeDraws \in Nat
      /\ DOMAIN state = StateField
      /\ state.drawStack # 0 =>
            state.phase = "playing" /\ state.houseRules \cap StackingRule # {}
  BY DEF Sound, IsGameState, Owes, Due
<1>2. \A t : Owes(t, k) => Keeps(t)
  BY OwedIsNatural
<1>3. ASSUME NEW c \in state.hand[p], PlayCard(p, c)
      PROVE  Owes(state', k)
  <2>1. /\ state.phase = "playing" /\ ~stackingClaims(state, p, c)
        /\ state.pendingPenaltyDraws = 0
    BY <1>3 DEF PlayCard, playCardAllowed, claimedByPlugin, claimedBeforeJumpIn
  <2>2. state.drawStack = 0
    BY <1>1, <2>1 DEF stackingClaims, stackingOn, anyOn, StackingRule
  <2>3. Idle(state) /\ c \in Deck /\ ~terminal(state)
    BY <1>1, <2>1, <2>2 DEF Idle, terminal, TerminalPhase
  <2> QED
    BY <1>3, <2>3, HandlePlayCardOwes, PostProcessPlayOwes DEF PlayCard
<1>4. ASSUME NEW c \in state.hand[p], ForfeitFinishRestriction(p, c)
      PROVE  Owes(state', 0) /\ (Owes(state', k) \/ ~hasCardsAvailable(state))
  BY <1>4, HandlePassOwes, HandledPlayOwes DEF ForfeitFinishRestriction
<1>5. ASSUME NEW c \in state.hand[p], Deflect(p, c) PROVE Owes(state', k)
  BY <1>1, <1>5, DeflectionOwes, HandledPlayOwes DEF Deflect
<1>6. ASSUME NEW c \in state.hand[p], NEW chosen \in Color \cup {null},
             Stack(p, c, chosen)
      PROVE  Owes(state', k)
  BY <1>1, <1>6, StackingOwes, HandledPlayOwes DEF Stack
<1>7. ASSUME NEW c \in state.hand[p], NEW card, PayFinishRestriction(p, c, card)
      PROVE  Owes(state', k)
  <2>1. SameDebt(state, finishPenaltyCard(state, p, card))
    BY <1>1, DrawCardsOwe DEF finishPenaltyCard
  <2> QED
    BY <1>7, <2>1, SameDebtOwes, HandledPlayOwes DEF PayFinishRestriction
<1>8. ASSUME NEW c \in state.hand[p], ForcedPlayWithoutDraw(p, c)
      PROVE  Owes(state', k)
  BY <1>1, <1>8, PostProcessDrawOwes DEF ForcedPlayWithoutDraw
<1>9. ASSUME NEW side \in DrawSide, NEW card \in drawnCards(p, side),
             \/ DrawCard(p, side, card)
             \/ DrawUntilPlayable(p, side, card)
             \/ TakeStack(p, side, card)
      PROVE  /\ Owes(state', 0)
             /\ Owes(state', k) \/ Pays(p, side, card)
  <2> DEFINE drawn == handleDrawCard(state, p, side, card)
  <2>1. card \in Deck
    BY DrawnCardsAreCards
  <2>2. Owes(drawn, 0) /\ (state.pendingPenaltyDraws = 0 => Owes(drawn, k))
    BY HandleDrawCardOwes
  <2>3. Owes(resolveStack(state, p, side, card), 0)
    BY ResolveStackOwes
  <2> HIDE DEF drawn
  <2>4. CASE DrawCard(p, side, card)
    <3>1. /\ Owes(state', 0)
          /\ state.pendingPenaltyDraws = 0 => Owes(state', k)
      <4>1. \A j \in Int : Owes(drawn, j) =>
                              Owes(postProcessDraw(state, drawn, p, card), j)
        BY <2>1, PostProcessDrawOwes
      <4>2. state' = postProcessDraw(state, drawn, p, card)
        BY <2>4 DEF DrawCard, drawn
      <4> QED
        BY <2>2, <4>1, <4>2
    <3> QED
      BY <1>1, <2>4, <3>1 DEF Pays
  <2>5. CASE DrawUntilPlayable(p, side, card)
    <3>1. state.pendingPenaltyDraws = 0
      BY <1>1, <2>5 DEF DrawUntilPlayable, drawUntilPlayableClaims,
                        hasPendingDrawObligation
    <3> QED
      BY <2>2, <2>5, <3>1 DEF DrawUntilPlayable, drawn
  <2>6. CASE TakeStack(p, side, card)
    BY <2>3, <2>6, SettleRoundOwes DEF TakeStack, Pays
  <2> QED
    BY <1>9, <2>4, <2>5, <2>6
<1>10. CASE Pass(p)
  <2>1. Owes(state', 0) /\ (Owes(state', k) \/ ~hasCardsAvailable(state))
    BY <1>10, HandlePassOwes, SettleRoundOwes DEF Pass
  <2> QED
    BY <2>1
<1>11. CASE EndMultiPlay(p)
  <2>1. Owes(state', k)
    BY <1>11, MultiPlayPassOwes DEF EndMultiPlay
  <2> QED
    BY <1>2, <2>1
<1>12. ASSUME NEW chosen \in Color,
              ChooseColor(p, chosen) \/ ChooseColorUnchallenged(p, chosen)
       PROVE  Owes(state', k)
  <2> DEFINE colored == handleChooseColor(state, p, chosen)
  <2>1. /\ Owes(colored, k)
        /\ state.pendingDrawPlayerId # null =>
              /\ colored.phase = "challenging"
              /\ colored.pendingRevengeDraws = state.pendingRevengeDraws
    BY <1>12, HandleChooseColorOwes
       DEF ChooseColor, ChooseColorUnchallenged, chooseColorAllowed
  <2> HIDE DEF colored
  <2>2. CASE ChooseColor(p, chosen)
    BY <2>1, <2>2 DEF ChooseColor, colored
  <2>3. CASE ChooseColorUnchallenged(p, chosen)
    BY <1>1, <2>1, <2>3, SettleWildDrawFourOwes
       DEF ChooseColorUnchallenged, chooseColorUnchallenged, colored
  <2> QED
    BY <1>12, <2>2, <2>3
<1>13. CASE Challenge(p) \/ Accept(p)
  <2>1. Owes(state', k)
    BY <1>1, <1>13, AnswersOwe
       DEF Challenge, challengeAllowed, respondAllowed, Accept
  <2> QED
    BY <1>2, <2>1
<1>14. ASSUME NEW target \in Seat, ChooseSwapTarget(p, target)
       PROVE  Owes(state', k)
  BY <1>14, ChooseSwapTargetOwes
     DEF ChooseSwapTarget, chooseSwapTargetAllowed, terminal, TerminalPhase
<1> QED
  BY <1>2, <1>3, <1>4, <1>5, <1>6, <1>7, <1>8, <1>9, <1>10, <1>11, <1>12,
     <1>13, <1>14 DEF TurnAction

LEMMA SideActionOwes ==
    ASSUME Sound(state), NEW k \in Int, Owes(state, k), NEW p \in Seat,
           SideAction(p)
    PROVE  Owes(state', k)
<1>1. ASSUME NEW c \in state.hand[p], NEW chosen \in Color \cup {null},
             JumpIn(p, c, chosen)
      PROVE  Owes(state', k)
  <2>1. c \in Deck
    BY DEF Sound, IsGameState
  <2>2. state.phase = "playing" /\ Idle(state)
    BY <1>1 DEF JumpIn, jumpInClaims, hasPendingDrawObligation, Idle, Owes, Due
  <2>3. Owes(jumpIn(state, p, c, chosen), k)
    BY <2>1, <2>2, JumpInOwes
  <2> QED
    BY <1>1, <2>3, HandledPlayOwes DEF JumpIn
<1>2. ASSUME NEW c \in Deck, Misplay(p, c) PROVE Owes(state', k)
  <2>1. Owes(misplayPenalty(state, p), k)
    BY StartPenaltyDrawOwes DEF misplayPenalty
  <2> QED
    BY <1>2, <2>1, HandledPlayOwes DEF Misplay
<1>3. CASE CallUno(p) \/ CatchUno(p)
  <2>1. UnoPenaltyCount \in Nat
    BY SettingsAssumption
  <2> QED
    BY <1>3, <2>1, UnoCallsOwe DEF CallUno, CatchUno
<1> QED
  BY <1>1, <1>2, <1>3 DEF SideAction

LEMMA NextRoundOwes ==
    ASSUME NextRound
    PROVE  Owes(state', 0) /\ terminal(state)
BY DealtStateOwes
   DEF NextRound, StartNextRound, initializeNextRound, terminal, TerminalPhase

(* In every state of a game a player pays a penalty, or a stack waits for   *)
(* an answer, only while the round is played; a stack only under the        *)
(* stacking rules; and no debt is ever negative.                            *)
THEOREM AlwaysDue == Spec => []DueState
<1>1. Init => DueState
  BY DealtStateOwes DEF Init, initializeGame, DueState
<1>2. SoundState /\ DueState /\ [Next]_vars => DueState'
  <2> SUFFICES ASSUME Sound(state), Owes(state, 0), [Next]_vars
               PROVE  Owes(state', 0)
    BY DEF SoundState, DueState
  <2>1. ASSUME NEW p \in Seat, TurnAction(p) \/ SideAction(p)
        PROVE  Owes(state', 0)
    BY <2>1, TurnActionOwes, SideActionOwes
  <2>2. CASE UNCHANGED vars
    BY <2>2 DEF vars
  <2> QED
    BY <2>1, <2>2, NextRoundOwes DEF Next
<1> QED
  BY <1>1, <1>2, AlwaysSound, PTL DEF Spec

(***************************************************************************)
(* Payments                                                                *)
(***************************************************************************)

(* From s to t a card of side is drawn by p for the penalty that is paid.   *)
Paid(s, t, p, side) ==
    /\ \A q \in Seat : s.hand[q] \subseteq t.hand[q]
    /\ CanYield(s, side) # {} =>
          \E c \in Deck \ s.hand[p] : t.hand[p] = s.hand[p] \cup {c}
    /\ \/ ~hasCardsAvailable(t)
       \/ /\ \/ cardsOwed(t) = cardsOwed(s) - 1
             \/ terminal(t) /\ cardsOwed(t) = 0
          /\ \/ s.pendingPenaltyDraws = 1
             \/ t.currentPlayerIndex = s.currentPlayerIndex

(* A draw takes a card nobody holds.                                        *)
LEMMA DrawAddsCard ==
    ASSUME NEW s, InPlace(s), NEW p \in Seat, NEW side \in DrawSide, NEW card,
           Drawable(s, side, card)
    PROVE  LET t == drawCards(s, p, side, card)
           IN  /\ t.currentPlayerIndex = s.currentPlayerIndex
               /\ \A q \in Seat : s.hand[q] \subseteq t.hand[q]
               /\ CanYield(s, side) # {} =>
                     /\ card \in Deck \ s.hand[p]
                     /\ t.hand[p] = s.hand[p] \cup {card}
<1> DEFINE refilled == withSideRefilled(s, side)
           drawn == [refilled EXCEPT !.deck[side] = @ \ {card},
                                     !.hand[p] = @ \cup {card},
                                     !.calledUno[p] = FALSE,
                                     !.unoCaught[p] = FALSE]
<1>1. /\ InPlace(refilled)
      /\ refilled.hand = s.hand
      /\ refilled.currentPlayerIndex = s.currentPlayerIndex
  <2>1. InPlace(refilled)
    BY WithSideRefilledInPlace
  <2> QED
    BY <2>1 DEF InPlace, StateField, withSideRefilled
<1>2. CanYield(s, side) = refilled.deck[side]
  BY DEF CanYield
<1> HIDE DEF refilled
<1>3. /\ drawn.hand = [s.hand EXCEPT ![p] = @ \cup {card}]
      /\ drawn.currentPlayerIndex = s.currentPlayerIndex
  BY <1>1 DEF InPlace, StateField
<1> HIDE DEF drawn
<1>4. s.hand \in [Seat -> SUBSET Deck]
  BY DEF InPlace, SharedOut
<1>5. CanYield(s, side) # {} => card \in Deck \ s.hand[p]
  <2>1. side \in {"left", "right"}
    BY DEF DrawSide
  <2> QED
    BY <1>1, <1>2, <2>1 DEF InPlace, SharedOut, Drawable
<1>6. drawCards(s, p, side, card)
        = IF CanYield(s, side) = {} THEN refilled ELSE drawn
  BY <1>2 DEF drawCards, refilled, drawn
<1> QED
  BY <1>1, <1>3, <1>4, <1>5, <1>6

LEMMA SamePlacesAvailable ==
    ASSUME NEW s, NEW t, SamePlaces(s, t)
    PROVE  t.hand = s.hand /\ (hasCardsAvailable(t) <=> hasCardsAvailable(s))
BY DEF SamePlaces, hasCardsAvailable

LEMMA PaymentDraws ==
    ASSUME NEW s, InPlace(s), Owes(s, 0), s.pendingPenaltyDraws > 0,
           NEW p \in Seat, NEW side \in DrawSide, NEW card,
           Drawable(s, side, card)
    PROVE  /\ Paid(s, handleDrawCard(s, p, side, card), p, side)
           /\ Owes(handleDrawCard(s, p, side, card), 0)
<1> DEFINE drawn == drawCards(s, p, side, card)
           t == finishPenaltyDrawIfNeeded(drawn, Acted("DRAW_CARD", p))
<1>1. /\ SameDebt(s, drawn)
      /\ drawn.pendingPenaltyDraws = s.pendingPenaltyDraws
  BY DrawCardsOwe DEF Owes, SameDebt
<1>2. Owes(drawn, 0) /\ cardsOwed(drawn) = cardsOwed(s)
  BY <1>1, SameDebtOwes
<1>3. /\ drawn.currentPlayerIndex = s.currentPlayerIndex
      /\ \A q \in Seat : s.hand[q] \subseteq drawn.hand[q]
      /\ CanYield(s, side) # {} =>
            /\ card \in Deck \ s.hand[p]
            /\ drawn.hand[p] = s.hand[p] \cup {card}
  BY DrawAddsCard
<1> HIDE DEF drawn
<1>4. /\ Owes(t, 0) /\ SamePlaces(drawn, t)
      /\ \/ terminal(t) /\ Idle(t) /\ cardsOwed(t) = 0
            /\ (drawn.pendingPenaltyDraws = 1 \/ ~hasCardsAvailable(t))
         \/ /\ cardsOwed(t) = cardsOwed(drawn) - 1
            /\ \/ drawn.pendingPenaltyDraws = 1
               \/ t.currentPlayerIndex = drawn.currentPlayerIndex
         \/ ~hasCardsAvailable(t)
  BY <1>1, <1>2, FinishPenaltyDrawOwes
<1>5. handleDrawCard(s, p, side, card) = t
  BY DEF handleDrawCard, drawn
<1> HIDE DEF t
<1>6. t.hand = drawn.hand
  BY <1>4 DEF SamePlaces
<1>7. Paid(s, t, p, side)
  BY <1>1, <1>2, <1>3, <1>4, <1>6 DEF Paid
<1> QED
  BY <1>4, <1>5, <1>7

LEMMA SettledIsPaid ==
    ASSUME NEW s, NEW before, NEW after, Owes(after, 0), NEW p, NEW side,
           Paid(s, after, p, side)
    PROVE  Paid(s, settleRound(before, after), p, side)
<1> DEFINE t == settleRound(before, after)
<1>1. /\ SamePlaces(after, t)
      /\ cardsOwed(t) = cardsOwed(after)
      /\ t.currentPlayerIndex = after.currentPlayerIndex
      /\ terminal(t) <=> terminal(after)
  BY SettleRoundOwes
<1> HIDE DEF t
<1>2. t.hand = after.hand /\ (hasCardsAvailable(t) <=> hasCardsAvailable(after))
  BY <1>1, SamePlacesAvailable
<1>3. Paid(s, t, p, side)
  BY <1>1, <1>2 DEF Paid
<1> QED
  BY <1>3 DEF t

(* The stack becomes a penalty of its drawer, who draws its first card.     *)
LEMMA StackIsPaid ==
    ASSUME NEW s, InPlace(s), Owes(s, 0), s.pendingPenaltyDraws = 0,
           s.drawStack > 0, NEW p \in Seat, NEW side \in DrawSide, NEW card,
           Drawable(s, side, card), p = s.currentPlayerIndex
    PROVE  LET t == resolveStack(s, p, side, card)
           IN  /\ Owes(t, 0)
               /\ \A q \in Seat : s.hand[q] \subseteq t.hand[q]
               /\ CanYield(s, side) # {} =>
                     \E c \in Deck \ s.hand[p] : t.hand[p] = s.hand[p] \cup {c}
               /\ \/ ~hasCardsAvailable(t)
                  \/ cardsOwed(t) = cardsOwed(s) - 1
                  \/ terminal(t)
<1> DEFINE taken == [s EXCEPT !.drawStack = 0,
                              !.lastAction = Acted("DRAW_CARD", p)]
           next == getNextAliveIndex(s.eliminated, p, s.direction)
           source == IF s.lastAction.type = "PLAY_CARD"
                     THEN s.lastAction.playerId ELSE null
           started == startPenaltyDraw(taken, p, s.drawStack, next, source)
           t == resolveStack(s, p, side, card)
           queued == Cardinality(queuedCards(s.pendingPenaltyQueue))
<1>1. /\ DOMAIN s = StateField /\ s.phase = "playing"
      /\ s.drawStack \in Nat /\ queued \in Nat
      /\ Payable(s.pendingPenaltyQueue)
      /\ cardsOwed(s) = s.drawStack + queued
  BY QueuedAreFinite DEF Owes, Due, cardsOwed
<1>2. /\ InPlace(taken) /\ DOMAIN taken = StateField
      /\ taken.deck = s.deck /\ taken.discardPile = s.discardPile
      /\ taken.deckInitialCount = s.deckInitialCount
      /\ taken.hand = s.hand
      /\ taken.phase = "playing"
      /\ taken.pendingPenaltyDraws = 0 /\ taken.drawStack = 0
      /\ taken.pendingPenaltyQueue = s.pendingPenaltyQueue
  BY <1>1 DEF InPlace, StateField
<1> HIDE DEF taken, next, source
<1>3. Owes(taken, 0) /\ cardsOwed(taken) = queued
  BY <1>1, <1>2 DEF Owes, Due, cardsOwed
<1>4. Owes(started, 0) /\ cardsOwed(started) = cardsOwed(s)
  <2>1. Owes(started, 0) /\ cardsOwed(started) = cardsOwed(taken) + s.drawStack
    BY <1>1, <1>3, StartPenaltyDrawOwes
  <2> HIDE DEF queued, started
  <2> QED
    BY <1>1, <1>3, <2>1
<1>5. /\ InPlace(started)
      /\ started.deck = s.deck /\ started.discardPile = s.discardPile
      /\ started.deckInitialCount = s.deckInitialCount
      /\ started.hand = s.hand
      /\ started.pendingPenaltyDraws = s.drawStack
  BY <1>1, <1>2, StartPenaltyDrawInPlace DEF InPlace, StateField, startPenaltyDraw
<1> HIDE DEF started, queued
<1>6. CanYield(started, side) = CanYield(s, side)
  BY <1>5, SameYield
<1>7. /\ Paid(started, handleDrawCard(started, p, side, card), p, side)
      /\ Owes(handleDrawCard(started, p, side, card), 0)
  BY <1>4, <1>5, <1>6, PaymentDraws DEF Drawable
<1>8. t = handleDrawCard(started, p, side, card)
  BY DEF resolveStack, started, taken, next, source
<1> HIDE DEF t
<1>9. Paid(started, t, p, side) /\ Owes(t, 0)
  BY <1>7, <1>8
<1>10. /\ \A q \in Seat : s.hand[q] \subseteq t.hand[q]
       /\ CanYield(s, side) # {} =>
             \E c \in Deck \ s.hand[p] : t.hand[p] = s.hand[p] \cup {c}
       /\ \/ ~hasCardsAvailable(t)
          \/ cardsOwed(t) = cardsOwed(s) - 1
          \/ terminal(t)
  BY <1>4, <1>5, <1>6, <1>9 DEF Paid
<1> QED
  BY <1>9, <1>10 DEF t

LEMMA PaymentIsPaid ==
    ASSUME Sound(state), InPlace(state), Owes(state, 0), NEW p \in Seat,
           NEW side \in DrawSide, NEW card \in drawnCards(p, side),
           Pays(p, side, card)
    PROVE  /\ p = state.currentPlayerIndex
           /\ CanYield(state, side) # {} =>
                 \E c \in Deck \ state.hand[p] :
                    state'.hand[p] = state.hand[p] \cup {c}
           /\ \/ ~hasCardsAvailable(state')
              \/ cardsOwed(state') = cardsOwed(state) - 1
              \/ terminal(state')
           /\ state.pendingPenaltyDraws > 0 => Paid(state, state', p, side)
<1>1. Drawable(state, side, card) /\ card \in Deck
  BY DrawnCardsAreCards DEF Drawable, drawnCards
<1>2. state.pendingPenaltyDraws \in Nat /\ state.drawStack \in Nat
  BY DEF Owes, Due
<1>3. CASE DrawCard(p, side, card) /\ state.pendingPenaltyDraws > 0
  <2> DEFINE after == handleDrawCard(state, p, side, card)
  <2>1. Paid(state, after, p, side) /\ Owes(after, 0)
    BY <1>1, <1>3, PaymentDraws
  <2>2. /\ p = state.currentPlayerIndex
        /\ state' = postProcessDraw(state, after, p, card)
    BY <1>3 DEF DrawCard, drawCardAllowed
  <2> HIDE DEF after
  <2>3. state' = settleRound(state, after)
    BY <1>1, <1>3, <2>1, <2>2, PostProcessDrawOwes DEF hasPendingDrawObligation
  <2>4. Paid(state, state', p, side)
    BY <2>1, <2>3, SettledIsPaid
  <2> QED
    BY <2>2, <2>4 DEF Paid
<1>4. CASE TakeStack(p, side, card)
  <2> DEFINE after == resolveStack(state, p, side, card)
  <2>1. /\ p = state.currentPlayerIndex /\ state.pendingPenaltyDraws = 0
        /\ state.drawStack > 0
        /\ state' = settleRound(state, after)
    BY <1>4 DEF TakeStack, stackingClaimsDraw, IsCurrent
  <2>2. /\ Owes(after, 0)
        /\ CanYield(state, side) # {} =>
              \E c \in Deck \ state.hand[p] :
                 after.hand[p] = state.hand[p] \cup {c}
        /\ \/ ~hasCardsAvailable(after)
           \/ cardsOwed(after) = cardsOwed(state) - 1
           \/ terminal(after)
    BY <1>1, <2>1, StackIsPaid
  <2> HIDE DEF after
  <2>3. /\ SamePlaces(after, state')
        /\ cardsOwed(state') = cardsOwed(after)
        /\ terminal(state') <=> terminal(after)
    BY <2>1, <2>2, SettleRoundOwes
  <2>4. /\ state'.hand = after.hand
        /\ hasCardsAvailable(state') <=> hasCardsAvailable(after)
    BY <2>3, SamePlacesAvailable
  <2> QED
    BY <2>1, <2>2, <2>3, <2>4
<1> QED
  BY <1>3, <1>4 DEF Pays

LEMMA YieldIsAvailable ==
    ASSUME NEW s, InPlace(s), NEW side \in DrawSide, CanYield(s, side) # {}
    PROVE  hasCardsAvailable(s)
<1>1. CASE s.deck[side] # {}
  BY <1>1 DEF hasCardsAvailable
<1>2. CASE s.deck[side] = {} /\ Len(s.discardPile) <= 1
  BY <1>2 DEF CanYield, withSideRefilled
<1>3. CASE ~(Len(s.discardPile) <= 1)
  <2>1. Len(s.discardPile) \in Nat
    BY LenProperties DEF InPlace, SharedOut
  <2> QED
    BY <1>3, <2>1 DEF hasCardsAvailable
<1> QED
  BY <1>1, <1>2, <1>3

(* While the round goes on and both side decks can give a card, what is     *)
(* owed shrinks only by a draw of the player who owes it, one card at a time: whatever the house   *)
(* rules, no call, catch, play, deflection or pass forgives a penalty, and  *)
(* none is lost when it starts, waits or is taken from the queue.           *)
THEOREM DebtsArePaid == Spec => DebtIsPaidCardByCard
<1> DEFINE Step == (\A side \in DrawSide : CanYield(state, side) # {})
                      => debtShrinksByDraws(state, state')
<1>1. SoundState /\ CardsInPlace /\ DueState /\ [Next]_vars => [Step]_vars
  <2> SUFFICES ASSUME Sound(state), InPlace(state), Owes(state, 0), Next,
                      \A side \in DrawSide : CanYield(state, side) # {},
                      ~terminal(state), ~terminal(state'),
                      cardsOwed(state') < cardsOwed(state)
               PROVE  LET p == state.currentPlayerIndex
                      IN  /\ \/ cardsOwed(state') = cardsOwed(state) - 1
                             \/ ~hasCardsAvailable(state')
                          /\ \E c \in Deck \ state.hand[p] :
                                state'.hand[p] = state.hand[p] \cup {c}
    BY DEF SoundState, CardsInPlace, DueState, debtShrinksByDraws
  <2> DEFINE k == cardsOwed(state)
  <2>1. k \in Int /\ Owes(state, k)
    <3>1. k \in Nat
      BY OwedIsNatural
    <3> QED
      BY <3>1 DEF Owes
  <2>2. hasCardsAvailable(state)
    BY YieldIsAvailable DEF DrawSide
  <2> HIDE DEF k
  <2>3. ~(Owes(state', 0) /\ Owes(state', k))
    <3>1. Owes(state', k) => k <= cardsOwed(state')
      BY DEF Owes
    <3>2. Owes(state', 0) => cardsOwed(state') \in Nat
      BY OwedIsNatural
    <3> QED
      BY <2>1, <3>1, <3>2 DEF k
  <2>4. ~NextRound
    BY NextRoundOwes
  <2>5. \A p \in Seat : ~SideAction(p)
    BY <2>1, <2>3, SideActionOwes, OwedIsNatural
  <2>6. PICK p \in Seat : TurnAction(p)
    BY <2>4, <2>5 DEF Next
  <2>7. \E side \in DrawSide :
           \E card \in drawnCards(p, side) : Pays(p, side, card)
    BY <2>1, <2>2, <2>3, <2>6, TurnActionOwes
  <2> QED
    BY <2>7, PaymentIsPaid
<1>2. Spec => [][Step]_vars
  BY <1>1, AlwaysSound, AlwaysInPlace, AlwaysDue, PTL DEF Spec
<1> QED
  BY <1>2, PTL DEF DebtIsPaidCardByCard

(***************************************************************************)
(* Paying is exclusive                                                     *)
(***************************************************************************)
MultiPlayRule == {"multiplePlaySameNumber", "bombCard"}

(* The penalty paid in s is paid by nobody else, and no hand shrinks.       *)
StaysExclusive(s, t) ==
    /\ \A p \in Seat : s.hand[p] \subseteq t.hand[p]
    /\ t.currentPlayerIndex # s.currentPlayerIndex =>
          \/ s.pendingPenaltyDraws = 1 /\ cardsOwed(t) < cardsOwed(s)
          \/ ~hasCardsAvailable(t)

LEMMA UntouchedIsExclusive ==
    ASSUME NEW s, NEW t, t.hand = s.hand,
           \/ t.currentPlayerIndex = s.currentPlayerIndex
           \/ ~hasCardsAvailable(t)
    PROVE  StaysExclusive(s, t)
BY DEF StaysExclusive

LEMMA PaymentIsExclusive ==
    ASSUME NEW s, Owes(s, 0), s.pendingPenaltyDraws > 0, NEW t, NEW p, NEW side,
           Paid(s, t, p, side)
    PROVE  StaysExclusive(s, t)
<1>1. /\ s.pendingPenaltyDraws \in Nat /\ s.drawStack \in Nat
      /\ Cardinality(queuedCards(s.pendingPenaltyQueue)) \in Nat
  BY QueuedAreFinite DEF Owes, Due
<1>2. cardsOwed(s) \in Nat /\ cardsOwed(s) > 0
  BY <1>1 DEF cardsOwed
<1>3. cardsOwed(t) = cardsOwed(s) - 1 \/ cardsOwed(t) = 0 =>
         cardsOwed(t) < cardsOwed(s)
  BY <1>2
<1> QED
  BY <1>3 DEF Paid, StaysExclusive

LEMMA PassIsExclusive ==
    ASSUME Sound(state), Owes(state, 0), state.pendingPenaltyDraws > 0,
           NEW p \in Seat, Pass(p)
    PROVE  StaysExclusive(state, state')
<1> DEFINE after == handlePass(state, p)
<1>1. ~hasCardsAvailable(state) /\ state' = settleRound(state, after)
  BY DEF Pass, passAllowed
<1>2. Owes(after, 0) /\ SamePlaces(state, after)
  BY HandlePassOwes
<1> HIDE DEF after
<1>3. SamePlaces(after, state')
  BY <1>1, <1>2, SettleRoundOwes
<1>4. state'.hand = state.hand /\ ~hasCardsAvailable(state')
  BY <1>1, <1>2, <1>3, SamePlacesAvailable
<1> QED
  BY <1>4, UntouchedIsExclusive

LEMMA UnoCallsAreExclusive ==
    ASSUME Sound(state), state.pendingPenaltyDraws > 0,
           NEW p \in Seat, CallUno(p) \/ CatchUno(p)
    PROVE  StaysExclusive(state, state')
<1>1. DOMAIN state = StateField
  BY DEF Sound, IsGameState
<1>2. CASE CallUno(p)
  <2>1. /\ state'.hand = state.hand
        /\ state'.currentPlayerIndex = state.currentPlayerIndex
    BY <1>1, <1>2 DEF CallUno, handleCallUno, StateField
  <2> QED
    BY <2>1, UntouchedIsExclusive
<1>3. CASE CatchUno(p)
  <2> DEFINE caught == [state EXCEPT !.unoCaught[p] = TRUE,
                                     !.lastAction = Acted("CATCH_UNO", null)]
  <2>1. /\ DOMAIN caught = StateField
        /\ caught.hand = state.hand
        /\ caught.currentPlayerIndex = state.currentPlayerIndex
        /\ caught.pendingPenaltyDraws = state.pendingPenaltyDraws
    BY <1>1 DEF StateField
  <2> HIDE DEF caught
  <2>2. \A q, count, next, source :
           LET t == startPenaltyDraw(caught, q, count, next, source)
           IN  /\ t.hand = state.hand
               /\ t.currentPlayerIndex = state.currentPlayerIndex
    BY <2>1 DEF StateField, startPenaltyDraw
  <2>3. /\ state'.hand = state.hand
        /\ state'.currentPlayerIndex = state.currentPlayerIndex
    BY <1>3, <2>2 DEF CatchUno, handleCatchUno, caught
  <2> QED
    BY <2>3, UntouchedIsExclusive
<1> QED
  BY <1>2, <1>3

LEMMA PenaltyStepIsExclusive ==
    ASSUME Sound(state), InPlace(state), Owes(state, 0),
           state.pendingPenaltyDraws > 0,
           state.houseRules \cap MultiPlayRule = {},
           Next
    PROVE  StaysExclusive(state, state')
<1>1. state.phase = "playing" /\ hasPendingDrawObligation(state)
  BY DEF Owes, Due, hasPendingDrawObligation
<1>2. ~NextRound
  BY <1>1, NextRoundOwes DEF terminal, TerminalPhase
<1>3. ASSUME NEW p \in Seat, SideAction(p)
      PROVE  StaysExclusive(state, state')
  BY <1>3, UnoCallsAreExclusive
     DEF SideAction, JumpIn, Misplay, noPenaltyPending
<1>4. ASSUME NEW p \in Seat, TurnAction(p)
      PROVE  StaysExclusive(state, state')
  <2>1. ASSUME NEW c \in state.hand[p]
        PROVE  /\ ~PlayCard(p, c) /\ ~ForfeitFinishRestriction(p, c)
               /\ ~Deflect(p, c) /\ ~ForcedPlayWithoutDraw(p, c)
               /\ \A chosen \in Color \cup {null} : ~Stack(p, c, chosen)
               /\ \A card \in CanYield(state, LongerSide(state)) :
                     ~PayFinishRestriction(p, c, card)
    BY DEF PlayCard, ForfeitFinishRestriction, Deflect, ForcedPlayWithoutDraw,
           Stack, PayFinishRestriction, noPenaltyPending
  <2>2. ASSUME NEW side \in DrawSide, NEW card \in drawnCards(p, side)
        PROVE  /\ ~DrawUntilPlayable(p, side, card)
               /\ ~TakeStack(p, side, card)
               /\ DrawCard(p, side, card) => StaysExclusive(state, state')
    <3>1. ~DrawUntilPlayable(p, side, card) /\ ~TakeStack(p, side, card)
      BY <1>1 DEF DrawUntilPlayable, drawUntilPlayableClaims, TakeStack,
                  stackingClaimsDraw
    <3>2. DrawCard(p, side, card) => Paid(state, state', p, side)
      BY PaymentIsPaid DEF Pays
    <3> QED
      BY <3>1, <3>2, PaymentIsExclusive
  <2>3. ~EndMultiPlay(p)
    BY DEF EndMultiPlay, multiPlayPassClaims, anyOn, MultiPlayRule
  <2>4. /\ \A chosen \in Color : /\ ~ChooseColor(p, chosen)
                                 /\ ~ChooseColorUnchallenged(p, chosen)
        /\ ~Challenge(p) /\ ~Accept(p)
        /\ \A target \in Seat : ~ChooseSwapTarget(p, target)
    BY <1>1 DEF ChooseColor, ChooseColorUnchallenged, chooseColorAllowed,
                Challenge, challengeAllowed, Accept, respondAllowed,
                ChooseSwapTarget, chooseSwapTargetAllowed
  <2> QED
    BY <1>4, <2>1, <2>2, <2>3, <2>4, PassIsExclusive DEF TurnAction
<1> QED
  BY <1>2, <1>3, <1>4 DEF Next

(* In a game without the rules that let a player end a series of plays with *)
(* PASS, paying is exclusive: while a penalty is paid nobody plays a card,  *)
(* no hand shrinks, and the turn leaves the payer only with the last card   *)
(* of the penalty, or when no card is left.                                 *)
THEOREM PayingIsExclusive ==
    Spec /\ [](state.houseRules \cap {"multiplePlaySameNumber", "bombCard"} = {})
        => PenaltyIsExclusive
<1> DEFINE Without == state.houseRules
                         \cap {"multiplePlaySameNumber", "bombCard"} = {}
           Step == state.pendingPenaltyDraws > 0 =>
                      /\ state'.roundNumber = state.roundNumber =>
                            \A p \in Seat : state.hand[p] \subseteq state'.hand[p]
                      /\ state'.currentPlayerIndex # state.currentPlayerIndex =>
                            \/ /\ state.pendingPenaltyDraws = 1
                               /\ cardsOwed(state') < cardsOwed(state)
                            \/ ~hasCardsAvailable(state')
<1>1. /\ SoundState /\ CardsInPlace /\ DueState /\ Without /\ [Next]_vars
      => [Step]_vars
  <2> SUFFICES ASSUME Sound(state), InPlace(state), Owes(state, 0), Without,
                      Next, state.pendingPenaltyDraws > 0
               PROVE  StaysExclusive(state, state')
    BY DEF SoundState, CardsInPlace, DueState, StaysExclusive
  <2> QED
    BY PenaltyStepIsExclusive DEF MultiPlayRule
<1>2. Spec /\ []Without => [][Step]_vars
  BY <1>1, AlwaysSound, AlwaysInPlace, AlwaysDue, PTL DEF Spec
<1> QED
  BY <1>2, PTL DEF PenaltyIsExclusive
(***************************************************************************)
(* Automatic play                                                          *)
(*                                                                         *)
(* A plan the rules refuse leaves the state as it is, and the same plan is *)
(* chosen again: the game stops.  A chooser looks at the hand and the      *)
(* pile, the plugins at much more: the proof compares the two.             *)
(***************************************************************************)
PairState == state.phase = "game_over" \/ Paired(state.eliminated)

(* Two players are in the game until it is over: the elimination that       *)
(* leaves one ends it, and the seats of the next round are a permutation.   *)
THEOREM AlwaysPaired ==
    ASSUME N > 1
    PROVE  Spec => []PairState
<1>1. Init => PairState
  <2>1. 0 \in Seat /\ 1 \in Seat
    BY NAssumption DEF Seat
  <2>2. Paired(Nobody)
    BY <2>1 DEF Paired, Nobody, AliveSeats
  <2> QED
    BY <2>2 DEF Init, initializeGame, dealtState, PairState
<1>2. SoundState /\ SettledState /\ FitState /\ PairState /\ [Next]_vars
      => PairState'
  <2> SUFFICES ASSUME Sound(state), Settled(state), FitState, PairState,
                      [Next]_vars
               PROVE  PairState'
    BY DEF SoundState, SettledState
  <2>1. ASSUME NEW p \in Seat, TurnAction(p) \/ SideAction(p)
        PROVE  PairState'
    <3>1. CASE state.phase = "game_over"
      BY <2>1, <3>1, TurnActionKeepsResult, SideActionKeepsResult
         DEF SameResult, PairState, terminal, TerminalPhase
    <3>2. CASE Paired(state.eliminated)
      BY <2>1, <3>2, TurnActionFits, SideActionFits DEF PairState, KeepsTwo
    <3> QED
      BY <3>1, <3>2 DEF PairState
  <2>2. CASE NextRound
    <3>1. PICK d \in Deals, seating \in Seatings(state.houseRules) :
             StartNextRound(d, seating)
      BY <2>2 DEF NextRound
    <3>2. Paired(state.eliminated)
      BY <3>1 DEF StartNextRound, PairState
    <3> QED
      BY <3>1, <3>2, StartNextRoundFits DEF PairState, KeepsTwo
  <2>3. CASE UNCHANGED vars
    BY <2>3 DEF vars, PairState
  <2> QED
    BY <2>1, <2>2, <2>3 DEF Next
<1> QED
  BY <1>1, <1>2, AlwaysSound, AlwaysSettled, AlwaysFit, PTL DEF Spec

(* The rules under which a card that fits no colour is punished.            *)
MisplayRule == {"misplayPenalty", "blindDraw"}

(* A card that answers a Wild Draw Four or a stack: accepted, whatever the  *)
(* other plugins say of it.                                                 *)
LEMMA ChallengeAnswerAccepted ==
    ASSUME Unrestricted, state.phase = "challenging",
           state.pendingPenaltyDraws = 0, NEW c \in state.hand[
              state.pendingDrawPlayerId],
           stacksOnChallenge(state, c) \/ deflectsWithReverse(state, c)
              \/ deflectsWithSkip(state, c),
           NEW chosen, type[c] = "wild_draw_four" => chosen # null
    PROVE  acceptsPlay(state.pendingDrawPlayerId, c, chosen)
<1> DEFINE p == state.pendingDrawPlayerId
<1>1. ~claimedBeforeDeflection(p, c)
  BY NoRestrictionClaims DEF claimedBeforeDeflection, misplayPenaltyClaims
<1>2. answersChallenge(state, p)
  BY DEF answersChallenge
<1>3. CASE deflectionClaims(state, p, c)
  BY <1>1, <1>3 DEF acceptsPlay, noPenaltyPending
<1>4. CASE ~deflectionClaims(state, p, c)
  <2>1. stacksOnChallenge(state, c) /\ stackingOn(state)
    BY <1>2, <1>4 DEF deflectionClaims, stacksOnChallenge, stackingOn, anyOn, On
  <2>2. stackingClaims(state, p, c) /\ stackingAllowed(state, p, c, chosen)
    BY <1>2, <2>1 DEF stackingClaims, stackingAllowed
  <2>3. ~claimedBeforeStacking(p, c)
    BY <1>1, <1>4 DEF claimedBeforeStacking
  <2> QED
    BY <2>2, <2>3 DEF acceptsPlay, noPenaltyPending
<1> QED
  BY <1>3, <1>4

LEMMA StackAnswerAccepted ==
    ASSUME Unrestricted, state.phase = "playing",
           state.houseRules \cap MisplayRule = {},
           state.pendingPenaltyDraws = 0, state.drawStack > 0,
           state.houseRules \cap StackingRule # {},
           NEW c \in state.hand[state.currentPlayerIndex],
           stacksOnStack(state, c) \/ deflectsWithReverse(state, c)
              \/ deflectsWithSkip(state, c),
           NEW chosen, type[c] = "wild_draw_four" => chosen # null
    PROVE  acceptsPlay(state.currentPlayerIndex, c, chosen)
<1> DEFINE p == state.currentPlayerIndex
<1>1. ~claimedBeforeDeflection(p, c)
  BY NoRestrictionClaims
     DEF claimedBeforeDeflection, misplayPenaltyClaims, anyOn, MisplayRule
<1>2. CASE deflectionClaims(state, p, c)
  BY <1>1, <1>2 DEF acceptsPlay, noPenaltyPending
<1>3. CASE ~deflectionClaims(state, p, c)
  <2>1. stacksOnStack(state, c) /\ stackingOn(state)
    BY <1>3 DEF deflectionClaims, stackingOn, anyOn, StackingRule, IsCurrent
  <2>2. stackingClaims(state, p, c) /\ stackingAllowed(state, p, c, chosen)
    BY <2>1 DEF stackingClaims, stackingAllowed, IsCurrent
  <2>3. ~claimedBeforeStacking(p, c)
    BY <1>1, <1>3 DEF claimedBeforeStacking
  <2> QED
    BY <2>2, <2>3 DEF acceptsPlay, noPenaltyPending
<1> QED
  BY <1>2, <1>3

LEMMA PlayableAccepted ==
    ASSUME Unrestricted, state.phase = "playing",
           state.pendingPenaltyDraws = 0, state.drawStack = 0,
           NEW c \in state.hand[state.currentPlayerIndex],
           canPlayCard(c, topCard(state), state.currentColor)
    PROVE  acceptsPlay(state.currentPlayerIndex, c, null)
<1> DEFINE p == state.currentPlayerIndex
<1>1. playCardAllowed(state, p, c)
  BY DEF playCardAllowed
<1>2. /\ ~claimedBeforeStacking(p, c)
      /\ ~jumpInClaims(state, p)
  BY <1>1, NoRestrictionClaims
     DEF claimedBeforeStacking, claimedBeforeDeflection, misplayPenaltyClaims,
         deflectionClaims, answersChallenge, jumpInClaims, IsCurrent
<1>3. stackingClaims(state, p, c) => stackingAllowed(state, p, c, null)
  BY DEF stackingClaims, stackingAllowed, startsStack, answersChallenge
<1> QED
  BY <1>1, <1>2, <1>3
     DEF acceptsPlay, noPenaltyPending, claimedByPlugin, claimedBeforeJumpIn
(* An answer is a plan the cycle guard would try as well: a Wild Draw Four  *)
(* comes with a colour, any other card without.                             *)
LEMMA LegalAnswers ==
    ASSUME NEW p, NEW colors \in SUBSET Color, NEW cards \in SUBSET state.hand[p],
           \/ state.phase = "challenging"
           \/ state.phase = "playing" /\ state.drawStack > 0,
           \A c \in cards : \A x :
              (type[c] = "wild_draw_four" => x # null) => acceptsPlay(p, c, x)
    PROVE  /\ \A a \in playCardActions(colors, cards, TRUE) : isLegalPlan(p, a)
           /\ cards # {} /\ colors # {} => playCardActions(colors, cards, TRUE) # {}
<1>1. ASSUME NEW c \in cards, NEW x,
             IF type[c] = "wild_draw_four" THEN x \in Color ELSE x = null
      PROVE  isLegalPlan(p, Play(c, x))
  <2>1. acceptsPlay(p, c, x)
    BY <1>1, DeckAssumption
  <2>2. accepts(p, Play(c, x))
    BY <2>1 DEF accepts, Play
  <2>3. Play(c, x) \in cardPlans(state, c)
    BY <1>1 DEF cardPlans, isWildCard
  <2>4. Play(c, x) \in UNION {cardPlans(state, d) : d \in state.hand[p]}
    BY <2>3
  <2>5. Play(c, x) \in candidatePlans(state, p)
    BY <2>4 DEF candidatePlans
  <2> QED
    BY <2>2, <2>5 DEF isLegalPlan
<1>2. \A a \in playCardActions(colors, cards, TRUE) :
         \E c \in cards : \E x :
            /\ a = Play(c, x)
            /\ IF type[c] = "wild_draw_four" THEN x \in Color ELSE x = null
  BY DEF playCardActions
<1>3. ASSUME NEW c \in cards, NEW x \in colors
      PROVE  \E y : Play(c, y) \in playCardActions(colors, cards, TRUE)
  BY <1>3 DEF playCardActions
<1> QED
  BY <1>1, <1>2, <1>3

LEMMA LegalPlays ==
    ASSUME NEW p, NEW colors, NEW cards \in SUBSET state.hand[p],
           state.phase = "playing", ~(state.drawStack > 0),
           \A c \in cards : acceptsPlay(p, c, null)
    PROVE  /\ \A a \in playCardActions(colors, cards, FALSE) : isLegalPlan(p, a)
           /\ cards # {} => playCardActions(colors, cards, FALSE) # {}
<1>1. ASSUME NEW c \in cards
      PROVE  isLegalPlan(p, Play(c, null))
  <2>1. accepts(p, Play(c, null))
    BY DEF accepts, Play
  <2>2. Play(c, null) \in cardPlans(state, c)
    BY DEF cardPlans
  <2>3. Play(c, null) \in UNION {cardPlans(state, d) : d \in state.hand[p]}
    BY <2>2
  <2>4. Play(c, null) \in candidatePlans(state, p)
    BY <2>3 DEF candidatePlans
  <2> QED
    BY <2>1, <2>4 DEF isLegalPlan
<1>2. playCardActions(colors, cards, FALSE) = {Play(c, null) : c \in cards}
  BY DEF playCardActions
<1> QED
  BY <1>1, <1>2

(* Where a stack waits to be answered there is a card to draw, and the card *)
(* that answers it is not taken for a misplay.                              *)
Answerable ==
    state.drawStack > 0 =>
        /\ hasCardsAvailable(state)
        /\ state.houseRules \cap {"misplayPenalty", "blindDraw"} = {}

(* Who draws when he plays nothing, and passes when he would not draw, does *)
(* what the rules accept: no plugin that refuses a draw or a pass looks at  *)
(* anything the chooser does not.                                           *)
LEMMA ChoosePlayLegal ==
    ASSUME Sound(state), Owes(state, 0), state.phase = "playing", Answerable,
           NEW sides \in SUBSET DrawSide, sides # {}, NEW plays, NEW answers,
           state.drawStack = 0 /\ state.pendingPenaltyDraws = 0 =>
              /\ \A a \in plays : isLegalPlan(state.currentPlayerIndex, a)
              /\ plays = {} =>
                    ~hasPlayableCard(state, state.currentPlayerIndex),
           state.drawStack > 0 /\ state.pendingPenaltyDraws = 0 =>
              \A a \in answers : isLegalPlan(state.currentPlayerIndex, a)
    PROVE  LET choice == choosePlay(state, state.currentPlayerIndex, sides,
                                    plays, answers)
           IN  /\ choice # {}
               /\ \A a \in choice : isLegalPlan(state.currentPlayerIndex, a)
<1> DEFINE p == state.currentPlayerIndex
           owing == hasPendingDrawObligation(state)
           wanted == CASE state.pendingPenaltyDraws > 0 -> {}
                       [] /\ state.pendingPenaltyDraws = 0
                          /\ state.drawStack > 0 -> answers
                       [] OTHER -> plays
<1>1. /\ state.pendingPenaltyDraws \in Nat /\ state.drawStack \in Nat
      /\ state.drawStack # 0 => stackingOn(state)
  BY DEF Owes, Due, stackingOn, anyOn, StackingRule
<1>2. IsCurrent(state, p)
  BY DEF IsCurrent
<1>3. \A a \in wanted : isLegalPlan(p, a)
  BY <1>1
<1>4. wanted = {} /\ ~owing => ~hasPlayableCard(state, p)
  BY <1>1 DEF hasPendingDrawObligation
<1> HIDE DEF wanted
<1>5. ASSUME wanted = {}, wouldDraw(state, p), NEW side \in sides
      PROVE  isLegalPlan(p, Draw(side))
  <2>1. acceptsDraw(p)
    <3>1. CASE stackingClaimsDraw(state)
      BY <1>2, <3>1 DEF acceptsDraw
    <3>2. CASE ~stackingClaimsDraw(state)
      <4>1. drawCardAllowed(state, p)
        BY <1>5 DEF drawCardAllowed, wouldDraw
      <4>2. CASE owing
        <5>1. state.pendingPenaltyDraws > 0
          BY <1>1, <3>2, <4>2 DEF stackingClaimsDraw, hasPendingDrawObligation
        <5>2. ~drawRefused(state, p)
          BY <1>1, <4>2, <5>1 DEF drawRefused, handLimitClaims, forcedPlayClaims,
             drawUntilPlayableClaims
        <5> QED
          BY <3>2, <4>1, <5>2 DEF acceptsDraw
      <4>3. CASE ~owing
        <5>1. /\ ~hasPlayableCard(state, p) /\ ~atHandLimit(state, p)
              /\ completedDraw(state, p) => On(state, "drawUntilPlayable")
          BY <1>4, <1>5, <4>3 DEF wouldDraw
        <5>2. ~drawRefused(state, p)
          BY <1>2, <4>3, <5>1 DEF drawRefused, handLimitClaims, forcedPlayClaims,
             drawUntilPlayableClaims
        <5> QED
          BY <3>2, <4>1, <5>2 DEF acceptsDraw
      <4> QED
        BY <4>2, <4>3
    <3> QED
      BY <3>1, <3>2
  <2>2. accepts(p, Draw(side))
    BY <2>1 DEF accepts, Draw
  <2>3. Draw(side) \in candidatePlans(state, p)
    BY <1>5 DEF candidatePlans
  <2> QED
    BY <2>2, <2>3 DEF isLegalPlan
<1>6. ASSUME wanted = {}, ~wouldDraw(state, p)
      PROVE  isLegalPlan(p, Plainly("PASS"))
  <2>1. passAllowed(state, p) /\ ~passRefused(state, p)
    <3>1. CASE ~hasCardsAvailable(state)
      <4>1. state.drawStack = 0
        BY <1>1, <3>1 DEF Answerable
      <4>2. ~passRefused(state, p)
        BY <3>1, <4>1 DEF passRefused, drawUntilPlayableRefusesPass
      <4>3. state.pendingPenaltyDraws > 0
               \/ ~hasUnrestrictedPlayableCard(state, p)
        BY <1>1, <1>4, <1>6, <4>1 DEF hasPendingDrawObligation, hasPlayableCard,
           hasUnrestrictedPlayableCard
      <4> QED
        BY <3>1, <4>2, <4>3 DEF passAllowed
    <3>2. CASE hasCardsAvailable(state)
      <4>1. /\ ~owing
            /\ \/ atHandLimit(state, p)
               \/ completedDraw(state, p) /\ ~On(state, "drawUntilPlayable")
        BY <1>6, <3>2 DEF wouldDraw
      <4>2. state.pendingPenaltyDraws = 0 /\ state.drawStack = 0
        BY <1>1, <4>1 DEF hasPendingDrawObligation
      <4>3. ~hasPlayableCard(state, p)
        BY <1>4, <1>6, <4>1
      <4>4. \/ isStuckAtHandLimit(state)
            \/ completedDraw(state, p) /\ ~On(state, "drawUntilPlayable")
        BY <4>1, <4>3 DEF isStuckAtHandLimit
      <4>5. ~passRefused(state, p)
        BY <4>2, <4>4 DEF passRefused, drawUntilPlayableRefusesPass
      <4> QED
        BY <3>2, <4>2, <4>4, <4>5 DEF passAllowed
    <3> QED
      BY <3>1, <3>2
  <2>2. accepts(p, Plainly("PASS"))
    BY <2>1 DEF accepts, Plainly, acceptsPass
  <2>3. Plainly("PASS") \in candidatePlans(state, p)
    BY DEF candidatePlans
  <2> QED
    BY <2>2, <2>3 DEF isLegalPlan
<1>7. choosePlay(state, p, sides, plays, answers) =
         CASE wanted # {} -> wanted
           [] wanted = {} /\ wouldDraw(state, p) -> {Draw(side) : side \in sides}
           [] OTHER -> {Plainly("PASS")}
  BY DEF choosePlay, wanted
<1> QED
  BY <1>3, <1>5, <1>6, <1>7
(* Whoever plays for the player the game waits for, the autopilot or a rule *)
(* bot, makes a move the rules accept, in every game without the rules that *)
(* forbid a last card ("Stuck" in the README): the state never refuses all  *)
(* that automation would do, so the game never stops.  Left out are stacks  *)
(* when no card is left to draw or when misplays are punished.              *)
THEOREM AutomationKeepsActing ==
    ASSUME N > 1, Color # {}
    PROVE  Spec => [](/\ state.houseRules \cap
                            {"noFunctionCardFinish", "noWildFinish"} = {}
                      /\ Answerable
                      => AutomationActs)
<1> DEFINE p == awaitedPlayer(state)
           autopilot == chooseAutopilotAction(state, p)
           bot == chooseBotAction(state, p)
           Legal(S) == \A a \in S : isLegalPlan(p, a)
           hand == state.hand[p]
<1>1. /\ SoundState /\ ClearState /\ DueState /\ PairState
      => (/\ state.houseRules \cap {"noFunctionCardFinish", "noWildFinish"} = {}
          /\ Answerable
          => AutomationActs)
  <2> SUFFICES ASSUME Sound(state), Clear(state), Owes(state, 0), PairState,
                      Unrestricted, Answerable, ~terminal(state)
               PROVE  bot # {} /\ Legal(autopilot) /\ Legal(bot)
    BY DEF SoundState, ClearState, DueState, Unrestricted, FinishRestriction,
           AutomationActs
  <2>1. /\ state.phase \in {"playing", "choosing_color", "challenging",
                            "choosing_swap_target"}
        /\ Told(state.phase, state.discardPile, state.chosenColor,
                state.currentColor, state.drawStack,
                state.pendingDrawPlayerId, state.houseRules)
        /\ state.pendingPenaltyDraws \in Nat /\ state.drawStack \in Nat
        /\ state.phase # "playing" => state.pendingPenaltyDraws = 0
        /\ state.drawStack # 0 => state.houseRules \cap StackingRule # {}
    BY DEF Sound, IsGameState, Phase, terminal, Clear, Owes, Due
  <2>2. bestColor(hand) \in SUBSET Color
    BY DEF bestColor
  <2>3. CASE state.phase = "choosing_color"
    <3>1. /\ p = state.currentPlayerIndex
          /\ autopilot = {ChooseColorOf(x) : x \in bestColor(hand)}
          /\ bot = {ChooseColorOf(x) : x \in Color}
          /\ candidatePlans(state, p) = {ChooseColorOf(x) : x \in Color}
      BY <2>3 DEF awaitedPlayer, chooseAutopilotAction, chooseBotAction,
                  candidatePlans
    <3>2. chooseColorAllowed(state, p)
      BY <2>3, <3>1 DEF chooseColorAllowed
    <3>3. \A x : accepts(p, ChooseColorOf(x))
      BY <3>2 DEF accepts, ChooseColorOf
    <3> HIDE DEF p, autopilot, bot
    <3> QED
      BY <2>2, <3>1, <3>3 DEF isLegalPlan
  <2>4. CASE state.phase = "choosing_swap_target"
    <3> DEFINE others == swapTargets(state, p)
    <3>1. /\ p = state.currentPlayerIndex
          /\ autopilot = {SwapWith(q) : q \in fewestCards(state, others)}
          /\ bot = {SwapWith(q) : q \in others}
          /\ candidatePlans(state, p) = {SwapWith(q) : q \in others}
      BY <2>4 DEF awaitedPlayer, chooseAutopilotAction, chooseBotAction,
                  candidatePlans
    <3>2. others # {}
      BY <2>4 DEF PairState, Paired, swapTargets
    <3>3. fewestCards(state, others) \subseteq others
      BY DEF fewestCards
    <3>4. ASSUME NEW q \in others
          PROVE  accepts(p, SwapWith(q))
      <4>1. On(state, "sevenSwapHands")
        BY <2>1, <2>4 DEF Told, On
      <4>2. chooseSwapTargetAllowed(state, p, q)
        BY <2>4, <3>1, <4>1
           DEF chooseSwapTargetAllowed, IsCurrent, swapTargets, AliveSeats
      <4> QED
        BY <4>2 DEF accepts, SwapWith
    <3> HIDE DEF p, autopilot, bot, others
    <3> QED
      BY <3>1, <3>2, <3>3, <3>4 DEF isLegalPlan
  <2>5. CASE state.phase = "challenging"
    <3>1. p = state.pendingDrawPlayerId
      BY <2>5 DEF awaitedPlayer
    <3>2. isLegalPlan(p, Plainly("ACCEPT"))
      <4>1. accepts(p, Plainly("ACCEPT"))
        BY <2>5, <3>1 DEF accepts, Plainly, respondAllowed
      <4> QED
        BY <2>5, <4>1 DEF isLegalPlan, candidatePlans
    <3>3. ~On(state, "noChallengeWildFour") => isLegalPlan(p, Plainly("CHALLENGE"))
      <4>1. /\ Len(state.discardPile) > 1
            /\ getWildDrawFourChallengeColor(state) # null
        BY <2>1, <2>5, ChallengeFindsColor DEF Told
      <4>2. challengeAllowed(state, p)
        BY <2>5, <3>1, <4>1 DEF challengeAllowed, respondAllowed
      <4>3. ~On(state, "noChallengeWildFour") => accepts(p, Plainly("CHALLENGE"))
        BY <4>2 DEF accepts, Plainly
      <4> QED
        BY <2>5, <4>3 DEF isLegalPlan, candidatePlans
    <3>4. ASSUME NEW colors \in SUBSET Color, NEW cards \in SUBSET hand,
                 \A c \in cards : \/ stacksOnChallenge(state, c)
                                  \/ deflectsWithReverse(state, c)
                                  \/ deflectsWithSkip(state, c)
          PROVE  /\ Legal(playCardActions(colors, cards, TRUE))
                 /\ cards # {} /\ colors # {} =>
                       playCardActions(colors, cards, TRUE) # {}
      <4>1. \A c \in cards : \A x :
               (type[c] = "wild_draw_four" => x # null) => acceptsPlay(p, c, x)
        BY <2>1, <2>5, <3>1, <3>4, ChallengeAnswerAccepted
      <4> HIDE DEF p
      <4> QED
        BY <2>5, <4>1, LegalAnswers
    <3>5. /\ stackableOnChallenge(state, p) \subseteq hand
          /\ deflectable(state, p) \subseteq hand
          /\ \A c \in stackableOnChallenge(state, p) : stacksOnChallenge(state, c)
          /\ \A c \in deflectable(state, p) : \/ deflectsWithReverse(state, c)
                                              \/ deflectsWithSkip(state, c)
          /\ preferReverse(deflectable(state, p)) \subseteq deflectable(state, p)
      BY DEF stackableOnChallenge, deflectable, preferReverse
    <3>6. autopilot = autopilotChallenged(state, p) /\ bot = handleChallenging(state, p)
      BY <2>5 DEF chooseAutopilotAction, chooseBotAction
    <3> HIDE DEF p
    <3>7. Legal(autopilotChallenged(state, p))
      BY <2>2, <3>2, <3>4, <3>5 DEF autopilotChallenged
    <3>8. handleChallenging(state, p) # {} /\ Legal(handleChallenging(state, p))
      <4> DEFINE cards == stackableOnChallenge(state, p) \cup deflectable(state, p)
                 plays == playCardActions(Color, cards, TRUE)
      <4>1. Legal(plays) /\ (cards # {} => plays # {})
        BY <3>4, <3>5
      <4> HIDE DEF plays, cards
      <4> QED
        BY <3>2, <3>3, <4>1 DEF handleChallenging, plays, cards
    <3> QED
      BY <3>6, <3>7, <3>8
  <2>6. CASE state.phase = "playing"
    <3>1. p = state.currentPlayerIndex
      BY <2>6 DEF awaitedPlayer
    <3>2. state.currentColor # null
      BY <2>1, <2>6 DEF Told, Open
    <3>3. ASSUME NEW colors \in SUBSET Color, NEW cards \in SUBSET hand,
                 \A c \in cards : \/ stacksOnStack(state, c)
                                  \/ deflectsWithReverse(state, c)
                                  \/ deflectsWithSkip(state, c),
                 state.drawStack > 0, state.pendingPenaltyDraws = 0
          PROVE  Legal(playCardActions(colors, cards, TRUE))
      <4>1. \A c \in cards : \A x :
               (type[c] = "wild_draw_four" => x # null) => acceptsPlay(p, c, x)
        BY <2>1, <2>6, <3>1, <3>3, StackAnswerAccepted DEF Answerable, MisplayRule
      <4> HIDE DEF p
      <4> QED
        BY <2>6, <3>3, <4>1, LegalAnswers
    <3>4. ASSUME NEW colors \in SUBSET Color,
                 NEW cards \in SUBSET getPlayableCards(state, p),
                 state.drawStack = 0, state.pendingPenaltyDraws = 0
          PROVE  /\ Legal(playCardActions(colors, cards, FALSE))
                 /\ cards # {} => playCardActions(colors, cards, FALSE) # {}
      <4>1. cards \in SUBSET hand /\ \A c \in cards : acceptsPlay(p, c, null)
        BY <2>6, <3>1, <3>4, PlayableAccepted DEF getPlayableCards
      <4>2. ~(state.drawStack > 0)
        BY <3>4
      <4> HIDE DEF p
      <4> QED
        BY <2>6, <4>1, <4>2, LegalPlays
    <3>5. getPlayableCards(state, p) = {} => ~hasPlayableCard(state, p)
      BY DEF getPlayableCards, hasPlayableCard
    <3>6. /\ stackable(state, p) \subseteq hand /\ deflectable(state, p) \subseteq hand
          /\ \A c \in stackable(state, p) : stacksOnStack(state, c)
          /\ \A c \in deflectable(state, p) : \/ deflectsWithReverse(state, c)
                                              \/ deflectsWithSkip(state, c)
      BY DEF stackable, deflectable
    <3> HIDE DEF p
    <3>7. autopilot # {} /\ Legal(autopilot)
      <4> DEFINE playable == getPlayableCards(state, p)
                 picked == pickPlayableCard(state, playable)
                 plays == playCardActions(bestColor(hand), picked, FALSE)
                 answers == autopilotAnswers(state, p)
                 sides == {LongerSide(state)}
      <4>1. picked \subseteq playable /\ (picked = {} => playable = {})
        BY DEF pickPlayableCard
      <4>2. state.drawStack = 0 /\ state.pendingPenaltyDraws = 0 =>
               Legal(plays) /\ (plays = {} => ~hasPlayableCard(state, p))
        BY <2>2, <3>4, <3>5, <4>1
      <4>3. state.drawStack > 0 /\ state.pendingPenaltyDraws = 0 => Legal(answers)
        BY <2>2, <3>3, <3>6 DEF autopilotAnswers
      <4>4. sides \in SUBSET DrawSide /\ sides # {}
        BY LongerSideIsSide
      <4>5. autopilot = choosePlay(state, p, sides, plays, answers)
        BY <2>6 DEF chooseAutopilotAction
      <4> HIDE DEF sides, plays, answers, autopilot
      <4> QED
        BY <2>6, <3>1, <4>2, <4>3, <4>4, <4>5, ChoosePlayLegal
    <3>8. bot # {} /\ Legal(bot)
      <4> DEFINE playable == notFinishBlocked(state, p, getPlayableCards(state, p))
                 plays == playCardActions(Color, playable, FALSE)
                 answers == playCardActions(Color, stackable(state, p)
                                                   \cup deflectable(state, p), TRUE)
                 sides == chooseDrawSide(state)
      <4>1. playable = getPlayableCards(state, p)
        BY NoRestrictionClaims DEF notFinishBlocked, finishRestrictionsClaims
      <4>2. state.drawStack = 0 /\ state.pendingPenaltyDraws = 0 =>
               Legal(plays) /\ (plays = {} => ~hasPlayableCard(state, p))
        BY <3>4, <3>5, <4>1
      <4>3. state.drawStack > 0 /\ state.pendingPenaltyDraws = 0 => Legal(answers)
        BY <3>3, <3>6
      <4>4. sides \in SUBSET DrawSide /\ sides # {}
        BY DEF chooseDrawSide, DrawSide
      <4>5. bot = choosePlay(state, p, sides, plays, answers)
        BY <2>6 DEF chooseBotAction, handlePlaying
      <4> HIDE DEF sides, plays, answers, bot
      <4> QED
        BY <2>6, <3>1, <4>2, <4>3, <4>4, <4>5, ChoosePlayLegal
    <3> QED
      BY <3>7, <3>8
  <2> QED
    BY <2>1, <2>3, <2>4, <2>5, <2>6
<1> QED
  BY <1>1, AlwaysSound, AlwaysClear, AlwaysDue, AlwaysPaired, PTL

(***************************************************************************)
(* The points of a round                                                   *)
(*                                                                         *)
(* wins and score are the rounds won and the points before an action.      *)
(* Plugins run after the round is decided, and some move cards: what the   *)
(* winner gets is compared with all the cards still held, which a rotation *)
(* of the hands does not change.                                           *)
(***************************************************************************)

(* Nobody has won a round: the tallies are as they were.                    *)
Unscored(s, wins, score) ==
    /\ DOMAIN s = StateField
    /\ s.roundWins = wins /\ s.score = score

(* The winner of s has won the round and got what the others hold.          *)
Won(s, wins, score) ==
    /\ DOMAIN s = StateField /\ terminal(s)
    /\ \E w \in Seat :
          /\ s.winnerId = w
          /\ s.roundWins = [wins EXCEPT ![w] = @ + 1]
          /\ s.score = [score EXCEPT ![w] = @ + HandScore(HeldCards(s))]

Counted(s, wins, score) ==
    Unscored(s, wins, score) \/ Won(s, wins, score)

(* The winner's empty hand adds nothing to the others.                      *)
LEMMA EmptyHandCountsNothing ==
    ASSUME NEW s, NEW p \in Seat, s.hand[p] = {}
    PROVE  RoundScore(s, p) = HandScore(HeldCards(s))
<1>1. UNION {s.hand[q] : q \in Seat \ {p}} = UNION {s.hand[q] : q \in Seat}
  OBVIOUS
<1> QED
  BY <1>1 DEF RoundScore, HeldCards

LEMMA CheckRoundEndCounts ==
    ASSUME NEW wins, NEW score, NEW s, Unscored(s, wins, score), NEW p \in Seat
    PROVE  Counted(checkRoundEnd(s, p), wins, score)
<1> DEFINE total == s.score[p] + RoundScore(s, p)
           decided == [s EXCEPT !.score[p] = total,
                                !.roundWins[p] = @ + 1,
                                !.phase = IF total >= TargetScore
                                          THEN "game_over" ELSE "round_end",
                                !.winnerId = p]
           ended == withPenaltyStateDefaults(decided)
<1>1. CASE s.hand[p] # {}
  BY <1>1 DEF checkRoundEnd, Counted
<1>2. CASE s.hand[p] = {}
  <2> DEFINE earned == HandScore(HeldCards(s))
  <2>1. total = score[p] + earned
    BY <1>2, EmptyHandCountsNothing DEF Unscored
  <2> HIDE DEF earned
  <2>2. /\ DOMAIN decided = StateField /\ decided.hand = s.hand
        /\ terminal(decided) /\ decided.winnerId = p
        /\ decided.roundWins = [wins EXCEPT ![p] = @ + 1]
        /\ decided.score = [score EXCEPT ![p] = total]
    BY DEF Unscored, StateField, terminal, TerminalPhase
  <2>3. [score EXCEPT ![p] = total] = [score EXCEPT ![p] = @ + earned]
    BY <2>1
  <2> HIDE DEF decided, total
  <2>4. /\ DOMAIN ended = StateField /\ ended.hand = s.hand
        /\ terminal(ended) /\ ended.winnerId = p
        /\ ended.roundWins = [wins EXCEPT ![p] = @ + 1]
        /\ ended.score = [score EXCEPT ![p] = @ + earned]
    BY <2>2, <2>3 DEF withPenaltyStateDefaults, StateField, terminal
  <2>5. checkRoundEnd(s, p) = ended
    BY <1>2 DEF checkRoundEnd, decided, total
  <2> HIDE DEF ended
  <2>6. HeldCards(ended) = HeldCards(s)
    BY <2>4 DEF HeldCards
  <2>7. Won(ended, wins, score)
    BY <2>4, <2>6 DEF Won, earned
  <2> QED
    BY <2>5, <2>7 DEF Counted
<1> QED
  BY <1>1, <1>2

LEMMA StartPenaltyDrawUnscored ==
    ASSUME NEW wins, NEW score, NEW s, Unscored(s, wins, score),
           NEW p, NEW count, NEW next, NEW source
    PROVE  Unscored(startPenaltyDraw(s, p, count, next, source), wins, score)
BY DEF Unscored, StateField, startPenaltyDraw

LEMMA StartQueuedPenaltyUnscored ==
    ASSUME NEW wins, NEW score, NEW s, Unscored(s, wins, score)
    PROVE  Unscored(startQueuedPenalty(s), wins, score)
<1>1. Unscored([s EXCEPT !.pendingPenaltyQueue = Tail(@)], wins, score)
  BY DEF Unscored, StateField
<1> QED
  BY <1>1, StartPenaltyDrawUnscored DEF startQueuedPenalty

LEMMA DrainPenaltyQueueUnscored ==
    ASSUME NEW wins, NEW score, NEW s, Unscored(s, wins, score)
    PROVE  Unscored(drainPenaltyQueue(s), wins, score)
BY StartQueuedPenaltyUnscored DEF drainPenaltyQueue

LEMMA DrainPenaltyQueueCounts ==
    ASSUME NEW wins, NEW score, NEW s, Counted(s, wins, score)
    PROVE  Counted(drainPenaltyQueue(s), wins, score)
<1>1. CASE Won(s, wins, score)
  BY <1>1 DEF Won, Counted, drainPenaltyQueue, terminal, TerminalPhase
<1> QED
  BY <1>1, DrainPenaltyQueueUnscored DEF Counted

(* The last card of a penalty may decide the round for who played it.       *)
LEMMA FinishPenaltyDrawCounts ==
    ASSUME NEW wins, NEW score, NEW s, Unscored(s, wins, score),
           s.pendingPenaltySourcePlayerId \in Seat \cup {null},
           NEW lastAction
    PROVE  Counted(finishPenaltyDrawIfNeeded(s, lastAction), wins, score)
<1> DEFINE paid == [s EXCEPT !.pendingPenaltyDraws = 0,
                             !.pendingPenaltyNextPlayerIndex = null,
                             !.pendingPenaltySourcePlayerId = null,
                             !.lastAction = lastAction]
           finished == [paid EXCEPT
                          !.currentPlayerIndex = s.pendingPenaltyNextPlayerIndex]
           going == [s EXCEPT !.pendingPenaltyDraws = @ - 1,
                              !.lastAction = lastAction]
<1>1. Unscored(paid, wins, score)
  BY DEF Unscored, StateField
<1>2. Unscored(going, wins, score)
  BY DEF Unscored, StateField
<1> HIDE DEF paid, going
<1>3. Unscored(finished, wins, score)
  BY <1>1 DEF Unscored, StateField
<1> HIDE DEF finished
<1>4. Unscored(startQueuedPenalty(paid), wins, score)
  BY <1>1, StartQueuedPenaltyUnscored
<1>5. ASSUME s.pendingPenaltySourcePlayerId # null
      PROVE  Counted(checkRoundEnd(finished, s.pendingPenaltySourcePlayerId),
                     wins, score)
  BY <1>3, <1>5, CheckRoundEndCounts
<1> QED
  BY <1>2, <1>3, <1>4, <1>5
     DEF finishPenaltyDrawIfNeeded, Counted, paid, finished, going

LEMMA DrawCardsUnscored ==
    ASSUME NEW wins, NEW score, NEW s, Unscored(s, wins, score),
           NEW p, NEW side, NEW card
    PROVE  Unscored(drawCards(s, p, side, card), wins, score)
BY DrawCardsKeepsResult DEF Unscored

(* A draw leaves the penalty that is paid as it is.                         *)
LEMMA DrawCardsKeepsSource ==
    ASSUME NEW s, DOMAIN s = StateField, NEW p, NEW side, NEW card
    PROVE  drawCards(s, p, side, card).pendingPenaltySourcePlayerId
              = s.pendingPenaltySourcePlayerId
<1> DEFINE refilled == withSideRefilled(s, side)
           drawn == [refilled EXCEPT !.deck[side] = @ \ {card},
                                     !.hand[p] = @ \cup {card},
                                     !.calledUno[p] = FALSE,
                                     !.unoCaught[p] = FALSE]
<1>1. /\ DOMAIN refilled = StateField
      /\ refilled.pendingPenaltySourcePlayerId = s.pendingPenaltySourcePlayerId
  BY DEF withSideRefilled, StateField
<1> HIDE DEF refilled
<1>2. drawn.pendingPenaltySourcePlayerId = s.pendingPenaltySourcePlayerId
  BY <1>1 DEF StateField
<1> HIDE DEF drawn
<1> QED
  BY <1>1, <1>2 DEF drawCards, refilled, drawn

LEMMA HandleDrawCardCounts ==
    ASSUME NEW wins, NEW score, NEW s, Unscored(s, wins, score),
           s.pendingPenaltySourcePlayerId \in Seat \cup {null},
           NEW p, NEW side, NEW card
    PROVE  /\ Counted(handleDrawCard(s, p, side, card), wins, score)
           /\ ~(s.pendingPenaltyDraws > 0) =>
                 Unscored(handleDrawCard(s, p, side, card), wins, score)
<1> DEFINE drawn == drawCards(s, p, side, card)
           noted == [drawn EXCEPT !.lastAction = Acted("DRAW_CARD", p)]
<1>1. Unscored(drawn, wins, score)
  BY DrawCardsUnscored
<1>2. drawn.pendingPenaltySourcePlayerId \in Seat \cup {null}
  BY DrawCardsKeepsSource DEF Unscored
<1> HIDE DEF drawn
<1>3. Unscored(noted, wins, score)
  BY <1>1 DEF Unscored, StateField
<1> HIDE DEF noted
<1>4. Counted(finishPenaltyDrawIfNeeded(drawn, Acted("DRAW_CARD", p)),
              wins, score)
  BY <1>1, <1>2, FinishPenaltyDrawCounts
<1> QED
  BY <1>3, <1>4 DEF handleDrawCard, drawn, noted, Counted

LEMMA DiscardUnscored ==
    ASSUME NEW wins, NEW score, NEW s, Unscored(s, wins, score), NEW p, NEW c
    PROVE  Unscored(withCardDiscarded(s, p, c), wins, score)
BY DEF Unscored, StateField, withCardDiscarded

LEMMA UnoFlagsUnscored ==
    ASSUME NEW wins, NEW score, NEW s, Unscored(s, wins, score), NEW p
    PROVE  Unscored(withUnoFlagsAfterPlay(s, p), wins, score)
BY DEF Unscored, StateField, withUnoFlagsAfterPlay

LEMMA CardEffectUnscored ==
    ASSUME NEW wins, NEW score, NEW s, Unscored(s, wins, score), NEW p,
           NEW c \in Deck
    PROVE  Unscored(withCardEffect(s, p, c), wins, score)
<1> DEFINE next == getNextAliveIndex(s.eliminated, p, s.direction)
           afterNext == skipNextAliveIndex(s.eliminated, p, s.direction)
<1>1. type[c] \in CardType
  BY DeckAssumption
<1>2. ASSUME NEW turn, NEW direction
      PROVE  /\ Unscored([s EXCEPT !.currentColor = color[c],
                                   !.currentPlayerIndex = turn], wins, score)
             /\ Unscored([s EXCEPT !.currentColor = color[c],
                                   !.direction = direction,
                                   !.currentPlayerIndex = turn], wins, score)
  BY DEF Unscored, StateField
<1>3. Unscored([s EXCEPT !.currentColor = color[c]], wins, score)
  BY DEF Unscored, StateField
<1>4. Unscored(startPenaltyDraw([s EXCEPT !.currentColor = color[c]],
                                next, 2, afterNext, p), wins, score)
  BY <1>3, StartPenaltyDrawUnscored
<1>5. /\ Unscored([s EXCEPT !.phase = "choosing_color"], wins, score)
      /\ Unscored([s EXCEPT !.phase = "choosing_color",
                            !.pendingDrawPlayerId = next], wins, score)
  BY DEF Unscored, StateField
<1> HIDE DEF next, afterNext
<1> QED
  BY <1>1, <1>2, <1>4, <1>5 DEF withCardEffect, CardType, next, afterNext

LEMMA HandlePlayCardCounts ==
    ASSUME NEW wins, NEW score, NEW s, Unscored(s, wins, score),
           NEW p \in Seat, NEW c \in Deck
    PROVE  Counted(handlePlayCard(s, p, c), wins, score)
<1>1. Unscored(withCardDiscarded(s, p, c), wins, score)
  BY DiscardUnscored
<1>2. Unscored(withUnoFlagsAfterPlay(withCardDiscarded(s, p, c), p), wins, score)
  BY <1>1, UnoFlagsUnscored
<1>3. Unscored(withCardEffect(withUnoFlagsAfterPlay(withCardDiscarded(s, p, c),
                                                    p), p, c), wins, score)
  BY <1>2, CardEffectUnscored
<1> QED
  BY <1>3, CheckRoundEndCounts DEF handlePlayCard

LEMMA HandlePassUnscored ==
    ASSUME NEW wins, NEW score, NEW s, Unscored(s, wins, score), NEW p
    PROVE  Unscored(handlePass(s, p), wins, score)
<1> DEFINE passed == [s EXCEPT !.lastAction = Acted("PASS", p)]
           advanced == [passed EXCEPT !.currentPlayerIndex =
                          getNextAliveIndex(s.eliminated, p, s.direction)]
           ended == [passed EXCEPT !.phase = "round_end", !.winnerId = null]
<1>1. Unscored(passed, wins, score)
  BY DEF Unscored, StateField
<1> HIDE DEF passed
<1>2. Unscored(advanced, wins, score) /\ Unscored(ended, wins, score)
  BY <1>1 DEF Unscored, StateField
<1> HIDE DEF advanced, ended
<1>3. /\ Unscored(withPenaltyStateDefaults(ended), wins, score)
      /\ Unscored(withPenaltyStateDefaults(advanced), wins, score)
  BY <1>2 DEF Unscored, StateField, withPenaltyStateDefaults
<1> QED
  BY <1>2, <1>3 DEF handlePass, passed, advanced, ended

LEMMA HandleChooseColorUnscored ==
    ASSUME NEW wins, NEW score, NEW s, Unscored(s, wins, score), NEW p,
           NEW chosen
    PROVE  Unscored(handleChooseColor(s, p, chosen), wins, score)
<1> DEFINE colored == [s EXCEPT !.chosenColor[topCard(s)] = chosen,
                                !.currentColor = chosen,
                                !.lastAction = Acted("CHOOSE_COLOR", p)]
           challenged == [colored EXCEPT !.phase = "challenging"]
           played == [colored EXCEPT
                        !.phase = "playing",
                        !.currentPlayerIndex =
                           getNextAliveIndex(s.eliminated, p, s.direction)]
<1>1. Unscored(colored, wins, score)
  BY DEF Unscored, StateField
<1> HIDE DEF colored
<1>2. Unscored(challenged, wins, score) /\ Unscored(played, wins, score)
  BY <1>1 DEF Unscored, StateField
<1> HIDE DEF challenged, played
<1>3. Unscored(drainPenaltyQueue(played), wins, score)
  BY <1>2, DrainPenaltyQueueUnscored
<1> QED
  BY <1>2, <1>3 DEF handleChooseColor, colored, challenged, played

LEMMA SettleWildDrawFourUnscored ==
    ASSUME NEW wins, NEW score, NEW s, Unscored(s, wins, score),
           NEW lastAction, NEW p, NEW count, NEW source
    PROVE  Unscored(settleWildDrawFour(s, lastAction, p, count, source),
                    wins, score)
<1>1. Unscored([s EXCEPT !.phase = "playing", !.pendingDrawPlayerId = null,
                         !.pendingRevengeDraws = 0,
                         !.lastAction = lastAction], wins, score)
  BY DEF Unscored, StateField
<1> QED
  BY <1>1, StartPenaltyDrawUnscored DEF settleWildDrawFour

(* A challenge, an acceptance, a colour that settles a Wild Draw Four.      *)
LEMMA AnswersUnscored ==
    ASSUME NEW wins, NEW score, NEW s, Unscored(s, wins, score), NEW p,
           NEW chosen
    PROVE  /\ Unscored(handleChallenge(s, p), wins, score)
           /\ Unscored(handleAccept(s, p), wins, score)
           /\ Unscored(chooseColorUnchallenged(s, p, chosen), wins, score)
<1>1. Unscored(handleChallenge(s, p), wins, score)
  BY SettleWildDrawFourUnscored DEF handleChallenge
<1>2. Unscored(handleAccept(s, p), wins, score)
  BY SettleWildDrawFourUnscored DEF handleAccept
<1>3. Unscored(chooseColorUnchallenged(s, p, chosen), wins, score)
  BY HandleChooseColorUnscored, SettleWildDrawFourUnscored
     DEF chooseColorUnchallenged
<1> QED
  BY <1>1, <1>2, <1>3

LEMMA UnoCallsUnscored ==
    ASSUME NEW wins, NEW score, NEW s, Unscored(s, wins, score), NEW p,
           NEW count
    PROVE  /\ Unscored(handleCallUno(s, p), wins, score)
           /\ Unscored(handleCatchUno(s, p, count), wins, score)
<1>1. Unscored(handleCallUno(s, p), wins, score)
  BY DEF Unscored, StateField, handleCallUno
<1>2. Unscored([s EXCEPT !.unoCaught[p] = TRUE,
                         !.lastAction = Acted("CATCH_UNO", null)], wins, score)
  BY DEF Unscored, StateField
<1> QED
  BY <1>1, <1>2, StartPenaltyDrawUnscored DEF handleCatchUno

(***************************************************************************)
(* The plugins                                                             *)
(***************************************************************************)
LEMMA RotationKeepsHeld ==
    ASSUME NEW hand, NEW eliminated, NEW direction
    PROVE  LET new == rotateHands(hand, eliminated, direction)
           IN  UNION {new[i] : i \in Seat} = UNION {hand[i] : i \in Seat}
<1> DEFINE alive == AliveSeats(eliminated)
           back == reverseDirection(direction)
           forth == reverseDirection(back)
           previous(i) == getNextAliveIndex(eliminated, i, back)
           following(i) == getNextAliveIndex(eliminated, i, forth)
           new == rotateHands(hand, eliminated, direction)
<1>1. \A i \in alive : /\ previous(i) \in alive /\ following(i) \in alive
                       /\ previous(following(i)) = i
  <2> SUFFICES ASSUME NEW i \in alive
               PROVE  /\ previous(i) \in alive /\ following(i) \in alive
                      /\ previous(following(i)) = i
    OBVIOUS
  <2>1. i \in Seat /\ alive # {}
    BY DEF AliveSeats
  <2>2. previous(i) \in alive /\ following(i) \in alive
    BY <2>1, NextIsAlive
  <2>3. reverseDirection(forth) = back
    BY ReverseTwice
  <2>4. previous(following(i)) = i
    BY <2>3, NextIsReversible
  <2> QED
    BY <2>2, <2>4
<1>2. \A i \in Seat : i \in alive <=> ~eliminated[i]
  BY DEF AliveSeats
<1>3. alive \in SUBSET Seat
  BY DEF AliveSeats
<1>4. \A i \in Seat : new[i] = IF i \in alive THEN hand[previous(i)] ELSE hand[i]
  BY <1>2 DEF rotateHands
<1> HIDE DEF alive, previous, following, back, forth, new
<1>5. ASSUME NEW i \in Seat
      PROVE  \E j \in Seat : new[i] = hand[j]
  BY <1>1, <1>3, <1>4
<1>6. ASSUME NEW j \in Seat
      PROVE  \E i \in Seat : new[i] = hand[j]
  BY <1>1, <1>3, <1>4
<1>7. UNION {new[i] : i \in Seat} = UNION {hand[i] : i \in Seat}
  BY <1>5, <1>6
<1> QED
  BY <1>7 DEF new

(* What the plugins before doubleScore leave of a count.                    *)
LEMMA ReshapedCounts ==
    ASSUME NEW wins, NEW score, NEW s, NEW t, Counted(s, wins, score),
           DOMAIN t = StateField, t.roundWins = s.roundWins, t.score = s.score,
           t.winnerId = s.winnerId, terminal(s) => terminal(t),
           HeldCards(t) = HeldCards(s)
    PROVE  /\ Counted(t, wins, score)
           /\ Unscored(s, wins, score) => Unscored(t, wins, score)
<1>1. CASE Unscored(s, wins, score)
  BY <1>1 DEF Unscored, Counted
<1>2. CASE Won(s, wins, score)
  BY <1>2 DEF Won, Counted, Unscored
<1> QED
  BY <1>1, <1>2 DEF Counted

LEMMA TurnPluginsCount ==
    ASSUME NEW wins, NEW score, NEW before, NEW after,
           Counted(after, wins, score), NEW c
    PROVE  /\ Counted(zeroRotate(before, after, c), wins, score)
           /\ Counted(sevenSwapPost(before, after, c), wins, score)
           /\ Counted(revengeMode(before, after, c), wins, score)
           /\ Counted(multiPlayPost(before, after, c), wins, score)
<1>0. DOMAIN after = StateField
  BY DEF Counted, Unscored, Won
<1>1. Counted(zeroRotate(before, after, c), wins, score)
  <2> DEFINE hands == rotateHands(after.hand, after.eliminated, after.direction)
             rotated == [after EXCEPT !.hand = hands]
  <2>1. UNION {hands[i] : i \in Seat} = UNION {after.hand[i] : i \in Seat}
    BY RotationKeepsHeld
  <2> HIDE DEF hands
  <2>2. /\ DOMAIN rotated = StateField /\ rotated.hand = hands
        /\ rotated.roundWins = after.roundWins /\ rotated.score = after.score
        /\ rotated.winnerId = after.winnerId /\ rotated.phase = after.phase
    BY <1>0 DEF StateField
  <2> HIDE DEF rotated
  <2>3. HeldCards(rotated) = HeldCards(after)
    BY <2>1, <2>2 DEF HeldCards
  <2>4. Counted(rotated, wins, score)
    BY <2>2, <2>3, ReshapedCounts DEF terminal
  <2> QED
    BY <2>4 DEF zeroRotate, rotated, hands
<1>2. Counted(sevenSwapPost(before, after, c), wins, score)
  <2> DEFINE asked == [after EXCEPT !.phase = "choosing_swap_target",
                                    !.currentPlayerIndex =
                                       before.currentPlayerIndex]
  <2>1. Unscored(after, wins, score) => Unscored(asked, wins, score)
    BY DEF Unscored, StateField
  <2> HIDE DEF asked
  <2>2. ~terminal(after) => Unscored(after, wins, score)
    BY DEF Counted, Won
  <2> QED
    BY <2>1, <2>2 DEF sevenSwapPost, asked, Counted
<1>3. Counted(revengeMode(before, after, c), wins, score)
  <2> DEFINE harder == [after EXCEPT !.pendingRevengeDraws = @ + 4]
  <2>1. Unscored(after, wins, score) => Unscored(harder, wins, score)
    BY DEF Unscored, StateField
  <2> HIDE DEF harder
  <2>2. ~terminal(after) => Unscored(after, wins, score)
    BY DEF Counted, Won
  <2> QED
    BY <2>1, <2>2, StartPenaltyDrawUnscored DEF revengeMode, harder, Counted
<1>4. Counted(multiPlayPost(before, after, c), wins, score)
  <2> DEFINE kept == [after EXCEPT !.currentPlayerIndex =
                                      before.currentPlayerIndex]
  <2>1. /\ DOMAIN kept = StateField /\ kept.hand = after.hand
        /\ kept.roundWins = after.roundWins /\ kept.score = after.score
        /\ kept.winnerId = after.winnerId /\ kept.phase = after.phase
    BY <1>0 DEF StateField
  <2> HIDE DEF kept
  <2>2. Counted(kept, wins, score)
    BY <2>1, ReshapedCounts DEF terminal, HeldCards
  <2> QED
    BY <2>2 DEF multiPlayPost, kept
<1> QED
  BY <1>1, <1>2, <1>3, <1>4

(* Plugins decide no round.                                                 *)
LEMMA TurnPluginsUnscored ==
    ASSUME NEW wins, NEW score, NEW before, NEW after,
           Unscored(after, wins, score), NEW c
    PROVE  /\ Unscored(zeroRotate(before, after, c), wins, score)
           /\ Unscored(sevenSwapPost(before, after, c), wins, score)
           /\ Unscored(revengeMode(before, after, c), wins, score)
           /\ Unscored(multiPlayPost(before, after, c), wins, score)
<1>1. Unscored(zeroRotate(before, after, c), wins, score)
  BY DEF Unscored, StateField, zeroRotate
<1>2. Unscored(sevenSwapPost(before, after, c), wins, score)
  BY DEF Unscored, StateField, sevenSwapPost
<1>3. Unscored([after EXCEPT !.pendingRevengeDraws = @ + 4], wins, score)
  BY DEF Unscored, StateField
<1>4. Unscored(revengeMode(before, after, c), wins, score)
  BY <1>3, StartPenaltyDrawUnscored DEF revengeMode
<1>5. Unscored(multiPlayPost(before, after, c), wins, score)
  BY DEF Unscored, StateField, multiPlayPost
<1> QED
  BY <1>1, <1>2, <1>4, <1>5

(* Whoever wins a round with doubleScore gets twice what the others hold.   *)
Rewarded(t, rules, wins, score) ==
    "doubleScore" \in rules =>
       \A w \in Seat :
          t.roundWins[w] > wins[w] =>
             t.score[w] = score[w] + 2 * HandScore(HeldCards(t))

LEMMA NoWinRewarded ==
    ASSUME NEW t, NEW rules, NEW wins \in [Seat -> Nat], NEW score,
           t.roundWins = wins
    PROVE  Rewarded(t, rules, wins, score)
BY DEF Rewarded

(* teamMode gives to others than the winner, elimination changes no points. *)
LEMMA TeamAndEliminationKeep ==
    ASSUME NEW before, NEW after, DOMAIN after = StateField
    PROVE  LET t == elimination(before, teamMode(before, after))
           IN  /\ DOMAIN t = StateField
               /\ t.roundWins = after.roundWins /\ t.hand = after.hand
               /\ after.winnerId \in Seat =>
                     t.score[after.winnerId] = after.score[after.winnerId]
<1> DEFINE shared == teamMode(before, after)
           loser == CHOOSE p \in Seat : IsLoser(shared, p)
           without == [shared EXCEPT !.eliminated[loser] = TRUE]
           Kept(t) == /\ DOMAIN t = StateField
                      /\ t.roundWins = after.roundWins /\ t.hand = after.hand
                      /\ after.winnerId \in Seat =>
                            t.score[after.winnerId]
                               = after.score[after.winnerId]
<1>1. Kept(shared)
  BY DEF teamMode, StateField
<1> HIDE DEF shared
<1>2. Kept(without)
  BY <1>1 DEF StateField
<1> HIDE DEF without
<1>3. ASSUME NEW w PROVE Kept([without EXCEPT !.phase = "game_over",
                                              !.winnerId = w])
  BY <1>2 DEF StateField
<1> HIDE DEF Kept
<1>4. Kept(elimination(before, shared))
  BY <1>1, <1>2, <1>3 DEF elimination, without, loser
<1> QED
  BY <1>4 DEF Kept, shared

LEMMA SettleRoundUnscored ==
    ASSUME NEW before, NEW after, DOMAIN after = StateField
    PROVE  settleRound(before, after).roundWins = after.roundWins
<1> DEFINE doubled == doubleScore(before, after)
           shared == teamMode(before, doubled)
           loser == CHOOSE p \in Seat : IsLoser(shared, p)
           without == [shared EXCEPT !.eliminated[loser] = TRUE]
           Kept(t) == DOMAIN t = StateField /\ t.roundWins = after.roundWins
<1>1. Kept(doubled)
  BY DEF doubleScore, StateField
<1> HIDE DEF doubled
<1>2. Kept(shared)
  BY <1>1 DEF teamMode, StateField
<1> HIDE DEF shared
<1>3. Kept(without)
  BY <1>2 DEF StateField
<1> HIDE DEF without
<1>4. ASSUME NEW w PROVE Kept([without EXCEPT !.phase = "game_over",
                                              !.winnerId = w])
  BY <1>3 DEF StateField
<1> HIDE DEF Kept
<1>5. Kept(elimination(before, shared))
  BY <1>2, <1>3, <1>4 DEF elimination, without, loser
<1> QED
  BY <1>5 DEF Kept, settleRound, shared, doubled

LEMMA SettleRoundRewards ==
    ASSUME NEW before, before.phase = "playing",
           before.roundWins \in [Seat -> Nat], before.score \in [Seat -> Nat],
           NEW after, Counted(after, before.roundWins, before.score),
           HandScore(HeldCards(settleRound(before, after))) \in Nat
    PROVE  Rewarded(settleRound(before, after), before.houseRules,
                    before.roundWins, before.score)
<1> DEFINE wins == before.roundWins
           score == before.score
           final == settleRound(before, after)
           earned == HandScore(HeldCards(after))
           doubled == doubleScore(before, after)
<1>1. CASE Unscored(after, wins, score)
  BY <1>1, SettleRoundUnscored, NoWinRewarded DEF Unscored
<1>2. CASE Won(after, wins, score) /\ "doubleScore" \in before.houseRules
  <2>1. PICK w \in Seat : /\ after.winnerId = w
                          /\ after.roundWins = [wins EXCEPT ![w] = @ + 1]
                          /\ after.score = [score EXCEPT ![w] = @ + earned]
    BY <1>2 DEF Won
  <2>2. DOMAIN after = StateField /\ terminal(after)
    BY <1>2 DEF Won
  <2>3. /\ DOMAIN doubled = StateField /\ doubled.hand = after.hand
        /\ doubled.roundWins = after.roundWins /\ doubled.winnerId = w
    BY <2>1, <2>2 DEF doubleScore, StateField
  <2>4. /\ score[w] \in Nat /\ wins[w] \in Nat
        /\ after.score[w] = score[w] + earned
    BY <2>1
  <2>5. /\ final.roundWins = after.roundWins /\ final.hand = after.hand
        /\ final.score[w] = doubled.score[w]
    <3>1. final = elimination(before, teamMode(before, doubled))
      BY DEF settleRound
    <3> HIDE DEF doubled, final
    <3> QED
      BY <2>3, <3>1, TeamAndEliminationKeep
  <2> HIDE DEF final
  <2>6. HeldCards(final) = HeldCards(after)
    BY <2>5 DEF HeldCards
  <2>7. earned \in Nat
    BY <2>6 DEF final
  <2> HIDE DEF earned
  <2>8. doubled.score[w] = score[w] + 2 * earned
    <3>1. roundDecided(before, after) /\ On(before, "doubleScore")
      BY <1>2, <2>1, <2>2, NullIsNoSeat DEF roundDecided, On
    <3>2. CASE earned > 0
      <4> DEFINE more == score[w] + (after.score[w] - score[w]) * 2
      <4>1. after.score[w] - score[w] > 0 /\ more = score[w] + 2 * earned
        BY <2>4, <2>7, <3>2
      <4> HIDE DEF more
      <4>2. doubled = [after EXCEPT !.score[w] = more]
        BY <2>1, <3>1, <4>1 DEF doubleScore, more
      <4>3. w \in DOMAIN after.score
        BY <2>1
      <4> QED
        BY <2>2, <4>1, <4>2, <4>3 DEF StateField
    <3>3. CASE earned = 0
      <4>1. ~(after.score[w] - score[w] > 0)
        BY <2>4, <2>7, <3>3
      <4>2. doubled = after
        BY <2>1, <4>1 DEF doubleScore
      <4> QED
        BY <2>4, <2>7, <3>3, <4>2
    <3> QED
      BY <2>7, <3>2, <3>3
  <2>9. ASSUME NEW v \in Seat, final.roundWins[v] > wins[v]
        PROVE  v = w
    BY <2>1, <2>5, <2>9
  <2>10. final.score[w] = score[w] + 2 * HandScore(HeldCards(final))
    BY <2>5, <2>6, <2>8 DEF earned
  <2> QED
    BY <2>9, <2>10 DEF Rewarded, final
<1> QED
  BY <1>1, <1>2 DEF Counted, Rewarded

LEMMA PostProcessPlayRewards ==
    ASSUME NEW before, before.phase = "playing",
           before.roundWins \in [Seat -> Nat], before.score \in [Seat -> Nat],
           NEW after, Counted(after, before.roundWins, before.score), NEW c,
           HandScore(HeldCards(postProcessPlay(before, after, c))) \in Nat
    PROVE  Rewarded(postProcessPlay(before, after, c), before.houseRules,
                    before.roundWins, before.score)
<1> DEFINE rotated == zeroRotate(before, after, c)
           asked == sevenSwapPost(before, rotated, c)
           harder == revengeMode(before, asked, c)
           kept == multiPlayPost(before, harder, c)
<1>1. Counted(rotated, before.roundWins, before.score)
  BY TurnPluginsCount
<1> HIDE DEF rotated
<1>2. Counted(asked, before.roundWins, before.score)
  BY <1>1, TurnPluginsCount
<1> HIDE DEF asked
<1>3. Counted(harder, before.roundWins, before.score)
  BY <1>2, TurnPluginsCount
<1> HIDE DEF harder
<1>4. Counted(kept, before.roundWins, before.score)
  BY <1>3, TurnPluginsCount
<1>5. postProcessPlay(before, after, c) = settleRound(before, kept)
  BY DEF postProcessPlay, kept, harder, asked, rotated
<1> HIDE DEF kept
<1> QED
  BY <1>4, <1>5, SettleRoundRewards

LEMMA PostProcessPlayUnscored ==
    ASSUME NEW before, NEW after, NEW score,
           Unscored(after, before.roundWins, score), NEW c
    PROVE  postProcessPlay(before, after, c).roundWins = before.roundWins
<1> DEFINE rotated == zeroRotate(before, after, c)
           asked == sevenSwapPost(before, rotated, c)
           harder == revengeMode(before, asked, c)
           kept == multiPlayPost(before, harder, c)
<1>1. Unscored(rotated, before.roundWins, score)
  BY TurnPluginsUnscored
<1> HIDE DEF rotated
<1>2. Unscored(asked, before.roundWins, score)
  BY <1>1, TurnPluginsUnscored
<1> HIDE DEF asked
<1>3. Unscored(harder, before.roundWins, score)
  BY <1>2, TurnPluginsUnscored
<1> HIDE DEF harder
<1>4. Unscored(kept, before.roundWins, score)
  BY <1>3, TurnPluginsUnscored
<1>5. postProcessPlay(before, after, c) = settleRound(before, kept)
  BY DEF postProcessPlay, kept, harder, asked, rotated
<1> HIDE DEF kept
<1> QED
  BY <1>4, <1>5, SettleRoundUnscored DEF Unscored

LEMMA HandledPlayRewards ==
    ASSUME NEW before, before.phase = "playing",
           before.roundWins \in [Seat -> Nat], before.score \in [Seat -> Nat],
           NEW result, Counted(result, before.roundWins, before.score), NEW c,
           HandScore(HeldCards(handledPlay(before, result, c))) \in Nat
    PROVE  Rewarded(handledPlay(before, result, c), before.houseRules,
                    before.roundWins, before.score)
<1> DEFINE drained == drainPenaltyQueue(result)
<1>1. Counted(drained, before.roundWins, before.score)
  BY DrainPenaltyQueueCounts
<1>2. ~terminal(before)
  BY DEF terminal, TerminalPhase
<1>3. handledPlay(before, result, c) =
         IF terminal(drained) THEN postProcessPlay(before, drained, c)
                              ELSE drained
  BY <1>2 DEF handledPlay
<1> HIDE DEF drained
<1>4. CASE terminal(drained)
  BY <1>1, <1>3, <1>4, PostProcessPlayRewards
<1>5. CASE ~terminal(drained)
  BY <1>1, <1>3, <1>5, NoWinRewarded DEF Counted, Unscored, Won
<1> QED
  BY <1>4, <1>5

LEMMA HandledPlayUnscored ==
    ASSUME NEW before, NEW result, NEW score,
           Unscored(result, before.roundWins, score), NEW c
    PROVE  handledPlay(before, result, c).roundWins = before.roundWins
<1>1. Unscored(drainPenaltyQueue(result), before.roundWins, score)
  BY DrainPenaltyQueueUnscored
<1> QED
  BY <1>1, PostProcessPlayUnscored DEF handledPlay, Unscored

(* A draw that pays a penalty may decide the round; a card played after the *)
(* draw, another way to decide it, follows no payment.                      *)
LEMMA PostProcessDrawRewards ==
    ASSUME NEW before, before.phase = "playing", DOMAIN before = StateField,
           before.roundWins \in [Seat -> Nat], before.score \in [Seat -> Nat],
           NEW after, Counted(after, before.roundWins, before.score),
           ~hasPendingDrawObligation(before) =>
              Unscored(after, before.roundWins, before.score),
           NEW p \in Seat, NEW card \in Deck,
           HandScore(HeldCards(postProcessDraw(before, after, p, card))) \in Nat
    PROVE  Rewarded(postProcessDraw(before, after, p, card), before.houseRules,
                    before.roundWins, before.score)
<1> DEFINE played == forcedPlayAfterDraw(before, after, p, card)
<1>1. Counted(played, before.roundWins, before.score)
  BY HandlePlayCardCounts DEF forcedPlayAfterDraw
<1> HIDE DEF played
<1>2. postProcessDraw(before, after, p, card) = settleRound(before, played)
  BY DEF postProcessDraw, played
<1> QED
  BY <1>1, <1>2, SettleRoundRewards

(***************************************************************************)
(* The plays that plugins decide                                           *)
(***************************************************************************)
LEMMA DeflectStackCounts ==
    ASSUME NEW wins, NEW score, NEW s, Unscored(s, wins, score),
           NEW p \in Seat, NEW c
    PROVE  Counted(deflectStack(s, p, c), wins, score)
<1> DEFINE played == withDeflectionPlayed(s, p, c)
           passed == [played EXCEPT !.currentPlayerIndex =
                        getNextAliveIndex(s.eliminated, p, played.direction)]
<1>1. Unscored(withCardDiscarded(s, p, c), wins, score)
  BY DiscardUnscored
<1>2. Unscored(played, wins, score)
  BY <1>1 DEF Unscored, StateField, withDeflectionPlayed
<1> HIDE DEF played
<1>3. Unscored(passed, wins, score)
  BY <1>2 DEF Unscored, StateField
<1> HIDE DEF passed
<1> QED
  BY <1>3, CheckRoundEndCounts DEF deflectStack, passed, played

LEMMA AttackCardCounts ==
    ASSUME NEW wins, NEW score, NEW s, Unscored(s, wins, score),
           NEW p \in Seat, NEW c, NEW chosen
    PROVE  Counted(putAttackCardOnStack(s, p, c, chosen), wins, score)
<1> DEFINE played == withUnoFlagsAfterPlay(withCardDiscarded(s, p, c), p)
           colored == IF type[c] = "draw_two"
                      THEN [played EXCEPT !.currentColor = color[c]]
                      ELSE [played EXCEPT !.currentColor = chosen,
                                          !.chosenColor[c] = chosen]
           stacked == [colored EXCEPT
                         !.drawStack = @ + getCardDrawPenalty(c),
                         !.currentPlayerIndex =
                            getNextAliveIndex(s.eliminated, p, s.direction)]
<1>1. Unscored(withCardDiscarded(s, p, c), wins, score)
  BY DiscardUnscored
<1>2. Unscored(played, wins, score)
  BY <1>1, UnoFlagsUnscored
<1> HIDE DEF played
<1>3. Unscored(colored, wins, score)
  BY <1>2 DEF Unscored, StateField
<1> HIDE DEF colored
<1>4. Unscored(stacked, wins, score)
  BY <1>3 DEF Unscored, StateField
<1> HIDE DEF stacked
<1> QED
  BY <1>4, CheckRoundEndCounts
     DEF putAttackCardOnStack, stacked, colored, played

LEMMA JumpInCounts ==
    ASSUME NEW wins, NEW score, NEW s, Unscored(s, wins, score),
           NEW p \in Seat, NEW c \in Deck, NEW chosen
    PROVE  Counted(jumpIn(s, p, c, chosen), wins, score)
<1> DEFINE played == withCardDiscarded(s, p, c)
           next == getNextAliveIndex(played.eliminated, p, played.direction)
           afterNext == skipNextAliveIndex(played.eliminated, p,
                                           played.direction)
           toNext == [played EXCEPT !.currentPlayerIndex = next]
           colored == [toNext EXCEPT !.currentColor = color[c]]
           wildColored == withWildColor(toNext, c, chosen)
           attacked == IF chosen # null
                       THEN [withWildColor(played, c, chosen)
                               EXCEPT !.phase = "challenging"]
                       ELSE [played EXCEPT !.phase = "choosing_color"]
<1>1. Unscored(played, wins, score)
  BY DiscardUnscored
<1> HIDE DEF played
<1>2. type[c] \in CardType
  BY DeckAssumption
<1>3. Unscored(withCardEffect(played, p, c), wins, score)
  BY <1>1, CardEffectUnscored
<1>4. Unscored(toNext, wins, score)
  BY <1>1 DEF Unscored, StateField
<1> HIDE DEF toNext
<1>5. Unscored(colored, wins, score) /\ Unscored(wildColored, wins, score)
  BY <1>4 DEF Unscored, StateField, withWildColor
<1> HIDE DEF colored, wildColored, next, afterNext
<1>6. Unscored(startPenaltyDraw(colored, next, 2, afterNext, p), wins, score)
  BY <1>5, StartPenaltyDrawUnscored
<1>7. Unscored(startPenaltyDraw(startPenaltyDraw(colored, next, 2, afterNext, p),
                                next, 2, afterNext, null), wins, score)
  BY <1>6, StartPenaltyDrawUnscored
<1>8. Unscored([played EXCEPT !.phase = "choosing_color",
                              !.currentPlayerIndex = p], wins, score)
  BY <1>1 DEF Unscored, StateField
<1>9. Unscored([attacked EXCEPT !.currentPlayerIndex = p,
                                !.pendingDrawPlayerId = next], wins, score)
  <2>1. Unscored(attacked, wins, score)
    BY <1>1 DEF Unscored, StateField, withWildColor
  <2> HIDE DEF attacked
  <2> QED
    BY <2>1 DEF Unscored, StateField
<1>10. ASSUME NEW hands
       PROVE  /\ Unscored([colored EXCEPT !.hand = hands], wins, score)
              /\ Unscored([colored EXCEPT !.phase = "choosing_swap_target",
                                          !.currentPlayerIndex = p],
                          wins, score)
  BY <1>5 DEF Unscored, StateField
<1>11. Unscored(withJumpInEffect(played, s, p, c, chosen), wins, score)
  BY <1>2, <1>3, <1>5, <1>6, <1>7, <1>8, <1>9, <1>10
     DEF withJumpInEffect, CardType, next, afterNext, toNext, colored,
         wildColored, attacked
<1> QED
  BY <1>11, CheckRoundEndCounts DEF jumpIn, played

(* No penalty is active yet when a stack is taken, so its source is who     *)
(* played the last card.                                                    *)
LEMMA ResolveStackCounts ==
    ASSUME NEW wins, NEW score, NEW s, Unscored(s, wins, score),
           s.pendingPenaltySourcePlayerId \in Seat \cup {null},
           s.lastAction \in LastAction, NEW p, NEW side, NEW card
    PROVE  Counted(resolveStack(s, p, side, card), wins, score)
<1> DEFINE next == getNextAliveIndex(s.eliminated, p, s.direction)
           source == IF s.lastAction.type = "PLAY_CARD"
                     THEN s.lastAction.playerId ELSE null
           taken == [s EXCEPT !.drawStack = 0,
                              !.lastAction = Acted("DRAW_CARD", p)]
           owed == startPenaltyDraw(taken, p, s.drawStack, next, source)
<1>1. source \in Seat \cup {null}
  BY DEF LastAction
<1>2. /\ Unscored(taken, wins, score)
      /\ taken.pendingPenaltySourcePlayerId \in Seat \cup {null}
  BY DEF Unscored, StateField
<1>3. DOMAIN taken = StateField
  BY <1>2 DEF Unscored
<1> HIDE DEF taken, source, next
<1>4. owed.pendingPenaltySourcePlayerId \in Seat \cup {null}
  BY <1>1, <1>2, <1>3 DEF startPenaltyDraw, StateField
<1>5. Unscored(owed, wins, score)
  BY <1>2, StartPenaltyDrawUnscored
<1> HIDE DEF owed
<1>6. Counted(handleDrawCard(owed, p, side, card), wins, score)
  BY <1>4, <1>5, HandleDrawCardCounts
<1>7. resolveStack(s, p, side, card) = handleDrawCard(owed, p, side, card)
  BY DEF resolveStack, owed, taken, source, next
<1> QED
  BY <1>6, <1>7

LEMMA MultiPlayPassUnscored ==
    ASSUME NEW wins, NEW score, NEW s, Unscored(s, wins, score), NEW p
    PROVE  Unscored(multiPlayPass(s, p), wins, score)
<1> DEFINE next == getNextAliveIndex(s.eliminated, p, s.direction)
           passed == [s EXCEPT !.currentPlayerIndex = next,
                               !.lastAction = Acted("PASS", p)]
<1>1. Unscored(passed, wins, score)
  BY DEF Unscored, StateField
<1> HIDE DEF passed
<1>2. ASSUME NEW more
      PROVE  Unscored([passed EXCEPT !.pendingPenaltyQueue = @ \o more],
                      wins, score)
  BY <1>1 DEF Unscored, StateField
<1> QED
  BY <1>1, <1>2, DrainPenaltyQueueUnscored DEF multiPlayPass, passed, next

LEMMA ChooseSwapTargetUnscored ==
    ASSUME NEW wins, NEW score, NEW s, Unscored(s, wins, score), NEW p,
           NEW target
    PROVE  Unscored(chooseSwapTarget(s, p, target), wins, score)
<1>1. ASSUME NEW hands, NEW called, NEW caught, NEW turn
      PROVE  Unscored([s EXCEPT !.hand = hands, !.calledUno = called,
                                !.unoCaught = caught, !.phase = "playing",
                                !.currentPlayerIndex = turn,
                                !.lastAction = Acted("CHOOSE_SWAP_TARGET", p)],
                      wins, score)
  BY DEF Unscored, StateField
<1> QED
  BY <1>1, DrainPenaltyQueueUnscored DEF chooseSwapTarget

(***************************************************************************)
(* The actions                                                             *)
(***************************************************************************)

(* The rules that let a card answer a Wild Draw Four.  A round that such a  *)
(* card wins ends outside the playing phase, where doubleScore does not     *)
(* look.                                                                    *)
AnswerRule == {"stackDrawFour", "crossStack", "reverseDeflectDrawTwo",
               "reverseDeflectDrawFour", "skipDeflect"}

Unanswerable(s) == s.houseRules \cap AnswerRule = {}

RewardedStep ==
    Rewarded(state', state.houseRules, state.roundWins, state.score)

(* The hypotheses on a step.                                                *)
Tallied ==
    /\ Sound(state) /\ Owes(state, 0) /\ Unanswerable(state)
    /\ HandScore(HeldCards(state')) \in Nat

LEMMA TalliedIsUnscored ==
    ASSUME Tallied
    PROVE  /\ Unscored(state, state.roundWins, state.score)
           /\ state.roundWins \in [Seat -> Nat] /\ state.score \in [Seat -> Nat]
           /\ state.pendingPenaltySourcePlayerId \in Seat \cup {null}
           /\ state.lastAction \in LastAction
           /\ DOMAIN state = StateField
           /\ state.drawStack > 0 => state.phase = "playing"
BY DEF Tallied, Sound, IsGameState, Unscored, Owes, Due

LEMMA TurnPlayRewarded ==
    ASSUME Tallied, NEW p \in Seat, NEW c \in state.hand[p],
           \/ PlayCard(p, c) \/ ForfeitFinishRestriction(p, c)
           \/ Deflect(p, c) \/ ForcedPlayWithoutDraw(p, c)
           \/ \E chosen : Stack(p, c, chosen)
           \/ \E card : PayFinishRestriction(p, c, card)
    PROVE  RewardedStep
<1> USE TalliedIsUnscored
<1>1. c \in Deck /\ HandScore(HeldCards(state')) \in Nat
  BY DEF Tallied, Sound, IsGameState
<1>2. CASE PlayCard(p, c)
  <2>1. /\ state.phase = "playing"
        /\ state' = postProcessPlay(state, handlePlayCard(state, p, c), c)
    BY <1>2 DEF PlayCard, playCardAllowed
  <2>2. Counted(handlePlayCard(state, p, c), state.roundWins, state.score)
    BY <1>1, HandlePlayCardCounts
  <2> QED
    BY <1>1, <2>1, <2>2, PostProcessPlayRewards DEF RewardedStep
<1>3. CASE ForfeitFinishRestriction(p, c)
  <2>1. Unscored(handlePass(state, p), state.roundWins, state.score)
    BY HandlePassUnscored
  <2>2. state'.roundWins = state.roundWins
    BY <1>3, <2>1, HandledPlayUnscored DEF ForfeitFinishRestriction
  <2> QED
    BY <2>2, NoWinRewarded DEF RewardedStep
<1>4. ASSUME NEW card, PayFinishRestriction(p, c, card)
      PROVE  RewardedStep
  <2>1. Unscored(finishPenaltyCard(state, p, card), state.roundWins, state.score)
    BY DrawCardsUnscored DEF finishPenaltyCard
  <2>2. state'.roundWins = state.roundWins
    BY <1>4, <2>1, HandledPlayUnscored DEF PayFinishRestriction
  <2> QED
    BY <2>2, NoWinRewarded DEF RewardedStep
<1>5. CASE Deflect(p, c)
  <2>1. ~answersChallenge(state, p) /\ state.phase = "playing"
    <3>1. ~deflectsWithReverse(state, c) /\ ~deflectsWithSkip(state, c)
      BY DEF Tallied, Unanswerable, AnswerRule, deflectsWithReverse,
             deflectsWithSkip, On
    <3> QED
      BY <1>5, <3>1 DEF Deflect, deflectionClaims
  <2>2. Counted(deflection(state, p, c), state.roundWins, state.score)
    BY <2>1, DeflectStackCounts DEF deflection
  <2> QED
    BY <1>1, <1>5, <2>1, <2>2, HandledPlayRewards DEF Deflect, RewardedStep
<1>6. ASSUME NEW chosen, Stack(p, c, chosen)
      PROVE  RewardedStep
  <2>1. ~stacksOnChallenge(state, c)
    BY DEF Tallied, Unanswerable, AnswerRule, stacksOnChallenge, On
  <2>2. ~answersChallenge(state, p) /\ state.phase = "playing"
    BY <1>6, <2>1 DEF Stack, stackingClaims, startsStack, answersChallenge
  <2>3. Counted(stacking(state, p, c, chosen), state.roundWins, state.score)
    BY <2>2, AttackCardCounts DEF stacking
  <2> QED
    BY <1>1, <1>6, <2>2, <2>3, HandledPlayRewards DEF Stack, RewardedStep
<1>7. CASE ForcedPlayWithoutDraw(p, c)
  <2>1. /\ state.phase = "playing"
        /\ state' = postProcessDraw(state, state, p, c)
    BY <1>7 DEF ForcedPlayWithoutDraw, playCardAllowed
  <2> QED
    BY <1>1, <2>1, PostProcessDrawRewards DEF RewardedStep, Counted
<1> QED
  BY <1>2, <1>3, <1>4, <1>5, <1>6, <1>7

LEMMA TurnDrawRewarded ==
    ASSUME Tallied, NEW p \in Seat, NEW side \in DrawSide,
           NEW card \in drawnCards(p, side),
           \/ DrawCard(p, side, card)
           \/ DrawUntilPlayable(p, side, card)
           \/ TakeStack(p, side, card)
    PROVE  RewardedStep
<1> USE TalliedIsUnscored
<1>1. card \in Deck /\ HandScore(HeldCards(state')) \in Nat
  BY DrawnCardsAreCards DEF Tallied
<1> DEFINE drawn == handleDrawCard(state, p, side, card)
<1>2. /\ Counted(drawn, state.roundWins, state.score)
      /\ ~(state.pendingPenaltyDraws > 0) =>
            Unscored(drawn, state.roundWins, state.score)
  BY HandleDrawCardCounts
<1>3. CASE DrawCard(p, side, card)
  <2>1. /\ state.phase = "playing"
        /\ state' = postProcessDraw(state, drawn, p, card)
    BY <1>3 DEF DrawCard, drawCardAllowed
  <2> HIDE DEF drawn
  <2> QED
    BY <1>1, <1>2, <2>1, PostProcessDrawRewards
       DEF RewardedStep, hasPendingDrawObligation
<1>4. CASE DrawUntilPlayable(p, side, card)
  <2>1. Unscored(state', state.roundWins, state.score)
    BY <1>2, <1>4 DEF DrawUntilPlayable, drawUntilPlayableClaims,
                      hasPendingDrawObligation
  <2> QED
    BY <2>1, NoWinRewarded DEF RewardedStep, Unscored
<1>5. CASE TakeStack(p, side, card)
  <2>1. /\ state.phase = "playing"
        /\ state' = settleRound(state, resolveStack(state, p, side, card))
    BY <1>5 DEF TakeStack, stackingClaimsDraw
  <2>2. Counted(resolveStack(state, p, side, card), state.roundWins,
                state.score)
    BY ResolveStackCounts
  <2> QED
    BY <1>1, <2>1, <2>2, SettleRoundRewards DEF RewardedStep
<1> QED
  BY <1>3, <1>4, <1>5

LEMMA TurnActionRewarded ==
    ASSUME Tallied, NEW p \in Seat, TurnAction(p)
    PROVE  RewardedStep
<1> USE TalliedIsUnscored
<1>1. CASE Pass(p)
  <2>1. /\ state' = settleRound(state, handlePass(state, p))
        /\ Unscored(handlePass(state, p), state.roundWins, state.score)
    BY <1>1, HandlePassUnscored DEF Pass
  <2>2. state'.roundWins = state.roundWins
    BY <2>1, SettleRoundUnscored DEF Unscored
  <2> QED
    BY <2>2, NoWinRewarded DEF RewardedStep
<1>2. CASE EndMultiPlay(p)
  BY <1>2, MultiPlayPassUnscored, NoWinRewarded
     DEF EndMultiPlay, RewardedStep, Unscored
<1>3. ASSUME NEW chosen \in Color,
             ChooseColor(p, chosen) \/ ChooseColorUnchallenged(p, chosen)
      PROVE  RewardedStep
  BY <1>3, HandleChooseColorUnscored, AnswersUnscored, NoWinRewarded
     DEF ChooseColor, ChooseColorUnchallenged, RewardedStep, Unscored
<1>4. CASE Challenge(p) \/ Accept(p)
  BY <1>4, AnswersUnscored, NoWinRewarded
     DEF Challenge, Accept, RewardedStep, Unscored
<1>5. ASSUME NEW target \in Seat, ChooseSwapTarget(p, target)
      PROVE  RewardedStep
  BY <1>5, ChooseSwapTargetUnscored, NoWinRewarded
     DEF ChooseSwapTarget, RewardedStep, Unscored
<1> QED
  BY <1>1, <1>2, <1>3, <1>4, <1>5, TurnPlayRewarded, TurnDrawRewarded
     DEF TurnAction

LEMMA SideActionRewarded ==
    ASSUME Tallied, NEW p \in Seat, SideAction(p)
    PROVE  RewardedStep
<1> USE TalliedIsUnscored
<1>1. HandScore(HeldCards(state')) \in Nat
  BY DEF Tallied
<1>2. ASSUME NEW c \in state.hand[p], NEW chosen, JumpIn(p, c, chosen)
      PROVE  RewardedStep
  <2>1. c \in Deck
    BY DEF Tallied, Sound, IsGameState
  <2>2. /\ state.phase = "playing"
        /\ state' = handledPlay(state, jumpIn(state, p, c, chosen), c)
    BY <1>2 DEF JumpIn, jumpInClaims
  <2>3. Counted(jumpIn(state, p, c, chosen), state.roundWins, state.score)
    BY <2>1, JumpInCounts
  <2> QED
    BY <1>1, <2>2, <2>3, HandledPlayRewards DEF RewardedStep
<1>3. ASSUME NEW c, Misplay(p, c)
      PROVE  RewardedStep
  <2>1. Unscored(misplayPenalty(state, p), state.roundWins, state.score)
    BY StartPenaltyDrawUnscored DEF misplayPenalty
  <2>2. state'.roundWins = state.roundWins
    BY <1>3, <2>1, HandledPlayUnscored DEF Misplay
  <2> QED
    BY <2>2, NoWinRewarded DEF RewardedStep
<1>4. CASE CallUno(p) \/ CatchUno(p)
  BY <1>4, UnoCallsUnscored, NoWinRewarded
     DEF CallUno, CatchUno, RewardedStep, Unscored
<1> QED
  BY <1>2, <1>3, <1>4 DEF SideAction

(* Where no rule lets a card answer a Wild Draw Four, doubleScore gives the *)
(* winner of a round twice what the others hold, whatever card won it and   *)
(* whatever the other plugins make of the hands and the points: cards swap  *)
(* and rotate, a partner gets his share, somebody is eliminated.            *)
THEOREM WinnersAreDoubled ==
    Spec /\ [](state.houseRules \cap {"stackDrawFour", "crossStack",
                                      "reverseDeflectDrawTwo",
                                      "reverseDeflectDrawFour",
                                      "skipDeflect"} = {})
        => WinnerScoreIsDoubled
<1> DEFINE Without == state.houseRules
                         \cap {"stackDrawFour", "crossStack",
                               "reverseDeflectDrawTwo",
                               "reverseDeflectDrawFour", "skipDeflect"} = {}
           Step == On(state, "doubleScore") /\ ~terminal(state) =>
                      \A w \in Seat :
                         state'.roundWins[w] > state.roundWins[w] =>
                            state'.score[w] = state.score[w]
                               + 2 * HandScore(HeldCards(state'))
<1>1. SoundState /\ SoundState' /\ DueState /\ Without /\ [Next]_vars
      => [Step]_vars
  <2> SUFFICES ASSUME Sound(state), Sound(state'), Owes(state, 0), Without,
                      Next, ~terminal(state)
               PROVE  RewardedStep
    BY DEF SoundState, DueState, RewardedStep, Rewarded, On
  <2>1. HeldCards(state') \in SUBSET Deck
    <3>1. state'.hand \in [Seat -> SUBSET Deck]
      BY DEF Sound, IsGameState
    <3>2. \A p \in Seat : state'.hand[p] \in SUBSET Deck
      BY <3>1
    <3> QED
      BY <3>2 DEF HeldCards
  <2>2. Tallied
    BY <2>1, HandScoreIsNatural DEF Tallied, Unanswerable, AnswerRule
  <2>3. ~NextRound
    BY DEF NextRound, StartNextRound, terminal, TerminalPhase
  <2> QED
    BY <2>2, <2>3, TurnActionRewarded, SideActionRewarded DEF Next
<1>2. Spec /\ []Without => [][Step]_vars
  BY <1>1, AlwaysSound, AlwaysDue, PTL DEF Spec
<1> QED
  BY <1>2, PTL DEF WinnerScoreIsDoubled

(***************************************************************************)
(* Who draws for a card of another loses the turn                          *)
(*                                                                         *)
(* When the last card of a penalty is drawn, the turn goes where the last  *)
(* penalty of the queue says.  In a game of the rules below a penalty      *)
(* waits in the queue only behind one that is paid, and only because of    *)
(* revengeMode, which makes the same player pay the same way.              *)
(***************************************************************************)

(* Penalties nobody played a card for, of some cards each.                  *)
Late(queue) ==
    \E S : /\ queue \in Seq(S)
           /\ \A q \in S : /\ q.count \in Nat /\ q.count > 0
                           /\ q.sourcePlayerId = null

(* None of them gives the turn to p.                                        *)
Elsewhere(queue, p) ==
    \E S : queue \in Seq(S) /\ \A q \in S : q.nextPlayerIndex # p

Skipping(queue, draws, next, source, current) ==
    /\ Late(queue)
    /\ draws \in Nat
    /\ queue # <<>> => draws > 0
    /\ draws > 0 /\ source # null =>
          next # current /\ Elsewhere(queue, current)

Skips(s) ==
    /\ DOMAIN s = StateField
    /\ ~terminal(s) =>
          Skipping(s.pendingPenaltyQueue, s.pendingPenaltyDraws,
                   s.pendingPenaltyNextPlayerIndex,
                   s.pendingPenaltySourcePlayerId, s.currentPlayerIndex)

(* Nobody pays or waits to pay; e tells who is out.                         *)
Calm(s, e) ==
    /\ DOMAIN s = StateField
    /\ s.pendingPenaltyQueue = <<>> /\ s.pendingPenaltyDraws = 0
    /\ s.eliminated = e

LEMMA NothingLate == ASSUME NEW p PROVE Late(<<>>) /\ Elsewhere(<<>>, p)
<1>1. <<>> \in Seq({})
  OBVIOUS
<1>2. Late(<<>>)
  <2> DEFINE Good(q) == /\ q.count \in Nat /\ q.count > 0
                        /\ q.sourcePlayerId = null
  <2>1. \A q \in {} : Good(q)
    OBVIOUS
  <2>2. PICK S : S = {}
    OBVIOUS
  <2>3. <<>> \in Seq(S) /\ \A q \in S : Good(q)
    BY <1>1, <2>1, <2>2
  <2> QED
    BY <2>3, Zenon DEF Late
<1>3. Elsewhere(<<>>, p)
  <2> DEFINE Good(q) == q.nextPlayerIndex # p
  <2>1. \A q \in {} : Good(q)
    OBVIOUS
  <2>2. PICK S : S = {}
    OBVIOUS
  <2>3. <<>> \in Seq(S) /\ \A q \in S : Good(q)
    BY <1>1, <2>1, <2>2
  <2> QED
    BY <2>3, Zenon DEF Elsewhere
<1> QED
  BY <1>2, <1>3

LEMMA SeqGrows ==
    ASSUME NEW S, NEW queue \in Seq(S), NEW q
    PROVE  Append(queue, q) \in Seq(S \cup {q})
<1>1. queue \in Seq(S \cup {q})
  <2>1. /\ Len(queue) \in Nat /\ DOMAIN queue = 1..Len(queue)
        /\ \A i \in 1..Len(queue) : queue[i] \in S
    OBVIOUS
  <2>2. queue = [i \in 1..Len(queue) |-> queue[i]]
    BY <2>1
  <2> QED
    BY <2>1, <2>2
<1> QED
  BY <1>1

LEMMA LateAppend ==
    ASSUME NEW queue, Late(queue), NEW q, q.count \in Nat, q.count > 0,
           q.sourcePlayerId = null
    PROVE  Late(Append(queue, q))
<1>1. PICK S : /\ queue \in Seq(S)
               /\ \A r \in S : /\ r.count \in Nat /\ r.count > 0
                               /\ r.sourcePlayerId = null
  BY DEF Late
<1>2. Append(queue, q) \in Seq(S \cup {q})
  BY <1>1, SeqGrows
<1>3. \A r \in S \cup {q} : /\ r.count \in Nat /\ r.count > 0
                            /\ r.sourcePlayerId = null
  BY <1>1
<1> QED
  BY <1>2, <1>3 DEF Late

LEMMA ElsewhereAppend ==
    ASSUME NEW p, NEW queue, Elsewhere(queue, p), NEW q, q.nextPlayerIndex # p
    PROVE  Elsewhere(Append(queue, q), p)
<1>1. PICK S : queue \in Seq(S) /\ \A r \in S : r.nextPlayerIndex # p
  BY DEF Elsewhere
<1>2. Append(queue, q) \in Seq(S \cup {q})
  BY <1>1, SeqGrows
<1>3. \A r \in S \cup {q} : r.nextPlayerIndex # p
  BY <1>1
<1> QED
  BY <1>2, <1>3 DEF Elsewhere

LEMMA LateTail ==
    ASSUME NEW queue, Late(queue), queue # <<>>
    PROVE  /\ Late(Tail(queue))
           /\ Head(queue).count \in Nat /\ Head(queue).count > 0
           /\ Head(queue).sourcePlayerId = null
<1>1. PICK S : /\ queue \in Seq(S)
               /\ \A r \in S : /\ r.count \in Nat /\ r.count > 0
                               /\ r.sourcePlayerId = null
  BY DEF Late
<1>2. Tail(queue) \in Seq(S) /\ Head(queue) \in S
  BY <1>1
<1> QED
  BY <1>1, <1>2 DEF Late

(* The last penalty of a queue, and of what is left of it.                  *)
LEMMA LastElsewhere ==
    ASSUME NEW p, NEW queue, Elsewhere(queue, p), queue # <<>>
    PROVE  /\ queue[Len(queue)].nextPlayerIndex # p
           /\ Tail(queue) # <<>> =>
                 Tail(queue)[Len(Tail(queue))] = queue[Len(queue)]
           /\ Tail(queue) = <<>> => Head(queue) = queue[Len(queue)]
<1>1. PICK S : queue \in Seq(S) /\ \A r \in S : r.nextPlayerIndex # p
  BY DEF Elsewhere
<1>2. Len(queue) \in Nat /\ Len(queue) > 0 /\ Len(Tail(queue)) = Len(queue) - 1
  BY <1>1
<1>3. queue[Len(queue)] \in S
  BY <1>1, <1>2
<1>4. Tail(queue) # <<>> =>
         Tail(queue)[Len(Tail(queue))] = queue[Len(queue)]
  BY <1>1, <1>2
<1>5. Tail(queue) = <<>> => Head(queue) = queue[Len(queue)]
  <2>1. Len(<<>>) = 0
    OBVIOUS
  <2>2. Tail(queue) = <<>> => Len(queue) = 1
    <3>1. Tail(queue) = <<>> => Len(Tail(queue)) = 0
      BY <2>1, Zenon
    <3> QED
      BY <1>2, <3>1
  <2> QED
    BY <1>1, <2>2
<1>6. queue[Len(queue)].nextPlayerIndex # p
  <2>1. \A r \in S : r.nextPlayerIndex # p
    BY <1>1
  <2> QED
    BY <1>3, <2>1, Zenon
<1> QED
  BY <1>4, <1>5, <1>6

(* Where two play on, nobody comes after himself.                           *)
LEMMA OthersFollow ==
    ASSUME NEW e, Paired(e), NEW i \in Seat, NEW direction
    PROVE  /\ getNextAliveIndex(e, i, direction) \in Seat
           /\ getNextAliveIndex(e, i, direction) # i
           /\ skipNextAliveIndex(e, i, direction)
                 # getNextAliveIndex(e, i, direction)
<1>1. ASSUME NEW k \in Seat
      PROVE  /\ getNextAliveIndex(e, k, direction) \in Seat
             /\ getNextAliveIndex(e, k, direction) # k
  <2> DEFINE next == getNextAliveIndex(e, k, direction)
  <2>1. PICK j \in AliveSeats(e) : j # k
    BY DEF Paired
  <2>2. /\ next \in AliveSeats(e)
        /\ Steps(k, next, direction) <= Steps(k, j, direction)
    BY <2>1, NextIsNearest
  <2>3. j \in Seat /\ next \in Seat
    BY <2>1, <2>2 DEF AliveSeats
  <2> HIDE DEF next
  <2>4. Steps(k, j, direction) < N
    BY <2>1, <2>3, NAssumption DEF Steps, Seat
  <2>5. Steps(k, k, direction) = N
    BY NAssumption DEF Steps, Seat
  <2>6. next # k
    BY <2>2, <2>4, <2>5, <2>3, StepsAreNatural
  <2> QED
    BY <2>3, <2>6 DEF next
<1> QED
  BY <1>1 DEF skipNextAliveIndex

(***************************************************************************)
(* Penalties                                                               *)
(***************************************************************************)
LEMMA CalmSkips ==
    ASSUME NEW s, NEW e, Calm(s, e)
    PROVE  Skips(s)
<1>1. Late(<<>>)
  BY NothingLate
<1> QED
  BY <1>1 DEF Calm, Skips, Skipping

(* A penalty that starts when none is paid.                                 *)
LEMMA StartPenaltyDrawSkips ==
    ASSUME NEW e, NEW s, Calm(s, e), s.phase = "playing" \/ terminal(s),
           NEW p, NEW count \in Nat, NEW next, NEW source,
           source # null => next # p
    PROVE  LET t == startPenaltyDraw(s, p, count, next, source)
           IN  /\ Skips(t)
               /\ s.phase = "playing" =>
                     t.pendingPenaltyDraws = count /\ t.phase = "playing"
               /\ s.phase = "playing" /\ count > 0 =>
                     t.currentPlayerIndex = p
<1> DEFINE t == startPenaltyDraw(s, p, count, next, source)
<1>1. Late(<<>>) /\ Elsewhere(<<>>, p)
  BY NothingLate
<1>2. CASE count = 0
  BY <1>2, CalmSkips DEF startPenaltyDraw, Calm
<1>3. CASE count # 0 /\ s.phase = "playing"
  <2>1. /\ DOMAIN t = StateField /\ t.phase = "playing"
        /\ t.pendingPenaltyQueue = <<>> /\ t.pendingPenaltyDraws = count
        /\ t.pendingPenaltyNextPlayerIndex = next
        /\ t.pendingPenaltySourcePlayerId = source
        /\ t.currentPlayerIndex = p
    BY <1>3 DEF startPenaltyDraw, Calm, StateField
  <2> HIDE DEF t
  <2> QED
    BY <1>1, <1>3, <2>1 DEF Skips, Skipping, t
<1>4. CASE s.phase # "playing"
  <2>1. DOMAIN t = StateField /\ t.phase = s.phase
    BY <1>4 DEF startPenaltyDraw, Calm, StateField
  <2> HIDE DEF t
  <2> QED
    BY <1>4, <2>1 DEF Skips, terminal, t
<1> QED
  BY <1>2, <1>3, <1>4

(* A penalty that waits behind the one that is paid.                        *)
LEMMA QueuePenaltySkips ==
    ASSUME NEW s, Skips(s), ~terminal(s), s.pendingPenaltyDraws > 0,
           NEW p, NEW count \in Nat, NEW next,
           s.pendingPenaltySourcePlayerId # null =>
              next # s.currentPlayerIndex
    PROVE  Skips(startPenaltyDraw(s, p, count, next, null))
<1> DEFINE q == [playerId |-> p, count |-> count, nextPlayerIndex |-> next,
                 sourcePlayerId |-> null]
           longer == Append(s.pendingPenaltyQueue, q)
           t == [s EXCEPT !.pendingPenaltyQueue = longer]
<1>1. /\ q.count = count /\ q.nextPlayerIndex = next
      /\ q.sourcePlayerId = null
  OBVIOUS
<1> HIDE DEF q
<1>2. CASE count = 0
  BY <1>2 DEF startPenaltyDraw
<1>3. CASE count > 0
  <2>1. Late(longer)
    BY <1>1, <1>3, LateAppend DEF Skips, Skipping
  <2>2. s.pendingPenaltySourcePlayerId # null =>
           Elsewhere(longer, s.currentPlayerIndex)
    BY <1>1, ElsewhereAppend DEF Skips, Skipping
  <2> HIDE DEF longer
  <2>3. /\ DOMAIN t = StateField /\ t.phase = s.phase
        /\ t.pendingPenaltyQueue = longer
        /\ t.pendingPenaltyDraws = s.pendingPenaltyDraws
        /\ t.pendingPenaltyNextPlayerIndex = s.pendingPenaltyNextPlayerIndex
        /\ t.pendingPenaltySourcePlayerId = s.pendingPenaltySourcePlayerId
        /\ t.currentPlayerIndex = s.currentPlayerIndex
    BY DEF Skips, StateField
  <2> HIDE DEF t
  <2>4. Skips(t)
    BY <2>1, <2>2, <2>3 DEF Skips, Skipping, terminal
  <2>5. startPenaltyDraw(s, p, count, next, null) = t
    BY <1>3 DEF startPenaltyDraw, t, longer, q
  <2> QED
    BY <2>4, <2>5
<1> QED
  BY <1>2, <1>3

(* Nothing waits in the queue for a place.                                  *)
LEMMA DrainKeepsAll ==
    ASSUME NEW s, Skips(s)
    PROVE  drainPenaltyQueue(s) = s
BY DEF Skips, Skipping, drainPenaltyQueue, terminal, TerminalPhase

LEMMA CheckRoundEndSkips ==
    ASSUME NEW s, DOMAIN s = StateField, NEW p
    PROVE  LET t == checkRoundEnd(s, p)
           IN  /\ t = s \/ terminal(t)
               /\ DOMAIN t = StateField
               /\ Skips(s) => Skips(t)
               /\ \A e : Calm(s, e) => Calm(t, e)
<1> DEFINE total == s.score[p] + RoundScore(s, p)
           decided == [s EXCEPT !.score[p] = total,
                                !.roundWins[p] = @ + 1,
                                !.phase = IF total >= TargetScore
                                          THEN "game_over" ELSE "round_end",
                                !.winnerId = p]
           ended == withPenaltyStateDefaults(decided)
<1> HIDE DEF total
<1>1. /\ DOMAIN decided = StateField /\ terminal(decided)
      /\ decided.eliminated = s.eliminated
  BY DEF StateField, terminal, TerminalPhase
<1> HIDE DEF decided
<1>2. /\ DOMAIN ended = StateField /\ terminal(ended)
      /\ ended.eliminated = s.eliminated
      /\ ended.pendingPenaltyQueue = <<>> /\ ended.pendingPenaltyDraws = 0
  BY <1>1 DEF StateField, terminal, withPenaltyStateDefaults
<1>3. checkRoundEnd(s, p) = s \/ checkRoundEnd(s, p) = ended
  BY DEF checkRoundEnd, ended, decided, total
<1> HIDE DEF ended
<1>4. Skips(ended) /\ \A e : Calm(s, e) => Calm(ended, e)
  BY <1>2 DEF Skips, Calm
<1> QED
  BY <1>2, <1>3, <1>4

(* A payment leaves the rest of the debt to the same player, or starts a    *)
(* penalty nobody played a card for, or ends the matter.                    *)
LEMMA FinishPenaltyDrawSkips ==
    ASSUME NEW s, Skips(s), s.phase = "playing", s.pendingPenaltyDraws > 0,
           NEW lastAction
    PROVE  LET t == finishPenaltyDrawIfNeeded(s, lastAction)
           IN  /\ Skips(t)
               /\ /\ s.pendingPenaltyDraws = 1
                  /\ s.pendingPenaltySourcePlayerId # null
                  /\ ~terminal(t)
                  => continuation(t) # s.currentPlayerIndex
<1> DEFINE t == finishPenaltyDrawIfNeeded(s, lastAction)
           paid == [s EXCEPT !.pendingPenaltyDraws = 0,
                             !.pendingPenaltyNextPlayerIndex = null,
                             !.pendingPenaltySourcePlayerId = null,
                             !.lastAction = lastAction]
           finished == [paid EXCEPT
                          !.currentPlayerIndex = s.pendingPenaltyNextPlayerIndex]
           going == [s EXCEPT !.pendingPenaltyDraws = @ - 1,
                              !.lastAction = lastAction]
           queue == s.pendingPenaltyQueue
           first == Head(queue)
           shorter == [paid EXCEPT !.pendingPenaltyQueue = Tail(queue)]
           started == [shorter EXCEPT
                         !.currentPlayerIndex = first.playerId,
                         !.pendingPenaltyDraws = first.count,
                         !.pendingPenaltyNextPlayerIndex =
                            first.nextPlayerIndex,
                         !.pendingPenaltySourcePlayerId =
                            first.sourcePlayerId]
<1>0. /\ DOMAIN s = StateField
      /\ Skipping(queue, s.pendingPenaltyDraws, s.pendingPenaltyNextPlayerIndex,
                  s.pendingPenaltySourcePlayerId, s.currentPlayerIndex)
  BY DEF Skips, terminal, TerminalPhase
<1>1. /\ DOMAIN paid = StateField /\ paid.phase = "playing"
      /\ paid.pendingPenaltyQueue = queue /\ paid.pendingPenaltyDraws = 0
      /\ paid.eliminated = s.eliminated
  BY <1>0 DEF StateField
<1>2. /\ DOMAIN going = StateField /\ going.phase = "playing"
      /\ going.pendingPenaltyQueue = queue
      /\ going.pendingPenaltyDraws = s.pendingPenaltyDraws - 1
      /\ going.pendingPenaltyNextPlayerIndex = s.pendingPenaltyNextPlayerIndex
      /\ going.pendingPenaltySourcePlayerId = s.pendingPenaltySourcePlayerId
      /\ going.currentPlayerIndex = s.currentPlayerIndex
  BY <1>0 DEF StateField
<1> HIDE DEF paid, going
<1>3. CASE hasCardsAvailable(s) /\ s.pendingPenaltyDraws > 1
  <2>1. t = going
    BY <1>3 DEF finishPenaltyDrawIfNeeded, going
  <2>2. Skips(going)
    BY <1>0, <1>2, <1>3 DEF Skips, Skipping
  <2> HIDE DEF t
  <2>3. Skips(t) /\ s.pendingPenaltyDraws # 1
    BY <1>3, <2>1, <2>2
  <2> QED
    BY <2>3 DEF t
<1>4. CASE /\ ~(hasCardsAvailable(s) /\ s.pendingPenaltyDraws > 1)
           /\ queue # <<>>
  <2>1. /\ Late(Tail(queue)) /\ first.count \in Nat /\ first.count > 0
        /\ first.sourcePlayerId = null
    BY <1>0, <1>4, LateTail DEF Skipping
  <2>7. s.pendingPenaltySourcePlayerId # null =>
           /\ Tail(queue) # <<>> =>
                 Tail(queue)[Len(Tail(queue))].nextPlayerIndex
                    # s.currentPlayerIndex
           /\ Tail(queue) = <<>> =>
                 first.nextPlayerIndex # s.currentPlayerIndex
    BY <1>0, <1>4, LastElsewhere DEF Skipping
  <2>2. /\ DOMAIN shorter = StateField /\ shorter.phase = "playing"
        /\ shorter.pendingPenaltyQueue = Tail(queue)
        /\ shorter.pendingPenaltyDraws = 0
    BY <1>1 DEF StateField
  <2>3. /\ t = startQueuedPenalty(paid)
        /\ startQueuedPenalty(paid) =
              startPenaltyDraw(shorter, first.playerId, first.count,
                               first.nextPlayerIndex, first.sourcePlayerId)
    BY <1>1, <1>4 DEF finishPenaltyDrawIfNeeded, startQueuedPenalty, paid
  <2> HIDE DEF shorter, first, t
  <2>4. t = started
    BY <2>1, <2>2, <2>3 DEF startPenaltyDraw
  <2>5. /\ DOMAIN started = StateField /\ started.phase = "playing"
        /\ started.pendingPenaltyQueue = Tail(queue)
        /\ started.pendingPenaltyDraws = first.count
        /\ started.pendingPenaltyNextPlayerIndex = first.nextPlayerIndex
        /\ started.pendingPenaltySourcePlayerId = null
    BY <2>1, <2>2 DEF StateField
  <2> HIDE DEF started
  <2>6. Skips(started)
    BY <2>1, <2>5 DEF Skips, Skipping
  <2>8. s.pendingPenaltySourcePlayerId # null =>
           continuation(started) # s.currentPlayerIndex
    BY <2>1, <2>5, <2>7 DEF continuation
  <2> QED
    BY <2>4, <2>6, <2>8 DEF t
<1>5. CASE /\ ~(hasCardsAvailable(s) /\ s.pendingPenaltyDraws > 1)
           /\ queue = <<>>
  <2>1. /\ Calm(finished, s.eliminated)
        /\ finished.currentPlayerIndex = s.pendingPenaltyNextPlayerIndex
    BY <1>1, <1>5 DEF Calm, StateField
  <2> HIDE DEF finished
  <2>2. t = finished \/ \E p : t = checkRoundEnd(finished, p)
    BY <1>5 DEF finishPenaltyDrawIfNeeded, finished, paid
  <2> HIDE DEF t
  <2>3. (t = finished \/ terminal(t)) /\ Skips(t)
    BY <2>1, <2>2, CalmSkips, CheckRoundEndSkips DEF Calm
  <2>4. continuation(finished) = s.pendingPenaltyNextPlayerIndex
    BY <2>1 DEF continuation, Calm
  <2>5. s.pendingPenaltySourcePlayerId # null =>
           s.pendingPenaltyNextPlayerIndex # s.currentPlayerIndex
    BY <1>0 DEF Skipping
  <2> QED
    BY <2>3, <2>4, <2>5 DEF t
<1> QED
  BY <1>3, <1>4, <1>5

(***************************************************************************)
(* The operators of GameEngine                                             *)
(***************************************************************************)
LEMMA DrawCardsCalm ==
    ASSUME NEW e, NEW s, Calm(s, e), NEW p, NEW side, NEW card
    PROVE  /\ Calm(drawCards(s, p, side, card), e)
           /\ Calm(handleDrawCard(s, p, side, card), e)
<1> DEFINE refilled == withSideRefilled(s, side)
           drawn == drawCards(s, p, side, card)
<1>1. Calm(refilled, e)
  BY DEF Calm, StateField, withSideRefilled
<1> HIDE DEF refilled
<1>2. Calm([refilled EXCEPT !.deck[side] = @ \ {card},
                            !.hand[p] = @ \cup {card},
                            !.calledUno[p] = FALSE,
                            !.unoCaught[p] = FALSE], e)
  BY <1>1 DEF Calm, StateField
<1>3. Calm(drawn, e)
  BY <1>1, <1>2 DEF drawCards, refilled
<1> HIDE DEF drawn
<1>4. Calm([drawn EXCEPT !.lastAction = Acted("DRAW_CARD", p)], e)
  BY <1>3 DEF Calm, StateField
<1> QED
  BY <1>3, <1>4 DEF handleDrawCard, drawn, Calm

(* A draw changes no penalty.                                               *)
LEMMA DrawCardsSkips ==
    ASSUME NEW s, DOMAIN s = StateField, NEW p, NEW side, NEW card
    PROVE  LET t == drawCards(s, p, side, card)
           IN  /\ Skips(s) => Skips(t)
               /\ t.phase = s.phase
               /\ t.pendingPenaltyQueue = s.pendingPenaltyQueue
               /\ t.pendingPenaltyDraws = s.pendingPenaltyDraws
               /\ t.pendingPenaltyNextPlayerIndex
                     = s.pendingPenaltyNextPlayerIndex
               /\ t.pendingPenaltySourcePlayerId
                     = s.pendingPenaltySourcePlayerId
               /\ t.currentPlayerIndex = s.currentPlayerIndex
<1> DEFINE refilled == withSideRefilled(s, side)
           Kept(t) ==
              /\ DOMAIN t = StateField /\ t.phase = s.phase
              /\ t.pendingPenaltyQueue = s.pendingPenaltyQueue
              /\ t.pendingPenaltyDraws = s.pendingPenaltyDraws
              /\ t.pendingPenaltyNextPlayerIndex
                    = s.pendingPenaltyNextPlayerIndex
              /\ t.pendingPenaltySourcePlayerId
                    = s.pendingPenaltySourcePlayerId
              /\ t.currentPlayerIndex = s.currentPlayerIndex
<1>1. Kept(refilled)
  BY DEF StateField, withSideRefilled
<1> HIDE DEF refilled
<1>2. Kept([refilled EXCEPT !.deck[side] = @ \ {card},
                            !.hand[p] = @ \cup {card},
                            !.calledUno[p] = FALSE,
                            !.unoCaught[p] = FALSE])
  BY <1>1 DEF StateField
<1> HIDE DEF Kept
<1>3. Kept(drawCards(s, p, side, card))
  BY <1>1, <1>2 DEF drawCards, refilled
<1> QED
  BY <1>3 DEF Kept, Skips, Skipping, terminal

LEMMA HandleDrawCardSkips ==
    ASSUME NEW s, Skips(s), s.phase = "playing", s.pendingPenaltyDraws > 0,
           NEW p, NEW side, NEW card
    PROVE  LET t == handleDrawCard(s, p, side, card)
           IN  /\ Skips(t)
               /\ /\ s.pendingPenaltyDraws = 1
                  /\ s.pendingPenaltySourcePlayerId # null
                  /\ ~terminal(t)
                  => continuation(t) # s.currentPlayerIndex
<1> DEFINE drawn == drawCards(s, p, side, card)
<1>1. /\ Skips(drawn) /\ drawn.phase = "playing"
      /\ drawn.pendingPenaltyDraws > 0
      /\ drawn.pendingPenaltyDraws = s.pendingPenaltyDraws
      /\ drawn.pendingPenaltySourcePlayerId = s.pendingPenaltySourcePlayerId
      /\ drawn.currentPlayerIndex = s.currentPlayerIndex
  BY DrawCardsSkips DEF Skips
<1> HIDE DEF drawn
<1> QED
  BY <1>1, FinishPenaltyDrawSkips DEF handleDrawCard, drawn

LEMMA DiscardCalm ==
    ASSUME NEW e, NEW s, Calm(s, e), NEW p, NEW c
    PROVE  /\ Calm(withCardDiscarded(s, p, c), e)
           /\ Calm(withUnoFlagsAfterPlay(s, p), e)
           /\ withCardDiscarded(s, p, c).phase = s.phase
           /\ withUnoFlagsAfterPlay(s, p).phase = s.phase
BY DEF Calm, StateField, withCardDiscarded, withUnoFlagsAfterPlay

(* A play that starts no penalty leaves all calm; a +2 strikes the next     *)
(* player.                                                                  *)
Struck(t, c, e) ==
    /\ Skips(t)
    /\ ~terminal(t) => /\ type[c] = "draw_two" => t.pendingPenaltyDraws > 0
                       /\ type[c] # "draw_two" => Calm(t, e)

LEMMA CardEffectStrikes ==
    ASSUME NEW e, Paired(e), NEW s, Calm(s, e), s.phase = "playing",
           NEW p \in Seat, NEW c \in Deck
    PROVE  Struck(withCardEffect(s, p, c), c, e)
<1> DEFINE next == getNextAliveIndex(s.eliminated, p, s.direction)
           afterNext == skipNextAliveIndex(s.eliminated, p, s.direction)
           colored == [s EXCEPT !.currentColor = color[c]]
<1>1. type[c] \in CardType
  BY DeckAssumption
<1>2. ASSUME NEW turn, NEW direction
      PROVE  /\ Calm([s EXCEPT !.currentColor = color[c],
                               !.currentPlayerIndex = turn], e)
             /\ Calm([s EXCEPT !.currentColor = color[c],
                               !.direction = direction,
                               !.currentPlayerIndex = turn], e)
  BY DEF Calm, StateField
<1>3. Calm(colored, e) /\ colored.phase = "playing"
  BY DEF Calm, StateField
<1>4. afterNext # next
  BY OthersFollow DEF Calm
<1> HIDE DEF next, afterNext, colored
<1>5. /\ Skips(startPenaltyDraw(colored, next, 2, afterNext, p))
      /\ startPenaltyDraw(colored, next, 2, afterNext, p).pendingPenaltyDraws = 2
  BY <1>3, <1>4, StartPenaltyDrawSkips
<1>6. /\ Calm([s EXCEPT !.phase = "choosing_color"], e)
      /\ Calm([s EXCEPT !.phase = "choosing_color",
                        !.pendingDrawPlayerId = next], e)
  BY DEF Calm, StateField
<1>7. CASE type[c] = "draw_two"
  BY <1>5, <1>7 DEF withCardEffect, Struck, colored, next, afterNext
<1>8. CASE type[c] # "draw_two"
  <2>1. Calm(withCardEffect(s, p, c), e)
    BY <1>1, <1>2, <1>6, <1>8 DEF withCardEffect, CardType, next, afterNext
  <2> QED
    BY <1>8, <2>1, CalmSkips DEF Struck
<1> QED
  BY <1>7, <1>8

LEMMA HandlePlayCardStrikes ==
    ASSUME NEW e, Paired(e), NEW s, Calm(s, e), s.phase = "playing",
           NEW p \in Seat, NEW c \in Deck
    PROVE  Struck(handlePlayCard(s, p, c), c, e)
<1> DEFINE flagged == withUnoFlagsAfterPlay(withCardDiscarded(s, p, c), p)
           played == withCardEffect(flagged, p, c)
<1>1. Calm(flagged, e) /\ flagged.phase = "playing"
  BY DiscardCalm
<1> HIDE DEF flagged
<1>2. Struck(played, c, e)
  BY <1>1, CardEffectStrikes
<1> HIDE DEF played
<1>3. handlePlayCard(s, p, c) = checkRoundEnd(played, p)
  BY DEF handlePlayCard, played, flagged
<1> QED
  BY <1>2, <1>3, CheckRoundEndSkips DEF Struck, Skips

LEMMA HandlePassCalm ==
    ASSUME NEW e, NEW s, DOMAIN s = StateField, s.eliminated = e,
           Calm(s, e) \/ ~hasCardsAvailable(s), NEW p
    PROVE  Calm(handlePass(s, p), e)
<1> DEFINE passed == [s EXCEPT !.lastAction = Acted("PASS", p)]
           advanced == [passed EXCEPT !.currentPlayerIndex =
                          getNextAliveIndex(s.eliminated, p, s.direction)]
           ended == [passed EXCEPT !.phase = "round_end", !.winnerId = null]
<1>1. /\ DOMAIN passed = StateField /\ passed.eliminated = e
      /\ Calm(s, e) => Calm(passed, e)
  BY DEF Calm, StateField
<1> HIDE DEF passed
<1>2. /\ DOMAIN advanced = StateField /\ advanced.eliminated = e
      /\ Calm(s, e) => Calm(advanced, e)
      /\ DOMAIN ended = StateField /\ ended.eliminated = e
  BY <1>1 DEF Calm, StateField
<1> HIDE DEF advanced, ended
<1>3. /\ Calm(withPenaltyStateDefaults(ended), e)
      /\ Calm(withPenaltyStateDefaults(advanced), e)
  BY <1>2 DEF Calm, StateField, withPenaltyStateDefaults
<1> QED
  BY <1>2, <1>3 DEF handlePass, passed, advanced, ended

(* A PASS moves no card.                                                    *)
LEMMA HandlePassHand ==
    ASSUME NEW s, DOMAIN s = StateField, NEW p
    PROVE  handlePass(s, p).hand = s.hand
<1> DEFINE passed == [s EXCEPT !.lastAction = Acted("PASS", p)]
           advanced == [passed EXCEPT !.currentPlayerIndex =
                          getNextAliveIndex(s.eliminated, p, s.direction)]
           ended == [passed EXCEPT !.phase = "round_end", !.winnerId = null]
<1>1. DOMAIN passed = StateField /\ passed.hand = s.hand
  BY DEF StateField
<1> HIDE DEF passed
<1>2. /\ DOMAIN advanced = StateField /\ advanced.hand = s.hand
      /\ DOMAIN ended = StateField /\ ended.hand = s.hand
  BY <1>1 DEF StateField
<1> HIDE DEF advanced, ended
<1>3. /\ withPenaltyStateDefaults(ended).hand = s.hand
      /\ withPenaltyStateDefaults(advanced).hand = s.hand
  BY <1>2 DEF StateField, withPenaltyStateDefaults
<1> QED
  BY <1>2, <1>3 DEF handlePass, passed, advanced, ended

LEMMA HandleChooseColorCalm ==
    ASSUME NEW e, NEW s, Calm(s, e), NEW p, NEW chosen
    PROVE  Calm(handleChooseColor(s, p, chosen), e)
<1> DEFINE colored == [s EXCEPT !.chosenColor[topCard(s)] = chosen,
                                !.currentColor = chosen,
                                !.lastAction = Acted("CHOOSE_COLOR", p)]
           challenged == [colored EXCEPT !.phase = "challenging"]
           played == [colored EXCEPT
                        !.phase = "playing",
                        !.currentPlayerIndex =
                           getNextAliveIndex(s.eliminated, p, s.direction)]
<1>1. Calm(colored, e)
  BY DEF Calm, StateField
<1> HIDE DEF colored
<1>2. Calm(challenged, e) /\ Calm(played, e)
  BY <1>1 DEF Calm, StateField
<1> HIDE DEF challenged, played
<1>3. drainPenaltyQueue(played) = played
  BY <1>2, CalmSkips, DrainKeepsAll
<1> QED
  BY <1>2, <1>3 DEF handleChooseColor, colored, challenged, played

(* The challenge over, the next after who pays plays on.                    *)
LEMMA SettleWildDrawFourSkips ==
    ASSUME NEW e, Paired(e), NEW s, Calm(s, e), s.pendingRevengeDraws \in Nat,
           NEW lastAction, NEW p \in Seat, NEW count \in Nat, NEW source
    PROVE  Skips(settleWildDrawFour(s, lastAction, p, count, source))
<1> DEFINE settled == [s EXCEPT !.phase = "playing",
                                !.pendingDrawPlayerId = null,
                                !.pendingRevengeDraws = 0,
                                !.lastAction = lastAction]
           next == getNextAliveIndex(s.eliminated, p, s.direction)
           total == count + s.pendingRevengeDraws
<1>1. Calm(settled, e) /\ settled.phase = "playing"
  BY DEF Calm, StateField
<1>2. next # p
  BY OthersFollow DEF Calm
<1>3. total \in Nat
  OBVIOUS
<1> HIDE DEF settled, next, total
<1>4. Skips(startPenaltyDraw(settled, p, total, next, source))
  BY <1>1, <1>2, <1>3, StartPenaltyDrawSkips
<1> QED
  BY <1>4 DEF settleWildDrawFour, settled, next, total

LEMMA HandleCallUnoSkips ==
    ASSUME NEW s, Skips(s), NEW p
    PROVE  Skips(handleCallUno(s, p))
<1> DEFINE t == handleCallUno(s, p)
<1>1. /\ DOMAIN t = StateField /\ t.phase = s.phase
      /\ t.pendingPenaltyQueue = s.pendingPenaltyQueue
      /\ t.pendingPenaltyDraws = s.pendingPenaltyDraws
      /\ t.pendingPenaltyNextPlayerIndex = s.pendingPenaltyNextPlayerIndex
      /\ t.pendingPenaltySourcePlayerId = s.pendingPenaltySourcePlayerId
      /\ t.currentPlayerIndex = s.currentPlayerIndex
  BY DEF Skips, StateField, handleCallUno
<1> HIDE DEF t
<1>2. Skips(t)
  BY <1>1 DEF Skips, Skipping, terminal
<1> QED
  BY <1>2 DEF t

(***************************************************************************)
(* The plugins                                                             *)
(***************************************************************************)
LEMMA EndedSkips ==
    ASSUME NEW s, DOMAIN s = StateField, terminal(s)
    PROVE  Skips(s)
BY DEF Skips

(* The rules about results look at finished rounds only.                    *)
LEMMA SettleRoundSkips ==
    ASSUME NEW before, NEW after, Skips(after)
    PROVE  LET t == settleRound(before, after)
           IN  /\ Skips(t)
               /\ terminal(after) => terminal(t)
               /\ ~terminal(after) => t = after
<1> DEFINE doubled == doubleScore(before, after)
           shared == teamMode(before, doubled)
           loser == CHOOSE p \in Seat : IsLoser(shared, p)
           without == [shared EXCEPT !.eliminated[loser] = TRUE]
           Over(t) == DOMAIN t = StateField /\ terminal(t)
<1>1. CASE ~terminal(after)
  <2>1. doubled = after
    BY <1>1 DEF doubleScore, roundDecided
  <2>2. teamMode(before, after) = after
    BY <1>1 DEF teamMode, roundDecided
  <2>3. elimination(before, after) = after
    BY <1>1 DEF elimination, terminal, TerminalPhase
  <2> QED
    BY <1>1, <2>1, <2>2, <2>3 DEF settleRound
<1>2. CASE terminal(after)
  <2>1. Over(doubled)
    BY <1>2 DEF doubleScore, StateField, terminal, Skips
  <2> HIDE DEF doubled
  <2>2. Over(shared)
    BY <2>1 DEF teamMode, StateField, terminal
  <2> HIDE DEF shared
  <2>3. Over(without)
    BY <2>2 DEF StateField, terminal
  <2> HIDE DEF without
  <2>4. ASSUME NEW w PROVE Over([without EXCEPT !.phase = "game_over",
                                                !.winnerId = w])
    BY <2>3 DEF StateField, terminal, TerminalPhase
  <2> HIDE DEF Over
  <2>5. Over(elimination(before, shared))
    BY <2>2, <2>3, <2>4 DEF elimination, without, loser
  <2>6. settleRound(before, after) = elimination(before, shared)
    BY DEF settleRound, shared, doubled
  <2> QED
    BY <1>2, <2>5, <2>6, EndedSkips DEF Over
<1> QED
  BY <1>1, <1>2

(* A +2 answered with a +2: the victim pays again, in the same way.         *)
LEMMA TurnPluginsStrike ==
    ASSUME NEW e, NEW before, NEW after, NEW c, Struck(after, c, e)
    PROVE  /\ Struck(zeroRotate(before, after, c), c, e)
           /\ Struck(sevenSwapPost(before, after, c), c, e)
           /\ Skips(revengeMode(before, after, c))
<1>0. DOMAIN after = StateField
  BY DEF Struck, Skips
<1>1. Struck(zeroRotate(before, after, c), c, e)
  <2> DEFINE t == [after EXCEPT !.hand = rotateHands(after.hand,
                                   after.eliminated, after.direction)]
  <2>1. /\ DOMAIN t = StateField /\ t.phase = after.phase
        /\ t.pendingPenaltyQueue = after.pendingPenaltyQueue
        /\ t.pendingPenaltyDraws = after.pendingPenaltyDraws
        /\ t.pendingPenaltyNextPlayerIndex = after.pendingPenaltyNextPlayerIndex
        /\ t.pendingPenaltySourcePlayerId = after.pendingPenaltySourcePlayerId
        /\ t.currentPlayerIndex = after.currentPlayerIndex
        /\ t.eliminated = after.eliminated
    BY <1>0 DEF StateField
  <2> HIDE DEF t
  <2>2. Skips(t) /\ (Calm(after, e) => Calm(t, e))
    BY <2>1 DEF Struck, Skips, Skipping, terminal, Calm
  <2>3. Struck(t, c, e)
    BY <2>1, <2>2 DEF Struck, terminal
  <2> QED
    BY <2>3 DEF zeroRotate, t
<1>2. Struck(sevenSwapPost(before, after, c), c, e)
  <2> DEFINE t == [after EXCEPT !.phase = "choosing_swap_target",
                                !.currentPlayerIndex =
                                   before.currentPlayerIndex]
  <2>1. CASE type[c] = "number" /\ ~terminal(after)
    <3>1. Calm(t, e)
      BY <2>1 DEF Struck, Calm, StateField
    <3> HIDE DEF t
    <3>2. Struck(t, c, e)
      BY <2>1, <3>1, CalmSkips DEF Struck
    <3> QED
      BY <3>2 DEF sevenSwapPost, t
  <2>2. CASE type[c] # "number" \/ terminal(after)
    BY <2>2 DEF sevenSwapPost, playedNumber, isNumberCard
  <2> QED
    BY <2>1, <2>2
<1>3. Skips(revengeMode(before, after, c))
  <2> DEFINE victim == getNextAliveIndex(before.eliminated,
                          before.currentPlayerIndex, before.direction)
             harder == [after EXCEPT !.pendingRevengeDraws = @ + 4]
  <2>1. CASE terminal(after)
    BY <2>1 DEF revengeMode, Struck
  <2>2. CASE ~terminal(after) /\ type[c] = "draw_two"
    <3>1. Skips(startPenaltyDraw(after, victim, 2,
                                 after.pendingPenaltyNextPlayerIndex, null))
      <4>1. /\ Skips(after) /\ after.pendingPenaltyDraws > 0
            /\ after.pendingPenaltySourcePlayerId # null =>
                  after.pendingPenaltyNextPlayerIndex
                     # after.currentPlayerIndex
        BY <2>2 DEF Struck, Skips, Skipping
      <4> HIDE DEF victim
      <4> QED
        BY <2>2, <4>1, QueuePenaltySkips
    <3> QED
      BY <2>2, <3>1 DEF revengeMode, Struck
  <2>3. CASE ~terminal(after) /\ type[c] # "draw_two"
    <3>1. Calm(harder, e)
      BY <2>3 DEF Struck, Calm, StateField
    <3> HIDE DEF harder
    <3> QED
      BY <2>3, <3>1, CalmSkips DEF revengeMode, Struck, harder
  <2> QED
    BY <2>1, <2>2, <2>3
<1> QED
  BY <1>1, <1>2, <1>3

LEMMA PostProcessPlaySkips ==
    ASSUME NEW e, NEW before, before.houseRules \cap MultiPlayRule = {},
           NEW after, NEW c, Struck(after, c, e)
    PROVE  Skips(postProcessPlay(before, after, c))
<1> DEFINE rotated == zeroRotate(before, after, c)
           asked == sevenSwapPost(before, rotated, c)
           harder == revengeMode(before, asked, c)
<1>1. Struck(rotated, c, e)
  BY TurnPluginsStrike
<1> HIDE DEF rotated
<1>2. Struck(asked, c, e)
  BY <1>1, TurnPluginsStrike
<1> HIDE DEF asked
<1>3. Skips(harder)
  BY <1>2, TurnPluginsStrike
<1> HIDE DEF harder
<1>4. multiPlayPost(before, harder, c) = harder
  BY DEF multiPlayPost, anyOn, MultiPlayRule
<1>5. postProcessPlay(before, after, c) = settleRound(before, harder)
  BY <1>4 DEF postProcessPlay, harder, asked, rotated
<1> QED
  BY <1>3, <1>5, SettleRoundSkips

LEMMA HandledPlaySkips ==
    ASSUME NEW before, before.houseRules \cap MultiPlayRule = {},
           NEW result, Skips(result), NEW c
    PROVE  Skips(handledPlay(before, result, c))
<1>1. drainPenaltyQueue(result) = result
  BY DrainKeepsAll
<1>2. ASSUME terminal(result)
      PROVE  Skips(postProcessPlay(before, result, c))
  <2>1. Struck(result, c, result.eliminated)
    BY <1>2 DEF Struck
  <2> QED
    BY <2>1, PostProcessPlaySkips
<1> QED
  BY <1>1, <1>2 DEF handledPlay

(***************************************************************************)
(* The plays that plugins decide                                           *)
(***************************************************************************)
LEMMA DeflectionSkips ==
    ASSUME NEW e, Paired(e), NEW s, Calm(s, e), s.currentPlayerIndex \in Seat,
           s.pendingRevengeDraws \in Nat, NEW p \in Seat, NEW c
    PROVE  Skips(deflection(s, p, c))
<1> DEFINE played == withDeflectionPlayed(s, p, c)
           answered == [played EXCEPT !.phase = "playing",
                                      !.pendingDrawPlayerId = null,
                                      !.pendingRevengeDraws = 0]
           passed == [played EXCEPT !.currentPlayerIndex =
                        getNextAliveIndex(s.eliminated, p, played.direction)]
           target == IF type[c] = "reverse"
                     THEN s.currentPlayerIndex
                     ELSE getNextAliveIndex(s.eliminated, p, s.direction)
           next == getNextAliveIndex(s.eliminated, target, played.direction)
           base == checkRoundEnd(answered, p)
           total == 4 + s.pendingRevengeDraws
<1>1. Calm(withCardDiscarded(s, p, c), e)
  BY DiscardCalm
<1>2. Calm(played, e)
  BY <1>1 DEF Calm, StateField, withDeflectionPlayed
<1>3. target \in Seat
  BY OthersFollow DEF Calm
<1>4. next # target
  BY <1>3, OthersFollow DEF Calm
<1>5. total \in Nat
  OBVIOUS
<1> HIDE DEF played, target, total
<1>6. Calm(answered, e) /\ answered.phase = "playing" /\ Calm(passed, e)
  BY <1>2 DEF Calm, StateField
<1>7. Skips(deflectStack(s, p, c))
  <2> HIDE DEF passed
  <2>1. Skips(checkRoundEnd(passed, p))
    BY <1>6, CheckRoundEndSkips, CalmSkips DEF Calm
  <2> QED
    BY <2>1 DEF deflectStack, passed, played
<1>8. Skips(deflectChallenge(s, p, c))
  <2> HIDE DEF answered, next
  <2>1. Calm(base, e) /\ (base.phase = "playing" \/ terminal(base))
    BY <1>6, CheckRoundEndSkips DEF Calm
  <2> HIDE DEF base
  <2>2. Skips(startPenaltyDraw(base, target, total, next, p))
    BY <1>4, <1>5, <2>1, StartPenaltyDrawSkips
  <2> QED
    BY <2>2 DEF deflectChallenge, base, answered, next, target, played, total
<1> QED
  BY <1>7, <1>8 DEF deflection

LEMMA AttackCardSkips ==
    ASSUME NEW e, NEW s, Calm(s, e), NEW p, NEW c, NEW chosen
    PROVE  Skips(putAttackCardOnStack(s, p, c, chosen))
<1> DEFINE played == withUnoFlagsAfterPlay(withCardDiscarded(s, p, c), p)
           colored == IF type[c] = "draw_two"
                      THEN [played EXCEPT !.currentColor = color[c]]
                      ELSE [played EXCEPT !.currentColor = chosen,
                                          !.chosenColor[c] = chosen]
           stacked == [colored EXCEPT
                         !.drawStack = @ + getCardDrawPenalty(c),
                         !.currentPlayerIndex =
                            getNextAliveIndex(s.eliminated, p, s.direction)]
<1>1. Calm(played, e)
  BY DiscardCalm
<1> HIDE DEF played
<1>2. Calm(colored, e)
  BY <1>1 DEF Calm, StateField
<1> HIDE DEF colored
<1>3. Calm(stacked, e)
  BY <1>2 DEF Calm, StateField
<1> HIDE DEF stacked
<1>4. Skips(checkRoundEnd(stacked, p))
  BY <1>3, CheckRoundEndSkips, CalmSkips DEF Calm
<1> QED
  BY <1>4 DEF putAttackCardOnStack, stacked, colored, played

LEMMA StackingSkips ==
    ASSUME NEW e, NEW s, Calm(s, e), NEW p, NEW c, NEW chosen
    PROVE  Skips(stacking(s, p, c, chosen))
<1>1. Calm([s EXCEPT !.phase = "playing",
                     !.pendingDrawPlayerId = null,
                     !.drawStack = 4 + s.pendingRevengeDraws,
                     !.pendingRevengeDraws = 0,
                     !.currentPlayerIndex = p], e)
  BY DEF Calm, StateField
<1> QED
  BY <1>1, AttackCardSkips DEF stacking

LEMMA JumpInSkips ==
    ASSUME NEW e, Paired(e), NEW s, Calm(s, e), s.phase = "playing",
           NEW p \in Seat, NEW c \in Deck, NEW chosen
    PROVE  Skips(jumpIn(s, p, c, chosen))
<1> DEFINE played == withCardDiscarded(s, p, c)
           next == getNextAliveIndex(played.eliminated, p, played.direction)
           afterNext == skipNextAliveIndex(played.eliminated, p,
                                           played.direction)
           toNext == [played EXCEPT !.currentPlayerIndex = next]
           colored == [toNext EXCEPT !.currentColor = color[c]]
           wildColored == withWildColor(toNext, c, chosen)
           attacked == IF chosen # null
                       THEN [withWildColor(played, c, chosen)
                               EXCEPT !.phase = "challenging"]
                       ELSE [played EXCEPT !.phase = "choosing_color"]
           struck == startPenaltyDraw(colored, next, 2, afterNext, p)
           effect == withJumpInEffect(played, s, p, c, chosen)
<1>1. Calm(played, e) /\ played.phase = "playing"
  BY DiscardCalm
<1> HIDE DEF played
<1>2. type[c] \in CardType
  BY DeckAssumption
<1>3. Struck(withCardEffect(played, p, c), c, e)
  BY <1>1, CardEffectStrikes
<1>4. afterNext # next
  BY <1>1, OthersFollow DEF Calm
<1>5. Calm(toNext, e) /\ toNext.phase = "playing"
  BY <1>1 DEF Calm, StateField
<1> HIDE DEF toNext
<1>6. Calm(colored, e) /\ Calm(wildColored, e) /\ colored.phase = "playing"
  BY <1>5 DEF Calm, StateField, withWildColor
<1> HIDE DEF colored, wildColored, next, afterNext
<1>7. /\ Skips(struck) /\ struck.pendingPenaltyDraws = 2
      /\ struck.phase = "playing" /\ struck.currentPlayerIndex = next
  BY <1>4, <1>6, StartPenaltyDrawSkips
<1> HIDE DEF struck
<1>8. Skips(startPenaltyDraw(struck, next, 2, afterNext, null))
  BY <1>4, <1>7, QueuePenaltySkips DEF terminal, TerminalPhase
<1>9. Calm([played EXCEPT !.phase = "choosing_color",
                          !.currentPlayerIndex = p], e)
  BY <1>1 DEF Calm, StateField
<1>10. Calm([attacked EXCEPT !.currentPlayerIndex = p,
                             !.pendingDrawPlayerId = next], e)
  <2>1. Calm(attacked, e)
    BY <1>1 DEF Calm, StateField, withWildColor
  <2> HIDE DEF attacked
  <2> QED
    BY <2>1 DEF Calm, StateField
<1>11. ASSUME NEW hands
       PROVE  /\ Calm([colored EXCEPT !.hand = hands], e)
              /\ Calm([colored EXCEPT !.phase = "choosing_swap_target",
                                      !.currentPlayerIndex = p], e)
  BY <1>6 DEF Calm, StateField
<1>12. Skips(effect)
  <2>1. CASE type[c] \in {"skip", "reverse"}
    BY <1>3, <2>1 DEF withJumpInEffect, Struck
  <2>2. CASE type[c] = "draw_two"
    BY <1>7, <1>8, <2>2
       DEF withJumpInEffect, struck, next, afterNext, toNext, colored
  <2>3. CASE type[c] \in {"wild", "wild_draw_four", "number"}
    <3>1. Calm(effect, e)
      BY <1>6, <1>9, <1>10, <1>11, <2>3
         DEF withJumpInEffect, next, afterNext, toNext, colored, wildColored,
             attacked
    <3> QED
      BY <3>1, CalmSkips
  <2> QED
    BY <1>2, <2>1, <2>2, <2>3 DEF CardType
<1> HIDE DEF effect
<1>13. jumpIn(s, p, c, chosen) = checkRoundEnd(effect, p)
  BY DEF jumpIn, effect, played
<1> QED
  BY <1>12, <1>13, CheckRoundEndSkips DEF Skips

LEMMA ResolveStackSkips ==
    ASSUME NEW e, Paired(e), NEW s, Calm(s, e), s.phase = "playing",
           s.drawStack \in Nat, s.drawStack > 0,
           NEW p \in Seat, NEW side, NEW card
    PROVE  Skips(resolveStack(s, p, side, card))
<1> DEFINE next == getNextAliveIndex(s.eliminated, p, s.direction)
           source == IF s.lastAction.type = "PLAY_CARD"
                     THEN s.lastAction.playerId ELSE null
           taken == [s EXCEPT !.drawStack = 0,
                              !.lastAction = Acted("DRAW_CARD", p)]
           owed == startPenaltyDraw(taken, p, s.drawStack, next, source)
<1>1. Calm(taken, e) /\ taken.phase = "playing"
  BY DEF Calm, StateField
<1>2. next # p
  BY OthersFollow DEF Calm
<1> HIDE DEF taken, source, next
<1>3. /\ Skips(owed) /\ owed.phase = "playing"
      /\ owed.pendingPenaltyDraws > 0
  BY <1>1, <1>2, StartPenaltyDrawSkips
<1> HIDE DEF owed
<1>4. Skips(handleDrawCard(owed, p, side, card))
  BY <1>3, HandleDrawCardSkips
<1> QED
  BY <1>4 DEF resolveStack, owed, taken, source, next

LEMMA ChooseSwapTargetSkips ==
    ASSUME NEW e, NEW s, Calm(s, e), NEW p, NEW target
    PROVE  Skips(chooseSwapTarget(s, p, target))
<1>1. ASSUME NEW hands, NEW called, NEW caught, NEW turn
      PROVE  Calm([s EXCEPT !.hand = hands, !.calledUno = called,
                            !.unoCaught = caught, !.phase = "playing",
                            !.currentPlayerIndex = turn,
                            !.lastAction = Acted("CHOOSE_SWAP_TARGET", p)], e)
  BY DEF Calm, StateField
<1>2. ASSUME NEW hands, NEW called, NEW caught, NEW turn
      PROVE  Skips(drainPenaltyQueue(
                [s EXCEPT !.hand = hands, !.calledUno = called,
                          !.unoCaught = caught, !.phase = "playing",
                          !.currentPlayerIndex = turn,
                          !.lastAction = Acted("CHOOSE_SWAP_TARGET", p)]))
  BY <1>1, CalmSkips, DrainKeepsAll
<1> QED
  BY <1>2 DEF chooseSwapTarget

(***************************************************************************)
(* The actions                                                             *)
(***************************************************************************)

(* Nobody can be caught, and no PASS ends a series of plays.                *)
Uncaught(rules) == "silentUno" \in rules /\ rules \cap MultiPlayRule = {}

(* The hypotheses on a step that is not the deal of a round.                *)
Skippable ==
    /\ Sound(state) /\ Owes(state, 0) /\ Paired(state.eliminated)
    /\ Uncaught(state.houseRules) /\ ~terminal(state) /\ Skips(state)

LEMMA SkippableFacts ==
    ASSUME Skippable
    PROVE  /\ DOMAIN state = StateField /\ Skips(state)
           /\ state.pendingPenaltyDraws \in Nat /\ state.drawStack \in Nat
           /\ state.pendingRevengeDraws \in Nat
           /\ state.currentPlayerIndex \in Seat
           /\ state.pendingDrawPlayerId \in Seat \cup {null}
           /\ \A p \in Seat : state.hand[p] \in SUBSET Deck
           /\ state.pendingPenaltyDraws > 0 \/ state.drawStack > 0 =>
                 state.phase = "playing"
           /\ state.houseRules \cap MultiPlayRule = {}
           /\ state.pendingPenaltyDraws = 0 => Calm(state, state.eliminated)
<1>1. /\ DOMAIN state = StateField /\ Skips(state)
      /\ state.pendingPenaltyDraws \in Nat /\ state.drawStack \in Nat
      /\ state.pendingRevengeDraws \in Nat
      /\ state.currentPlayerIndex \in Seat
      /\ state.pendingDrawPlayerId \in Seat \cup {null}
      /\ \A p \in Seat : state.hand[p] \in SUBSET Deck
  BY DEF Skippable, Sound, IsGameState
<1>2. state.pendingPenaltyDraws > 0 \/ state.drawStack > 0 =>
         state.phase = "playing"
  BY DEF Skippable, Owes, Due
<1>3. state.pendingPenaltyDraws = 0 => state.pendingPenaltyQueue = <<>>
  BY DEF Skippable, Skips, Skipping
<1>4. state.pendingPenaltyDraws = 0 => Calm(state, state.eliminated)
  BY <1>1, <1>3 DEF Calm
<1> QED
  BY <1>1, <1>2, <1>4 DEF Skippable, Uncaught

LEMMA TurnPlaySkips ==
    ASSUME Skippable, NEW p \in Seat, NEW c \in state.hand[p],
           \/ PlayCard(p, c) \/ ForfeitFinishRestriction(p, c)
           \/ Deflect(p, c) \/ ForcedPlayWithoutDraw(p, c)
           \/ \E chosen : Stack(p, c, chosen)
           \/ \E card : PayFinishRestriction(p, c, card)
    PROVE  Skips(state')
<1> DEFINE e == state.eliminated
<1> USE SkippableFacts
<1>1. Calm(state, e) /\ Paired(e) /\ c \in Deck
  BY DEF PlayCard, ForfeitFinishRestriction, Deflect, ForcedPlayWithoutDraw,
         Stack, PayFinishRestriction, noPenaltyPending, Skippable
<1>2. CASE PlayCard(p, c)
  <2>1. /\ state.phase = "playing"
        /\ state' = postProcessPlay(state, handlePlayCard(state, p, c), c)
    BY <1>2 DEF PlayCard, playCardAllowed
  <2>2. Struck(handlePlayCard(state, p, c), c, e)
    BY <1>1, <2>1, HandlePlayCardStrikes
  <2> QED
    BY <2>1, <2>2, PostProcessPlaySkips
<1>3. CASE ForfeitFinishRestriction(p, c)
  <2>1. Skips(handlePass(state, p))
    BY <1>1, HandlePassCalm, CalmSkips
  <2> QED
    BY <1>3, <2>1, HandledPlaySkips DEF ForfeitFinishRestriction
<1>4. ASSUME NEW card, PayFinishRestriction(p, c, card)
      PROVE  Skips(state')
  <2>1. Skips(finishPenaltyCard(state, p, card))
    BY DrawCardsSkips DEF finishPenaltyCard
  <2> QED
    BY <1>4, <2>1, HandledPlaySkips DEF PayFinishRestriction
<1>5. CASE Deflect(p, c)
  <2>1. Skips(deflection(state, p, c))
    BY <1>1, DeflectionSkips
  <2> QED
    BY <1>5, <2>1, HandledPlaySkips DEF Deflect
<1>6. ASSUME NEW chosen, Stack(p, c, chosen)
      PROVE  Skips(state')
  <2>1. Skips(stacking(state, p, c, chosen))
    BY <1>1, StackingSkips
  <2> QED
    BY <1>6, <2>1, HandledPlaySkips DEF Stack
<1>7. CASE ForcedPlayWithoutDraw(p, c)
  <2>1. /\ state.phase = "playing"
        /\ state' = settleRound(state, forcedPlayAfterDraw(state, state, p, c))
    BY <1>7 DEF ForcedPlayWithoutDraw, playCardAllowed, postProcessDraw
  <2>2. Skips(handlePlayCard(state, p, c))
    BY <1>1, <2>1, HandlePlayCardStrikes DEF Struck
  <2>3. Skips(forcedPlayAfterDraw(state, state, p, c))
    BY <2>2 DEF forcedPlayAfterDraw
  <2> QED
    BY <2>1, <2>3, SettleRoundSkips
<1> QED
  BY <1>2, <1>3, <1>4, <1>5, <1>6, <1>7

(* The card that pays a penalty is not followed by a play.                  *)
LEMMA PaymentSettles ==
    ASSUME NEW before, before.pendingPenaltyDraws > 0, NEW after, NEW p,
           NEW card
    PROVE  postProcessDraw(before, after, p, card) = settleRound(before, after)
BY DEF postProcessDraw, forcedPlayAfterDraw, hasPendingDrawObligation

LEMMA TurnDrawSkips ==
    ASSUME Skippable, NEW p \in Seat, NEW side \in DrawSide,
           NEW card \in drawnCards(p, side),
           \/ DrawCard(p, side, card)
           \/ DrawUntilPlayable(p, side, card)
           \/ TakeStack(p, side, card)
    PROVE  Skips(state')
<1> DEFINE e == state.eliminated
           drawn == handleDrawCard(state, p, side, card)
<1> USE SkippableFacts
<1>1. card \in Deck /\ Paired(e)
  BY DrawnCardsAreCards DEF Skippable
<1>2. CASE DrawCard(p, side, card) /\ state.pendingPenaltyDraws > 0
  <2>1. state' = settleRound(state, drawn)
    BY <1>2, PaymentSettles DEF DrawCard
  <2>2. Skips(drawn)
    BY <1>2, HandleDrawCardSkips
  <2> HIDE DEF drawn
  <2> QED
    BY <2>1, <2>2, SettleRoundSkips
<1>3. CASE DrawCard(p, side, card) /\ state.pendingPenaltyDraws = 0
  <2>1. state' = settleRound(state, forcedPlayAfterDraw(state, drawn, p, card))
    BY <1>3 DEF DrawCard, postProcessDraw
  <2>2. Calm(drawn, e)
    BY <1>3, DrawCardsCalm
  <2> HIDE DEF drawn
  <2>3. drawn.phase = "playing" => Skips(handlePlayCard(drawn, p, card))
    BY <1>1, <2>2, HandlePlayCardStrikes DEF Struck
  <2>4. Skips(forcedPlayAfterDraw(state, drawn, p, card))
    BY <2>2, <2>3, CalmSkips DEF forcedPlayAfterDraw, playCardAllowed
  <2> QED
    BY <2>1, <2>4, SettleRoundSkips
<1>4. CASE DrawUntilPlayable(p, side, card)
  <2>1. state.pendingPenaltyDraws = 0
    BY <1>4 DEF DrawUntilPlayable, drawUntilPlayableClaims,
                hasPendingDrawObligation
  <2> QED
    BY <1>4, <2>1, DrawCardsCalm, CalmSkips DEF DrawUntilPlayable
<1>5. CASE TakeStack(p, side, card)
  <2>1. /\ state.pendingPenaltyDraws = 0 /\ state.drawStack > 0
        /\ state' = settleRound(state, resolveStack(state, p, side, card))
    BY <1>5 DEF TakeStack, stackingClaimsDraw
  <2>2. Skips(resolveStack(state, p, side, card))
    BY <1>1, <2>1, ResolveStackSkips
  <2> QED
    BY <2>1, <2>2, SettleRoundSkips
<1> QED
  BY <1>2, <1>3, <1>4, <1>5

LEMMA TurnActionSkips ==
    ASSUME Skippable, NEW p \in Seat, TurnAction(p)
    PROVE  Skips(state')
<1> DEFINE e == state.eliminated
<1> USE SkippableFacts
<1>1. CASE Pass(p)
  <2>1. Calm(state, e) \/ ~hasCardsAvailable(state)
    BY <1>1 DEF Pass, passAllowed
  <2>2. Skips(handlePass(state, p))
    BY <2>1, HandlePassCalm, CalmSkips
  <2> QED
    BY <1>1, <2>2, SettleRoundSkips DEF Pass
<1>2. ~EndMultiPlay(p)
  BY DEF EndMultiPlay, multiPlayPassClaims, anyOn, MultiPlayRule
<1>3. ASSUME NEW chosen \in Color,
             ChooseColor(p, chosen) \/ ChooseColorUnchallenged(p, chosen)
      PROVE  Skips(state')
  <2> DEFINE t == handleChooseColor(state, p, chosen)
  <2>1. Calm(state, e) /\ Paired(e)
    BY <1>3 DEF ChooseColor, ChooseColorUnchallenged, chooseColorAllowed,
                Skippable
  <2>2. Calm(t, e)
    BY <2>1, HandleChooseColorCalm
  <2>3. CASE ChooseColor(p, chosen)
    BY <2>2, <2>3, CalmSkips DEF ChooseColor
  <2>4. CASE ChooseColorUnchallenged(p, chosen)
    <3>1. /\ state.pendingDrawPlayerId \in Seat
          /\ state' = settleWildDrawFour(t, Acted("CHOOSE_COLOR", p),
                                         state.pendingDrawPlayerId, 4, p)
      BY <2>4 DEF ChooseColorUnchallenged, chooseColorUnchallenged
    <3>2. t.pendingRevengeDraws \in Nat
      <4> DEFINE colored == [state EXCEPT !.chosenColor[topCard(state)] = chosen,
                                          !.currentColor = chosen,
                                          !.lastAction =
                                             Acted("CHOOSE_COLOR", p)]
      <4>1. /\ DOMAIN colored = StateField
            /\ colored.pendingRevengeDraws = state.pendingRevengeDraws
        BY DEF StateField
      <4>2. state.pendingDrawPlayerId # null
        BY <3>1, NullIsNoSeat
      <4>3. t = [colored EXCEPT !.phase = "challenging"]
        BY <4>2 DEF handleChooseColor
      <4> HIDE DEF colored, t
      <4> QED
        BY <4>1, <4>3 DEF StateField
    <3> HIDE DEF t
    <3> QED
      BY <2>1, <2>2, <3>1, <3>2, SettleWildDrawFourSkips
  <2> QED
    BY <1>3, <2>3, <2>4
<1>4. CASE Challenge(p) \/ Accept(p)
  <2>1. Calm(state, e) /\ Paired(e)
    BY <1>4 DEF Challenge, challengeAllowed, Accept, respondAllowed, Skippable
  <2>2. Skips(handleChallenge(state, p)) /\ Skips(handleAccept(state, p))
    BY <2>1, SettleWildDrawFourSkips DEF handleChallenge, handleAccept
  <2> QED
    BY <1>4, <2>2 DEF Challenge, Accept
<1>5. ASSUME NEW target \in Seat, ChooseSwapTarget(p, target)
      PROVE  Skips(state')
  <2>1. Calm(state, e)
    BY <1>5 DEF ChooseSwapTarget, chooseSwapTargetAllowed
  <2> QED
    BY <1>5, <2>1, ChooseSwapTargetSkips DEF ChooseSwapTarget
<1> QED
  BY <1>1, <1>2, <1>3, <1>4, <1>5, TurnPlaySkips, TurnDrawSkips
     DEF TurnAction

LEMMA SideActionSkips ==
    ASSUME Skippable, NEW p \in Seat, SideAction(p)
    PROVE  Skips(state')
<1> DEFINE e == state.eliminated
<1> USE SkippableFacts
<1>1. ASSUME NEW c \in state.hand[p], NEW chosen, JumpIn(p, c, chosen)
      PROVE  Skips(state')
  <2>1. /\ Calm(state, e) /\ Paired(e) /\ c \in Deck
        /\ state.phase = "playing"
    BY <1>1 DEF JumpIn, noPenaltyPending, jumpInClaims, Skippable
  <2>2. Skips(jumpIn(state, p, c, chosen))
    BY <2>1, JumpInSkips
  <2> QED
    BY <1>1, <2>2, HandledPlaySkips DEF JumpIn
<1>2. ASSUME NEW c, Misplay(p, c)
      PROVE  Skips(state')
  <2>1. Calm(state, e) /\ state.phase = "playing"
    BY <1>2 DEF Misplay, noPenaltyPending, misplayPenaltyClaims
  <2>2. Skips(misplayPenalty(state, p))
    BY <2>1, StartPenaltyDrawSkips DEF misplayPenalty
  <2> QED
    BY <1>2, <2>2, HandledPlaySkips DEF Misplay
<1>3. CASE CallUno(p)
  BY <1>3, HandleCallUnoSkips DEF CallUno
<1>4. ~CatchUno(p)
  BY DEF CatchUno, On, Skippable, Uncaught
<1> QED
  BY <1>1, <1>2, <1>3, <1>4 DEF SideAction

(***************************************************************************)
(* The invariant and the property                                          *)
(***************************************************************************)
SkipState == Skips(state)

LEMMA DealtStateSkips ==
    ASSUME NEW d, NEW rules, NEW eliminated, NEW score, NEW wins, NEW teams,
           NEW first, NEW round
    PROVE  Skips(dealtState(d, rules, eliminated, score, wins, teams, first,
                            round))
<1> DEFINE s == dealtState(d, rules, eliminated, score, wins, teams, first,
                           round)
<1>1. Calm(s, s.eliminated)
  BY DEF dealtState, StateField, Calm
<1> HIDE DEF s
<1>2. Skips(s)
  BY <1>1, CalmSkips
<1> QED
  BY <1>2 DEF s

(* A penalty waits behind another one only without a source, and the turn   *)
(* never comes back to the player who pays for a card of another.           *)
THEOREM AlwaysSkips ==
    ASSUME N > 1
    PROVE  Spec /\ [](/\ "silentUno" \in state.houseRules
                      /\ state.houseRules
                            \cap {"multiplePlaySameNumber", "bombCard"} = {})
              => []SkipState
<1> DEFINE Without == /\ "silentUno" \in state.houseRules
                      /\ state.houseRules
                            \cap {"multiplePlaySameNumber", "bombCard"} = {}
<1>1. Init => SkipState
  BY DealtStateSkips DEF Init, initializeGame, SkipState
<1>2. /\ SoundState /\ SoundState' /\ SettledState /\ DueState /\ PairState
      /\ Without /\ SkipState /\ [Next]_vars
      => SkipState'
  <2> SUFFICES ASSUME Sound(state), Sound(state'), Settled(state),
                      Owes(state, 0), PairState, Without, Skips(state),
                      [Next]_vars
               PROVE  Skips(state')
    BY DEF SoundState, SettledState, DueState, SkipState
  <2>1. ASSUME NEW p \in Seat, TurnAction(p) \/ SideAction(p)
        PROVE  Skips(state')
    <3>1. CASE terminal(state)
      <4>1. terminal(state')
        BY <2>1, <3>1, TurnActionKeepsResult, SideActionKeepsResult
           DEF SameResult, terminal
      <4>2. DOMAIN state' = StateField
        BY DEF Sound, IsGameState
      <4> QED
        BY <4>1, <4>2, EndedSkips
    <3>2. CASE ~terminal(state)
      <4>1. Skippable
        BY <3>2 DEF Skippable, Uncaught, MultiPlayRule, PairState, terminal,
                    TerminalPhase
      <4> QED
        BY <2>1, <4>1, TurnActionSkips, SideActionSkips
    <3> QED
      BY <3>1, <3>2
  <2>2. CASE NextRound
    BY <2>2, DealtStateSkips
       DEF NextRound, StartNextRound, initializeNextRound
  <2>3. CASE UNCHANGED vars
    BY <2>3 DEF vars
  <2> QED
    BY <2>1, <2>2, <2>3 DEF Next
<1>3. Spec /\ []Without => []SkipState
  BY <1>1, <1>2, AlwaysSound, AlwaysSettled, AlwaysDue, AlwaysPaired, PTL
     DEF Spec
<1> QED
  BY <1>3

(* Where a penalty is paid, only its last card changes a hand and ends it.  *)
LEMMA PaymentMovesOn ==
    ASSUME Skippable, state.pendingPenaltyDraws = 1,
           state.pendingPenaltySourcePlayerId # null,
           Next, state'.hand # state.hand, ~terminal(state')
    PROVE  continuation(state') # state.currentPlayerIndex
<1> DEFINE Goal == continuation(state') # state.currentPlayerIndex
<1>1. /\ state.phase = "playing" /\ hasPendingDrawObligation(state)
      /\ DOMAIN state = StateField
      /\ state.houseRules \cap MultiPlayRule = {}
  BY SkippableFacts DEF hasPendingDrawObligation
<1>2. ~NextRound
  BY <1>1 DEF NextRound, StartNextRound
<1>3. ASSUME NEW p \in Seat, SideAction(p) PROVE Goal
  <2>1. CallUno(p)
    BY <1>3 DEF SideAction, JumpIn, Misplay, noPenaltyPending, CatchUno, On,
                Skippable, Uncaught
  <2>2. state'.hand = state.hand
    BY <1>1, <2>1 DEF CallUno, handleCallUno, StateField
  <2> QED
    BY <2>2
<1>4. ASSUME NEW p \in Seat, TurnAction(p) PROVE Goal
  <2>1. ASSUME NEW c \in state.hand[p]
        PROVE  /\ ~PlayCard(p, c) /\ ~ForfeitFinishRestriction(p, c)
               /\ ~Deflect(p, c) /\ ~ForcedPlayWithoutDraw(p, c)
               /\ \A chosen \in Color \cup {null} : ~Stack(p, c, chosen)
               /\ \A card \in CanYield(state, LongerSide(state)) :
                     ~PayFinishRestriction(p, c, card)
    BY DEF PlayCard, ForfeitFinishRestriction, Deflect, ForcedPlayWithoutDraw,
           Stack, PayFinishRestriction, noPenaltyPending
  <2>2. ASSUME NEW side \in DrawSide, NEW card \in drawnCards(p, side)
        PROVE  /\ ~DrawUntilPlayable(p, side, card)
               /\ ~TakeStack(p, side, card)
               /\ DrawCard(p, side, card) => Goal
    <3> DEFINE drawn == handleDrawCard(state, p, side, card)
    <3>1. ~DrawUntilPlayable(p, side, card) /\ ~TakeStack(p, side, card)
      BY <1>1 DEF DrawUntilPlayable, drawUntilPlayableClaims, TakeStack,
                  stackingClaimsDraw
    <3>2. /\ Skips(drawn)
          /\ ~terminal(drawn) =>
                continuation(drawn) # state.currentPlayerIndex
      BY <1>1, HandleDrawCardSkips DEF Skippable
    <3>3. DrawCard(p, side, card) => state' = settleRound(state, drawn)
      BY PaymentSettles DEF DrawCard
    <3> HIDE DEF drawn
    <3>4. DrawCard(p, side, card) => state' = drawn /\ ~terminal(drawn)
      BY <3>2, <3>3, SettleRoundSkips
    <3> QED
      BY <3>1, <3>2, <3>4
  <2>3. ~EndMultiPlay(p)
    BY <1>1 DEF EndMultiPlay, multiPlayPassClaims, anyOn, MultiPlayRule
  <2>4. /\ \A chosen \in Color : /\ ~ChooseColor(p, chosen)
                                 /\ ~ChooseColorUnchallenged(p, chosen)
        /\ ~Challenge(p) /\ ~Accept(p)
        /\ \A target \in Seat : ~ChooseSwapTarget(p, target)
    BY <1>1 DEF ChooseColor, ChooseColorUnchallenged, chooseColorAllowed,
                Challenge, challengeAllowed, Accept, respondAllowed,
                ChooseSwapTarget, chooseSwapTargetAllowed
  <2>5. ~Pass(p)
    <3> SUFFICES ASSUME Pass(p) PROVE FALSE
      OBVIOUS
    <3> DEFINE passed == handlePass(state, p)
    <3>1. Calm(passed, state.eliminated)
      <4>1. Calm(state, state.eliminated) \/ ~hasCardsAvailable(state)
        BY DEF Pass, passAllowed
      <4> QED
        BY <1>1, <4>1, HandlePassCalm
    <3>2. passed.hand = state.hand
      BY <1>1, HandlePassHand
    <3>3. state' = settleRound(state, passed)
      BY DEF Pass
    <3> HIDE DEF passed
    <3>4. state' = passed
      BY <3>1, <3>3, CalmSkips, SettleRoundSkips
    <3> QED
      BY <3>2, <3>4
  <2> QED
    BY <1>4, <2>1, <2>2, <2>3, <2>4, <2>5 DEF TurnAction
<1> QED
  BY <1>2, <1>3, <1>4 DEF Next

(* With silentUno, where nobody is caught, and without the rules that let a *)
(* player end a series of plays with PASS, who draws the last card of a     *)
(* penalty played by another does not play on: not at once, and not when    *)
(* the penalties that wait behind it are paid.                              *)
THEOREM VictimsAreSkipped ==
    ASSUME N > 1
    PROVE  Spec /\ [](/\ "silentUno" \in state.houseRules
                      /\ state.houseRules
                            \cap {"multiplePlaySameNumber", "bombCard"} = {})
              => VictimIsSkipped
<1> DEFINE Without == /\ "silentUno" \in state.houseRules
                      /\ state.houseRules
                            \cap {"multiplePlaySameNumber", "bombCard"} = {}
           Step == /\ state.pendingPenaltyDraws = 1
                   /\ state.pendingPenaltySourcePlayerId # null
                   /\ state'.hand # state.hand /\ ~terminal(state')
                   => continuation(state') # state.currentPlayerIndex
<1>1. SoundState /\ DueState /\ PairState /\ Without /\ SkipState /\ [Next]_vars
      => [Step]_vars
  <2> SUFFICES ASSUME Sound(state), Owes(state, 0), PairState, Without,
                      Skips(state), Next, state.pendingPenaltyDraws = 1,
                      state.pendingPenaltySourcePlayerId # null,
                      state'.hand # state.hand, ~terminal(state')
               PROVE  continuation(state') # state.currentPlayerIndex
    BY DEF SoundState, DueState, SkipState
  <2>1. state.phase = "playing"
    BY DEF Owes, Due
  <2>2. Skippable
    BY <2>1 DEF Skippable, Uncaught, MultiPlayRule, PairState, terminal,
                TerminalPhase
  <2> QED
    BY <2>2, PaymentMovesOn
<1>2. Spec /\ []Without => [][Step]_vars
  BY <1>1, AlwaysSound, AlwaysDue, AlwaysPaired, AlwaysSkips, PTL DEF Spec
<1> QED
  BY <1>2, PTL DEF VictimIsSkipped
===============================================================================
