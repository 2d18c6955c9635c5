--------------------------- MODULE UnoProperties ---------------------------
(***************************************************************************)
(* What a game of UNO must never do, whatever the house rules and however  *)
(* the actions of the players interleave.                                  *)
(***************************************************************************)
EXTENDS UnoGame

(***************************************************************************)
(* Cards                                                                   *)
(***************************************************************************)
HeldCards(s) == UNION {s.hand[p] : p \in Seat}

DrawableCards(s) == s.deck["left"] \cup s.deck["right"]

(* Every card of the deck is in exactly one place: no play, draw, refill,   *)
(* swap, rotation or deal loses or copies a card.                           *)
CardConservation ==
    /\ HeldCards(state) \cup DrawableCards(state) \cup DiscardedCards(state)
          = Deck
    /\ \A p, q \in Seat : p # q => state.hand[p] \cap state.hand[q] = {}
    /\ state.deck["left"] \cap state.deck["right"] = {}
    /\ HeldCards(state) \cap DrawableCards(state) = {}
    /\ (HeldCards(state) \cup DrawableCards(state))
          \cap DiscardedCards(state) = {}
    /\ \A i, j \in 1..Len(state.discardPile) :
          state.discardPile[i] = state.discardPile[j] => i = j

(***************************************************************************)
(* Phases                                                                  *)
(***************************************************************************)

(* What the handlers of game-engine.ts and revenge-mode.ts throw an error   *)
(* about never happens: a colour is chosen for a wild card, a challenge     *)
(* finds the Wild Draw Four and the colour in force before it, an active    *)
(* penalty knows whose turn comes after it.                                 *)
EngineNeverThrows ==
    /\ state.phase = "choosing_color" => isWildCard(topCard(state))
    /\ state.pendingDrawPlayerId # null /\ ~terminal(state) =>
          /\ state.phase \in {"choosing_color", "challenging"}
          /\ type[topCard(state)] = "wild_draw_four"
    /\ state.phase = "challenging" =>
          /\ state.pendingDrawPlayerId # null
          /\ Len(state.discardPile) >= 2
          /\ state.chosenColor[topCard(state)] # null
          /\ getWildDrawFourChallengeColor(state) # null
    /\ state.pendingPenaltyDraws > 0 =>
          state.pendingPenaltyNextPlayerIndex # null
    /\ state.phase = "playing" => state.currentColor # null

(* A finished round stays as it was decided until the next one is dealt: no *)
(* late action of a player changes its result.                              *)
ResultIsFinal ==
    [][terminal(state) /\ state'.roundNumber = state.roundNumber =>
         /\ state'.phase = state.phase
         /\ state'.winnerId = state.winnerId
         /\ state'.score = state.score
         /\ state'.roundWins = state.roundWins
         /\ state'.eliminated = state.eliminated]_vars

(* checkRoundEnd misses no empty hand: while a round goes on, everybody     *)
(* still in the game holds a card.                                          *)
EmptyHandEndsRound ==
    ~terminal(state) =>
        \A p \in AliveSeats(state.eliminated) : state.hand[p] # {}

(* The player the game waits for: the one challenged by a Wild Draw Four,   *)
(* else the current player.                                                 *)
awaitedPlayer(s) ==
    IF s.phase = "challenging" THEN s.pendingDrawPlayerId
                               ELSE s.currentPlayerIndex

(* An eliminated player holds no card, is never on turn and never owes one. *)
EliminatedStayOut ==
    ~terminal(state) =>
        \A p \in Seat : state.eliminated[p] =>
            /\ state.hand[p] = {}
            /\ p \notin {state.currentPlayerIndex, state.pendingDrawPlayerId,
                         state.pendingPenaltyNextPlayerIndex}
            /\ \A i \in DOMAIN state.pendingPenaltyQueue :
                  p # state.pendingPenaltyQueue[i].playerId

(* doubleScore: the winner of a round, whatever card won it, gets twice     *)
(* what the other hands are worth.  They are all there is to count, even    *)
(* where the hands rotate after a last 0: the winner's own was empty.       *)
WinnerScoreIsDoubled ==
    [][On(state, "doubleScore") /\ ~terminal(state) =>
         \A w \in Seat :
            state'.roundWins[w] > state.roundWins[w] =>
               state'.score[w] = state.score[w] + 2 * HandScore(HeldCards(state'))]_vars

(***************************************************************************)
(* Wild Draw Four and UNO                                                  *)
(***************************************************************************)
wildDrawFourPending(s) ==
    s.pendingDrawPlayerId # null /\ s.phase \in {"choosing_color", "challenging"}

(* A challenge judges the hand the Wild Draw Four was played from: until    *)
(* the answer, its player and the player's hand do not change, though he    *)
(* may be caught without an UNO call in the meantime.                       *)
ChallengeJudgesHandAtPlay ==
    [][wildDrawFourPending(state) /\ wildDrawFourPending(state') =>
         LET p == state.currentPlayerIndex
         IN  state'.currentPlayerIndex = p /\ state'.hand[p] = state.hand[p]]_vars

(* An UNO call protects only the hand it was made for: it is void as soon   *)
(* as the player holds more than the two cards he may call with.            *)
CallOutlivesNoDraw ==
    \A p \in Seat : state.calledUno[p] => Cardinality(state.hand[p]) <= 2

(***************************************************************************)
(* Penalties                                                               *)
(***************************************************************************)

(* The cards of the penalties in a queue, one element for each.              *)
queuedCards(queue) ==
    UNION {{i} \X (1..queue[i].count) : i \in DOMAIN queue}

(* The cards the players owe: the active penalty, the queued ones, the      *)
(* stack that waits for an answer.                                          *)
cardsOwed(s) ==
    s.pendingPenaltyDraws + s.drawStack
      + Cardinality(queuedCards(s.pendingPenaltyQueue))

(* The debt shrinks only when the player who owes it draws a card: by one,  *)
(* unless that was the last card there was.                                 *)
debtShrinksByDraws(s, t) ==
    /\ ~terminal(s) /\ ~terminal(t)
    /\ cardsOwed(t) < cardsOwed(s)
    =>
    /\ cardsOwed(t) = cardsOwed(s) - 1 \/ ~hasCardsAvailable(t)
    /\ \E c \in Deck \ s.hand[s.currentPlayerIndex] :
          t.hand[s.currentPlayerIndex] = s.hand[s.currentPlayerIndex] \cup {c}

(* While both decks can give a card, no penalty is forgiven.                *)
DebtIsPaidCardByCard ==
    [][(\A side \in DrawSide : CanYield(state, side) # {})
          => debtShrinksByDraws(state, state')]_vars

(* The same while a card is left anywhere, as finishPenaltyDrawIfNeeded     *)
(* says: only when every source is exhausted is the remainder forgiven.     *)
DebtIsForgivenOnlyWhenExhausted ==
    [][hasCardsAvailable(state) => debtShrinksByDraws(state, state')]_vars

(* Paying a penalty is an exclusive phase: no card is played, and the turn  *)
(* leaves the payer only when the last card of the penalty is paid, unless  *)
(* no card is left: nobody passes a penalty on.                             *)
PenaltyIsExclusive ==
    [][state.pendingPenaltyDraws > 0 =>
         /\ state'.roundNumber = state.roundNumber =>
               \A p \in Seat : state.hand[p] \subseteq state'.hand[p]
         /\ state'.currentPlayerIndex # state.currentPlayerIndex =>
               \/ state.pendingPenaltyDraws = 1 /\ cardsOwed(state') < cardsOwed(state)
               \/ ~hasCardsAvailable(state')]_vars

(* The player who acts once every pending penalty is paid.                  *)
continuation(s) ==
    IF s.pendingPenaltyQueue # <<>>
    THEN s.pendingPenaltyQueue[Len(s.pendingPenaltyQueue)].nextPlayerIndex
    ELSE IF s.pendingPenaltyDraws > 0
    THEN s.pendingPenaltyNextPlayerIndex
    ELSE s.currentPlayerIndex

(* Who draws for a +2 or a Wild Draw Four played by another loses the turn: *)
(* when the last of those cards is drawn, play goes on with somebody else.  *)
VictimIsSkipped ==
    [][/\ state.pendingPenaltyDraws = 1
       /\ state.pendingPenaltySourcePlayerId # null
       /\ state'.hand # state.hand /\ ~terminal(state')
       => continuation(state') # state.currentPlayerIndex]_vars

(* Who must pay, or answer a stack, is not left waiting for ever, though    *)
(* others are caught and stack more cards meanwhile: the debt is paid, or   *)
(* the round ends.  FairSpec: the turn timer acts for an idle player.       *)
DebtIsEventuallyPaid ==
    cardsOwed(state) > 0 ~> (cardsOwed(state) = 0 \/ terminal(state))
=============================================================================
