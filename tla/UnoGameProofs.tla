---------------------------- MODULE UnoGameProofs ----------------------------
(***************************************************************************)
(* Theorems about the game of UnoGame, for every deck, number of players,  *)
(* deal and choice of house rules: first what the operators of GameEngine  *)
(* and the plugins of HouseRules preserve, then the actions of the game,   *)
(* where the cards are and who holds them.                                 *)
(***************************************************************************)
EXTENDS UnoProperties, WellFoundedInduction, FiniteSetTheorems, SequenceTheorems,
        TLAPS

(* The type of a game state, and the facts its handlers rely on: somebody   *)
(* is still in the game, the discard pile shows a card, an active penalty   *)
(* knows whose turn comes next.                                             *)
Sound(s) ==
    /\ IsGameState(s)
    /\ AliveSeats(s.eliminated) # {}
    /\ s.discardPile # <<>>
    /\ s.pendingPenaltyDraws > 0 => s.pendingPenaltyNextPlayerIndex # null

(***************************************************************************)
(* Seats                                                                   *)
(***************************************************************************)

lessThan == {p \in Nat \X Nat : p[1] < p[2]}

(* A non-empty set of natural numbers has a smallest element.               *)
LEMMA LeastElement ==
    ASSUME NEW T \in SUBSET Nat, T # {}
    PROVE  \E x \in T : \A y \in T : x <= y
<1>1. IsWellFoundedOn(lessThan, Nat)
  BY NatLessThanWellFounded DEF OpToRel, lessThan
<1>2. PICK x \in T : \A y \in T : <<y, x>> \notin lessThan
  BY <1>1, WFMin, Zenon
<1>3. ASSUME NEW y \in T PROVE x <= y
  <2>1. <<y, x>> \notin lessThan
    BY <1>2
  <2>2. y < x => <<y, x>> \in lessThan
    BY DEF lessThan
  <2> QED
    BY <2>1, <2>2
<1> QED
  BY <1>2, <1>3

LEMMA StepsAreNatural ==
    ASSUME NEW i \in Seat, NEW j \in Seat, NEW direction
    PROVE  Steps(i, j, direction) \in Nat
BY NAssumption DEF Steps, Seat

(* getNextAliveIndex finds the nearest player who is still in the game.      *)
LEMMA NextIsNearest ==
    ASSUME NEW eliminated, AliveSeats(eliminated) # {},
           NEW i \in Seat, NEW direction
    PROVE  LET next == getNextAliveIndex(eliminated, i, direction)
           IN  /\ next \in AliveSeats(eliminated)
               /\ \A k \in AliveSeats(eliminated) :
                     Steps(i, next, direction) <= Steps(i, k, direction)
<1> DEFINE alive == AliveSeats(eliminated)
           T == {Steps(i, j, direction) : j \in alive}
<1>1. T \in SUBSET Nat /\ T # {}
  BY StepsAreNatural DEF AliveSeats
<1> HIDE DEF T
<1>2. PICK x \in T : \A y \in T : x <= y
  BY <1>1, LeastElement
<1>3. \E j \in alive : \A k \in alive :
          Steps(i, j, direction) <= Steps(i, k, direction)
  BY <1>1, <1>2 DEF T
<1> QED
  BY <1>3 DEF getNextAliveIndex

LEMMA NextIsAlive ==
    ASSUME NEW eliminated, AliveSeats(eliminated) # {},
           NEW i \in Seat, NEW direction
    PROVE  getNextAliveIndex(eliminated, i, direction) \in AliveSeats(eliminated)
BY NextIsNearest

LEMMA NextIsSeat ==
    ASSUME NEW s, Sound(s), NEW i \in Seat, NEW direction
    PROVE  /\ getNextAliveIndex(s.eliminated, i, direction) \in Seat
           /\ skipNextAliveIndex(s.eliminated, i, direction) \in Seat
BY NextIsAlive DEF Sound, AliveSeats, skipNextAliveIndex

(***************************************************************************)
(* Scores                                                                  *)
(***************************************************************************)
LEMMA HandScoreIsNatural ==
    ASSUME NEW hand \in SUBSET Deck
    PROVE  HandScore(hand) \in Nat
<1> DEFINE points == {cp \in hand \X (1..50) : cp[2] <= getCardScore(cp[1])}
<1>1. IsFiniteSet(hand)
  BY DeckAssumption, FS_Subset
<1>2. IsFiniteSet(1..50)
  <2>1. 1 \in Int /\ 50 \in Int
    OBVIOUS
  <2> QED
    BY <2>1, FS_Interval, Zenon
<1>3. IsFiniteSet(hand \X (1..50))
  BY <1>1, <1>2, FS_Product
<1>4. points \in SUBSET (hand \X (1..50))
  OBVIOUS
<1>5. IsFiniteSet(points)
  BY <1>3, <1>4, FS_Subset
<1> QED
  BY <1>5, FS_CardinalityType DEF HandScore

LEMMA RoundScoreIsNatural ==
    ASSUME NEW s, Sound(s), NEW p \in Seat
    PROVE  RoundScore(s, p) \in Nat
<1>1. UNION {s.hand[q] : q \in Seat \ {p}} \in SUBSET Deck
  BY SMTT(40) DEF Sound, IsGameState
<1> QED
  BY <1>1, HandScoreIsNatural DEF RoundScore

(***************************************************************************)
(* Penalties                                                               *)
(***************************************************************************)
LEMMA DefaultsSound ==
    ASSUME NEW s, Sound(s)
    PROVE  Sound(withPenaltyStateDefaults(s))
BY SMTT(40) DEF Sound, IsGameState, StateField, withPenaltyStateDefaults

LEMMA CheckRoundEndSound ==
    ASSUME NEW s, Sound(s), NEW p \in Seat
    PROVE  Sound(checkRoundEnd(s, p))
<1> DEFINE total == s.score[p] + RoundScore(s, p)
           ended == [s EXCEPT !.score[p] = total,
                              !.roundWins[p] = @ + 1,
                              !.phase = IF total >= TargetScore
                                        THEN "game_over" ELSE "round_end",
                              !.winnerId = p]
<1>1. s.score[p] \in Nat
  BY DEF Sound, IsGameState
<1>2. total \in Nat
  BY <1>1, RoundScoreIsNatural
<1> HIDE DEF total
<1>3. Sound(ended)
  <2>1. IsGameState(ended)
    BY <1>2, SMTT(40) DEF Sound, IsGameState, StateField, Phase, TerminalPhase
  <2> QED
    BY <2>1 DEF Sound, IsGameState, StateField
<1> HIDE DEF ended
<1>4. Sound(withPenaltyStateDefaults(ended))
  BY <1>3, DefaultsSound
<1> QED
  BY <1>4 DEF checkRoundEnd, ended, total

LEMMA StartPenaltyDrawSound ==
    ASSUME NEW s, Sound(s), NEW p \in Seat, NEW count \in Nat,
           NEW next \in Seat, NEW source \in Seat \cup {null}
    PROVE  Sound(startPenaltyDraw(s, p, count, next, source))
<1> DEFINE entry == [playerId |-> p, count |-> count,
                     nextPlayerIndex |-> next, sourcePlayerId |-> source]
<1>1. entry \in PendingPenaltyDraw
  BY DEF PendingPenaltyDraw
<1> HIDE DEF entry
<1>2. Sound([s EXCEPT !.pendingPenaltyQueue = Append(@, entry)])
  <2> DEFINE queue == Append(s.pendingPenaltyQueue, entry)
  <2>1. queue \in Seq(PendingPenaltyDraw)
    BY <1>1 DEF Sound, IsGameState
  <2> HIDE DEF queue
  <2>2. Sound([s EXCEPT !.pendingPenaltyQueue = queue])
    BY <2>1, ZenonT(60) DEF Sound, IsGameState, StateField
  <2> QED
    BY <2>2 DEF queue
<1>3. Sound([s EXCEPT !.currentPlayerIndex = p,
                      !.pendingPenaltyDraws = count,
                      !.pendingPenaltyNextPlayerIndex = next,
                      !.pendingPenaltySourcePlayerId = source])
  BY SettingsAssumption, ZenonT(60) DEF Sound, IsGameState, StateField
<1> QED
  BY <1>2, <1>3 DEF startPenaltyDraw, entry

LEMMA StartQueuedPenaltySound ==
    ASSUME NEW s, Sound(s), s.pendingPenaltyQueue # <<>>
    PROVE  Sound(startQueuedPenalty(s))
<1> DEFINE first == Head(s.pendingPenaltyQueue)
           rest == Tail(s.pendingPenaltyQueue)
           popped == [s EXCEPT !.pendingPenaltyQueue = rest]
<1>1. first \in PendingPenaltyDraw /\ rest \in Seq(PendingPenaltyDraw)
  BY HeadTailProperties DEF Sound, IsGameState
<1> HIDE DEF rest
<1>2. Sound(popped)
  BY <1>1 DEF Sound, IsGameState, StateField
<1> HIDE DEF first, popped
<1>3. Sound(startPenaltyDraw(popped, first.playerId, first.count,
                             first.nextPlayerIndex, first.sourcePlayerId))
  BY <1>1, <1>2, StartPenaltyDrawSound DEF PendingPenaltyDraw
<1> QED
  BY <1>3 DEF startQueuedPenalty, first, popped, rest

LEMMA DrainPenaltyQueueSound ==
    ASSUME NEW s, Sound(s)
    PROVE  Sound(drainPenaltyQueue(s))
BY StartQueuedPenaltySound DEF drainPenaltyQueue

LEMMA FinishPenaltyDrawSound ==
    ASSUME NEW s, Sound(s), s.pendingPenaltyDraws > 0,
           NEW lastAction \in LastAction
    PROVE  Sound(finishPenaltyDrawIfNeeded(s, lastAction))
<1> DEFINE paid == [s EXCEPT !.pendingPenaltyDraws = 0,
                             !.pendingPenaltyNextPlayerIndex = null,
                             !.pendingPenaltySourcePlayerId = null,
                             !.lastAction = lastAction]
           finished == [paid EXCEPT !.currentPlayerIndex =
                                       s.pendingPenaltyNextPlayerIndex]
           fewer == [s EXCEPT !.pendingPenaltyDraws = @ - 1,
                              !.lastAction = lastAction]
<1>1. Sound(paid) /\ paid.pendingPenaltyQueue = s.pendingPenaltyQueue
  BY SMTT(40) DEF Sound, IsGameState, StateField
<1>2. Sound(finished)
  <2>1. s.pendingPenaltyNextPlayerIndex \in Seat
    BY DEF Sound, IsGameState
  <2> HIDE DEF paid
  <2> QED
    BY <1>1, <2>1, ZenonT(60) DEF Sound, IsGameState, StateField
<1>3. s.pendingPenaltyDraws > 1 => Sound(fewer)
  <2> DEFINE less == s.pendingPenaltyDraws - 1
  <2>1. less \in Nat
    BY SMTT(40) DEF Sound, IsGameState
  <2>2. s.pendingPenaltyNextPlayerIndex # null
    BY DEF Sound
  <2> HIDE DEF less
  <2>3. Sound([s EXCEPT !.pendingPenaltyDraws = less,
                        !.lastAction = lastAction])
    BY <2>1, <2>2 DEF Sound, IsGameState, StateField
  <2> QED
    BY <2>3 DEF less
<1>4. s.pendingPenaltyQueue # <<>> => Sound(startQueuedPenalty(paid))
  BY <1>1, StartQueuedPenaltySound
<1>5. s.pendingPenaltySourcePlayerId # null =>
         Sound(checkRoundEnd(finished, s.pendingPenaltySourcePlayerId))
  BY <1>2, CheckRoundEndSound DEF Sound, IsGameState
<1> HIDE DEF paid, finished, fewer
<1> QED
  BY <1>1, <1>2, <1>3, <1>4, <1>5
     DEF finishPenaltyDrawIfNeeded, paid, finished, fewer

(***************************************************************************)
(* Cards: drawing and discarding                                           *)
(***************************************************************************)
LEMMA TopCardInDeck ==
    ASSUME NEW s, Sound(s)
    PROVE  topCard(s) \in Deck
BY DEF Sound, IsGameState, topCard

LEMMA WithSideRefilledSound ==
    ASSUME NEW s, Sound(s), NEW side \in DrawSide
    PROVE  Sound(withSideRefilled(s, side))
<1> DEFINE pile == s.discardPile
           available == Len(pile) - 1
           takeCount == IF s.deckInitialCount[side] < available
                        THEN s.deckInitialCount[side] ELSE available
           taken == {pile[i] : i \in 1..takeCount}
           left == SubSeq(pile, takeCount + 1, Len(pile))
           colors == [w \in Wild |-> IF w \in taken THEN null
                                     ELSE s.chosenColor[w]]
<1> SUFFICES ASSUME Len(pile) > 1
             PROVE  Sound([s EXCEPT !.deck[side] = taken,
                                    !.discardPile = left,
                                    !.chosenColor = colors])
  BY DEF withSideRefilled
<1>1. pile \in Seq(Deck) /\ s.deckInitialCount[side] \in Nat
  BY DEF Sound, IsGameState
<1>2. takeCount \in Nat /\ takeCount < Len(pile)
  BY <1>1
<1> HIDE DEF takeCount
<1>3. taken \in SUBSET Deck
  BY <1>1, <1>2
<1>4. left \in Seq(Deck) /\ left # <<>>
  <2>1. \A i \in (takeCount + 1)..Len(pile) : pile[i] \in Deck
    BY <1>1, <1>2
  <2>2. left \in Seq(Deck) /\ Len(left) = Len(pile) - takeCount
    BY <1>1, <1>2, <2>1, SubSeqProperties
  <2> HIDE DEF left
  <2>3. Len(left) # 0
    BY <1>1, <1>2, <2>2
  <2> QED
    BY <2>2, <2>3
<1>5. colors \in [Wild -> Color \cup {null}]
  BY DEF Sound, IsGameState
<1> HIDE DEF taken, left, colors
<1> QED
  BY <1>3, <1>4, <1>5, ZenonT(60) DEF Sound, IsGameState, StateField

LEMMA DrawCardsSound ==
    ASSUME NEW s, Sound(s), NEW p \in Seat, NEW side \in DrawSide,
           NEW card \in Deck
    PROVE  Sound(drawCards(s, p, side, card))
<1> DEFINE refilled == withSideRefilled(s, side)
           rest == refilled.deck[side] \ {card}
           held == refilled.hand[p] \cup {card}
<1>1. Sound(refilled)
  BY WithSideRefilledSound
<1> HIDE DEF refilled
<1>2. rest \in SUBSET Deck /\ held \in SUBSET Deck
  BY <1>1 DEF Sound, IsGameState
<1> HIDE DEF rest, held
<1>3. Sound([refilled EXCEPT !.deck[side] = rest, !.hand[p] = held,
                             !.calledUno[p] = FALSE,
                             !.unoCaught[p] = FALSE])
  BY <1>1, <1>2, ZenonT(60) DEF Sound, IsGameState, StateField
<1> QED
  BY <1>1, <1>3 DEF drawCards, refilled, rest, held

(* Drawing touches nothing but the cards and the UNO flags of the drawer.   *)
LEMMA DrawCardsKeeps ==
    ASSUME NEW s, Sound(s), NEW p \in Seat, NEW side \in DrawSide, NEW card
    PROVE  LET t == drawCards(s, p, side, card)
           IN  /\ t.pendingPenaltyDraws = s.pendingPenaltyDraws
               /\ t.phase = s.phase
BY DEF Sound, IsGameState, StateField, drawCards, withSideRefilled

LEMMA WithCardDiscardedSound ==
    ASSUME NEW s, Sound(s), NEW p \in Seat, NEW c \in Deck
    PROVE  Sound(withCardDiscarded(s, p, c))
<1> DEFINE rest == s.hand[p] \ {c}
           pile == Append(s.discardPile, c)
           acted == Acted("PLAY_CARD", p)
<1>1. rest \in SUBSET Deck
  BY DEF Sound, IsGameState
<1>2. pile \in Seq(Deck) /\ pile # <<>>
  <2>1. s.discardPile \in Seq(Deck)
    BY DEF Sound, IsGameState
  <2> QED
    BY <2>1, AppendProperties
<1>3. acted \in LastAction
  BY DEF Acted, LastAction, ActionType
<1> HIDE DEF rest, pile, acted
<1>4. Sound([s EXCEPT !.hand[p] = rest, !.discardPile = pile,
                      !.lastAction = acted])
  BY <1>1, <1>2, <1>3, ZenonT(60) DEF Sound, IsGameState, StateField
<1> QED
  BY <1>4 DEF withCardDiscarded, rest, pile, acted

LEMMA WithUnoFlagsSound ==
    ASSUME NEW s, Sound(s), NEW p \in Seat
    PROVE  Sound(withUnoFlagsAfterPlay(s, p))
<1> DEFINE called == s.calledUno[p] /\ Cardinality(s.hand[p]) = 1
<1>1. called \in BOOLEAN
  OBVIOUS
<1> HIDE DEF called
<1>2. Sound([s EXCEPT !.calledUno[p] = called, !.unoCaught[p] = FALSE])
  BY <1>1, ZenonT(60) DEF Sound, IsGameState, StateField
<1> QED
  BY <1>2 DEF withUnoFlagsAfterPlay, called

(***************************************************************************)
(* PLAY_CARD, DRAW_CARD and PASS                                           *)
(***************************************************************************)
LEMMA WithCardEffectSound ==
    ASSUME NEW s, Sound(s), NEW p \in Seat, NEW c \in Deck
    PROVE  Sound(withCardEffect(s, p, c))
<1> DEFINE next == getNextAliveIndex(s.eliminated, p, s.direction)
           afterNext == skipNextAliveIndex(s.eliminated, p, s.direction)
           reversed == reverseDirection(s.direction)
           turned == IF countAlivePlayers(s.eliminated) = 2
                     THEN p ELSE getNextAliveIndex(s.eliminated, p, reversed)
           colored == [s EXCEPT !.currentColor = color[c]]
<1>1. next \in Seat /\ afterNext \in Seat /\ turned \in Seat
  BY NextIsSeat
<1>2. color[c] \in Color \cup {null} /\ type[c] \in CardType
  BY DeckAssumption
<1>3. reversed \in Direction
  BY DEF reverseDirection, Direction
<1> HIDE DEF next, afterNext, turned, reversed
<1>4. CASE type[c] = "number"
  <2>1. Sound([s EXCEPT !.currentColor = color[c],
                        !.currentPlayerIndex = next])
    BY <1>1, <1>2, ZenonT(60) DEF Sound, IsGameState, StateField
  <2> QED
    BY <1>4, <2>1 DEF withCardEffect, next
<1>5. CASE type[c] = "skip"
  <2>1. Sound([s EXCEPT !.currentColor = color[c],
                        !.currentPlayerIndex = afterNext])
    BY <1>1, <1>2, ZenonT(60) DEF Sound, IsGameState, StateField
  <2> QED
    BY <1>5, <2>1 DEF withCardEffect, afterNext
<1>6. CASE type[c] = "reverse"
  <2>1. Sound([s EXCEPT !.currentColor = color[c], !.direction = reversed,
                        !.currentPlayerIndex = turned])
    BY <1>1, <1>2, <1>3, ZenonT(60) DEF Sound, IsGameState, StateField
  <2> QED
    BY <1>6, <2>1 DEF withCardEffect, turned, reversed
<1>7. CASE type[c] = "draw_two"
  <2>1. Sound(colored)
    BY <1>2, ZenonT(60) DEF Sound, IsGameState, StateField
  <2> HIDE DEF colored
  <2>2. Sound(startPenaltyDraw(colored, next, 2, afterNext, p))
    BY <1>1, <2>1, StartPenaltyDrawSound
  <2> QED
    BY <1>7, <2>2 DEF withCardEffect, next, afterNext, colored
<1>8. CASE type[c] = "wild"
  <2>1. Sound([s EXCEPT !.phase = "choosing_color"])
    BY ZenonT(60) DEF Sound, IsGameState, StateField, Phase
  <2> QED
    BY <1>8, <2>1 DEF withCardEffect
<1>9. CASE type[c] = "wild_draw_four"
  <2>1. Sound([s EXCEPT !.phase = "choosing_color",
                        !.pendingDrawPlayerId = next])
    BY <1>1, ZenonT(60) DEF Sound, IsGameState, StateField, Phase
  <2> QED
    BY <1>9, <2>1 DEF withCardEffect, next
<1> QED
  BY <1>2, <1>4, <1>5, <1>6, <1>7, <1>8, <1>9 DEF CardType

LEMMA HandlePlayCardSound ==
    ASSUME NEW s, Sound(s), NEW p \in Seat, NEW c \in Deck
    PROVE  Sound(handlePlayCard(s, p, c))
<1> DEFINE discarded == withCardDiscarded(s, p, c)
           flagged == withUnoFlagsAfterPlay(discarded, p)
           played == withCardEffect(flagged, p, c)
<1>1. Sound(discarded)
  BY WithCardDiscardedSound
<1> HIDE DEF discarded
<1>2. Sound(flagged)
  BY <1>1, WithUnoFlagsSound
<1> HIDE DEF flagged
<1>3. Sound(played)
  BY <1>2, WithCardEffectSound
<1> HIDE DEF played
<1>4. Sound(checkRoundEnd(played, p))
  BY <1>3, CheckRoundEndSound
<1> QED
  BY <1>4 DEF handlePlayCard, played, flagged, discarded

(* A +2 that does not end the round starts a penalty, which knows who plays *)
(* after it.                                                                *)
LEMMA DrawTwoNamesNext ==
    ASSUME NEW s, Sound(s), NEW p \in Seat, NEW c \in Deck,
           s.phase = "playing", s.pendingPenaltyDraws = 0,
           type[c] = "draw_two", ~terminal(handlePlayCard(s, p, c))
    PROVE  handlePlayCard(s, p, c).pendingPenaltyNextPlayerIndex \in Seat
<1> DEFINE flagged == withUnoFlagsAfterPlay(withCardDiscarded(s, p, c), p)
           colored == [flagged EXCEPT !.currentColor = color[c]]
           next == getNextAliveIndex(flagged.eliminated, p, flagged.direction)
           afterNext == skipNextAliveIndex(flagged.eliminated, p,
                                           flagged.direction)
           played == startPenaltyDraw(colored, next, 2, afterNext, p)
<1>1. /\ Sound(flagged)
      /\ flagged.phase = "playing" /\ flagged.pendingPenaltyDraws = 0
  <2>1. Sound(flagged)
    BY WithCardDiscardedSound, WithUnoFlagsSound
  <2>2. flagged.phase = "playing" /\ flagged.pendingPenaltyDraws = 0
    BY DEF Sound, IsGameState, StateField, withUnoFlagsAfterPlay,
           withCardDiscarded
  <2> QED
    BY <2>1, <2>2
<1> HIDE DEF flagged
<1>2. afterNext \in Seat
  BY <1>1, NextIsSeat
<1> HIDE DEF next, afterNext
<1>3. played.pendingPenaltyNextPlayerIndex \in Seat
  BY <1>1, <1>2 DEF startPenaltyDraw, Sound, IsGameState, StateField
<1>4. withCardEffect(flagged, p, c) = played
  BY DEF withCardEffect, next, afterNext
<1> HIDE DEF played
<1>5. handlePlayCard(s, p, c) = checkRoundEnd(played, p)
  BY <1>4 DEF handlePlayCard, flagged
<1>6. checkRoundEnd(played, p) = played \/ terminal(checkRoundEnd(played, p))
  BY DEF checkRoundEnd, withPenaltyStateDefaults, terminal, TerminalPhase
<1> QED
  BY <1>3, <1>5, <1>6

LEMMA ActedIsLastAction ==
    ASSUME NEW actionType \in ActionType \cup {null},
           NEW p \in Seat \cup {null}
    PROVE  Acted(actionType, p) \in LastAction
BY DEF Acted, LastAction

LEMMA HandleDrawCardSound ==
    ASSUME NEW s, Sound(s), NEW p \in Seat, NEW side \in DrawSide,
           NEW card \in Deck
    PROVE  Sound(handleDrawCard(s, p, side, card))
<1> DEFINE drawn == drawCards(s, p, side, card)
           acted == Acted("DRAW_CARD", p)
<1>1. Sound(drawn) /\ drawn.pendingPenaltyDraws = s.pendingPenaltyDraws
  BY DrawCardsSound, DrawCardsKeeps
<1>2. acted \in LastAction
  BY ActedIsLastAction DEF ActionType
<1> HIDE DEF drawn, acted
<1>3. s.pendingPenaltyDraws > 0 =>
         Sound(finishPenaltyDrawIfNeeded(drawn, acted))
  BY <1>1, <1>2, FinishPenaltyDrawSound
<1>4. Sound([drawn EXCEPT !.lastAction = acted])
  BY <1>1, <1>2, ZenonT(60) DEF Sound, IsGameState, StateField
<1> QED
  BY <1>3, <1>4 DEF handleDrawCard, drawn, acted

LEMMA HandlePassSound ==
    ASSUME NEW s, Sound(s), NEW p \in Seat
    PROVE  Sound(handlePass(s, p))
<1> DEFINE acted == Acted("PASS", p)
           next == getNextAliveIndex(s.eliminated, p, s.direction)
           passed == [s EXCEPT !.lastAction = acted]
           advanced == [passed EXCEPT !.currentPlayerIndex = next]
           drawn == [passed EXCEPT !.phase = "round_end", !.winnerId = null]
<1>1. acted \in LastAction
  BY ActedIsLastAction DEF ActionType
<1>2. next \in Seat
  BY NextIsSeat
<1> HIDE DEF acted, next
<1>3. Sound(passed)
  BY <1>1 DEF Sound, IsGameState, StateField
<1> HIDE DEF passed
<1>4. Sound(advanced)
  BY <1>2, <1>3, ZenonT(60) DEF Sound, IsGameState, StateField
<1>5. Sound(drawn)
  BY <1>3, ZenonT(60) DEF Sound, IsGameState, StateField, Phase, TerminalPhase
<1> HIDE DEF advanced, drawn
<1>6. Sound(withPenaltyStateDefaults(advanced))
      /\ Sound(withPenaltyStateDefaults(drawn))
  BY <1>4, <1>5, DefaultsSound
<1> QED
  BY <1>4, <1>6 DEF handlePass, advanced, drawn, passed, acted, next

(***************************************************************************)
(* Colours, challenges and UNO calls                                       *)
(***************************************************************************)
LEMMA HandleChooseColorSound ==
    ASSUME NEW s, Sound(s), NEW p \in Seat, NEW chosen \in Color
    PROVE  Sound(handleChooseColor(s, p, chosen))
<1> DEFINE acted == Acted("CHOOSE_COLOR", p)
           colors == [s.chosenColor EXCEPT ![topCard(s)] = chosen]
           next == getNextAliveIndex(s.eliminated, p, s.direction)
           colored == [s EXCEPT !.chosenColor = colors,
                                !.currentColor = chosen,
                                !.lastAction = acted]
           challenged == [colored EXCEPT !.phase = "challenging"]
           playing == [colored EXCEPT !.phase = "playing",
                                      !.currentPlayerIndex = next]
<1>1. acted \in LastAction
  BY ActedIsLastAction DEF ActionType
<1>2. next \in Seat
  BY NextIsSeat
<1>3. colors \in [Wild -> Color \cup {null}]
  BY DEF Sound, IsGameState
<1> HIDE DEF acted, next, colors
<1>4. Sound(colored)
  BY <1>1, <1>3 DEF Sound, IsGameState, StateField
<1> HIDE DEF colored
<1>5. Sound(challenged)
  BY <1>4, ZenonT(60) DEF Sound, IsGameState, StateField, Phase
<1>6. Sound(playing)
  BY <1>2, <1>4, ZenonT(60) DEF Sound, IsGameState, StateField, Phase
<1> HIDE DEF challenged, playing
<1>7. Sound(drainPenaltyQueue(playing))
  BY <1>6, DrainPenaltyQueueSound
<1> QED
  BY <1>5, <1>7
     DEF handleChooseColor, challenged, playing, colored, colors, next, acted

LEMMA SettleWildDrawFourSound ==
    ASSUME NEW s, Sound(s), NEW lastAction \in LastAction,
           NEW penaltyPlayer \in Seat, NEW count \in Nat,
           NEW source \in Seat \cup {null}
    PROVE  Sound(settleWildDrawFour(s, lastAction, penaltyPlayer, count, source))
<1> DEFINE settled == [s EXCEPT !.phase = "playing",
                                !.pendingDrawPlayerId = null,
                                !.pendingRevengeDraws = 0,
                                !.lastAction = lastAction]
           owed == count + s.pendingRevengeDraws
           next == getNextAliveIndex(s.eliminated, penaltyPlayer, s.direction)
<1>1. Sound(settled)
  BY ZenonT(60) DEF Sound, IsGameState, StateField, Phase
<1>2. owed \in Nat
  BY SMTT(40) DEF Sound, IsGameState
<1>3. next \in Seat
  BY NextIsSeat
<1> HIDE DEF settled, owed, next
<1>4. Sound(startPenaltyDraw(settled, penaltyPlayer, owed, next, source))
  BY <1>1, <1>2, <1>3, StartPenaltyDrawSound
<1> QED
  BY <1>4 DEF settleWildDrawFour, settled, owed, next

LEMMA HandleChallengeSound ==
    ASSUME NEW s, Sound(s), NEW p \in Seat
    PROVE  Sound(handleChallenge(s, p))
<1>1. Acted("CHALLENGE", p) \in LastAction
  BY ActedIsLastAction DEF ActionType
<1>2. s.currentPlayerIndex \in Seat
  BY DEF Sound, IsGameState
<1> QED
  BY <1>1, <1>2, SettleWildDrawFourSound DEF handleChallenge

LEMMA HandleAcceptSound ==
    ASSUME NEW s, Sound(s), NEW p \in Seat
    PROVE  Sound(handleAccept(s, p))
<1>1. Acted("ACCEPT", p) \in LastAction
  BY ActedIsLastAction DEF ActionType
<1>2. s.currentPlayerIndex \in Seat
  BY DEF Sound, IsGameState
<1> QED
  BY <1>1, <1>2, SettleWildDrawFourSound DEF handleAccept

LEMMA HandleCallUnoSound ==
    ASSUME NEW s, Sound(s), NEW p \in Seat
    PROVE  Sound(handleCallUno(s, p))
<1> DEFINE acted == Acted("CALL_UNO", p)
<1>1. acted \in LastAction
  BY ActedIsLastAction DEF ActionType
<1> HIDE DEF acted
<1>2. Sound([s EXCEPT !.calledUno[p] = TRUE, !.unoCaught[p] = FALSE,
                      !.lastAction = acted])
  BY <1>1, ZenonT(60) DEF Sound, IsGameState, StateField
<1> QED
  BY <1>2 DEF handleCallUno, acted

LEMMA HandleCatchUnoSound ==
    ASSUME NEW s, Sound(s), NEW target \in Seat, NEW count \in Nat
    PROVE  Sound(handleCatchUno(s, target, count))
<1> DEFINE acted == Acted("CATCH_UNO", null)
           caught == [s EXCEPT !.unoCaught[target] = TRUE,
                               !.lastAction = acted]
<1>1. acted \in LastAction
  BY ActedIsLastAction DEF ActionType
<1> HIDE DEF acted
<1>2. Sound(caught)
  BY <1>1, ZenonT(60) DEF Sound, IsGameState, StateField
<1>3. s.currentPlayerIndex \in Seat
  BY DEF Sound, IsGameState
<1> HIDE DEF caught
<1>4. Sound(startPenaltyDraw(caught, target, count, s.currentPlayerIndex, null))
  BY <1>2, <1>3, StartPenaltyDrawSound
<1> QED
  BY <1>4 DEF handleCatchUno, caught, acted

(***************************************************************************)
(* Post-process plugins                                                    *)
(***************************************************************************)
LEMMA ZeroRotateSound ==
    ASSUME NEW before, NEW after, Sound(after), NEW c
    PROVE  Sound(zeroRotate(before, after, c))
<1> DEFINE hands == rotateHands(after.hand, after.eliminated, after.direction)
<1>1. hands \in [Seat -> SUBSET Deck]
  <2>1. \A d : \A i \in Seat : getNextAliveIndex(after.eliminated, i, d) \in Seat
    BY NextIsSeat
  <2> QED
    BY <2>1 DEF rotateHands, Sound, IsGameState
<1> HIDE DEF hands
<1>2. Sound([after EXCEPT !.hand = hands])
  BY <1>1 DEF Sound, IsGameState, StateField
<1> QED
  BY <1>2 DEF zeroRotate, hands

LEMMA SevenSwapSound ==
    ASSUME NEW before, Sound(before), NEW after, Sound(after), NEW c
    PROVE  Sound(sevenSwapPost(before, after, c))
<1>1. before.currentPlayerIndex \in Seat
  BY DEF Sound, IsGameState
<1>2. Sound([after EXCEPT !.phase = "choosing_swap_target",
                          !.currentPlayerIndex = before.currentPlayerIndex])
  BY <1>1, ZenonT(60) DEF Sound, IsGameState, StateField, Phase
<1> QED
  BY <1>2 DEF sevenSwapPost

(* revengeMode adds its cards to the penalty the +2 has just started, and   *)
(* takes over who plays after it.                                           *)
LEMMA RevengeModeSound ==
    ASSUME NEW before, Sound(before), NEW after, Sound(after), NEW c,
           type[c] = "draw_two" /\ ~terminal(after) =>
              after.pendingPenaltyNextPlayerIndex \in Seat
    PROVE  Sound(revengeMode(before, after, c))
<1> DEFINE victim == getNextAliveIndex(before.eliminated,
                                       before.currentPlayerIndex,
                                       before.direction)
           more == after.pendingRevengeDraws + 4
<1>1. victim \in Seat
  <2>1. before.currentPlayerIndex \in Seat
    BY DEF Sound, IsGameState
  <2> QED
    BY <2>1, NextIsSeat
<1>2. more \in Nat
  <2>1. after.pendingRevengeDraws \in Nat
    BY DEF Sound, IsGameState
  <2> QED
    BY <2>1
<1> HIDE DEF victim, more
<1>3. Sound([after EXCEPT !.pendingRevengeDraws = more])
  BY <1>2, ZenonT(60) DEF Sound, IsGameState, StateField
<1>4. type[c] = "draw_two" /\ ~terminal(after) =>
         Sound(startPenaltyDraw(after, victim, 2,
                                after.pendingPenaltyNextPlayerIndex, null))
  BY <1>1, StartPenaltyDrawSound
<1> QED
  BY <1>3, <1>4 DEF revengeMode, victim, more

LEMMA MultiPlayPostSound ==
    ASSUME NEW before, Sound(before), NEW after, Sound(after), NEW c
    PROVE  Sound(multiPlayPost(before, after, c))
<1>1. before.currentPlayerIndex \in Seat
  BY DEF Sound, IsGameState
<1>2. Sound([after EXCEPT !.currentPlayerIndex = before.currentPlayerIndex])
  BY <1>1, ZenonT(60) DEF Sound, IsGameState, StateField
<1> QED
  BY <1>2 DEF multiPlayPost

LEMMA DoubleScoreSound ==
    ASSUME NEW before, Sound(before), NEW after, Sound(after)
    PROVE  Sound(doubleScore(before, after))
<1> DEFINE w == after.winnerId
           earned == after.score[w] - before.score[w]
           total == before.score[w] + earned * 2
<1> SUFFICES ASSUME w # null, earned > 0
             PROVE  Sound([after EXCEPT !.score[w] = total])
  BY DEF doubleScore, roundDecided
<1>1. before.score[w] \in Nat /\ after.score[w] \in Nat
  BY DEF Sound, IsGameState
<1>2. total \in Nat
  BY <1>1
<1> HIDE DEF total
<1>3. Sound([after EXCEPT !.score[w] = total])
  BY <1>2, ZenonT(60) DEF Sound, IsGameState, StateField
<1> QED
  BY <1>3

LEMMA TeamModeSound ==
    ASSUME NEW before, Sound(before), NEW after, Sound(after)
    PROVE  Sound(teamMode(before, after))
<1> DEFINE w == after.winnerId
           earned == after.score[w] - before.score[w]
           scores == [p \in Seat |->
                        IF p # w /\ after.teamId[p] = after.teamId[w]
                        THEN after.score[p] + earned
                        ELSE after.score[p]]
<1> SUFFICES ASSUME w # null, earned > 0
             PROVE  Sound([after EXCEPT !.score = scores])
  BY DEF teamMode, roundDecided
<1>1. before.score[w] \in Nat /\ after.score[w] \in Nat
      /\ \A p \in Seat : after.score[p] \in Nat
  BY DEF Sound, IsGameState
<1>2. earned \in Nat
  BY <1>1
<1> HIDE DEF earned
<1>3. scores \in [Seat -> Nat]
  BY <1>1, <1>2
<1> HIDE DEF scores
<1> QED
  BY <1>3, ZenonT(60) DEF Sound, IsGameState, StateField

LEMMA SeatIsFinite == IsFiniteSet(Seat) /\ Cardinality(Seat) = N
<1>1. 0 \in Int /\ N - 1 \in Int
  BY NAssumption
<1>2. IsFiniteSet(0..(N - 1))
      /\ Cardinality(0..(N - 1)) = IF 0 > N - 1 THEN 0 ELSE (N - 1) - 0 + 1
  BY <1>1, FS_Interval, Zenon
<1> QED
  BY <1>2, NAssumption DEF Seat

(* elimination never takes the last player out of the game.                 *)
LEMMA EliminationSound ==
    ASSUME NEW before, NEW after, Sound(after)
    PROVE  Sound(elimination(before, after))
<1> DEFINE alive == AliveSeats(after.eliminated)
           loser == CHOOSE p \in Seat : IsLoser(after, p)
           without == [after EXCEPT !.eliminated[loser] = TRUE]
           remaining == AliveSeats(without.eliminated)
           winner == CHOOSE p \in remaining : TRUE
<1> SUFFICES ASSUME Cardinality(alive) > 1, \E p \in Seat : IsLoser(after, p)
             PROVE  /\ Sound(without)
                    /\ Sound([without EXCEPT !.phase = "game_over",
                                             !.winnerId = winner])
  <2>1. IsFiniteSet(alive)
    BY SeatIsFinite, FS_Subset DEF AliveSeats
  <2>2. Cardinality(alive) \in Nat
    BY <2>1, FS_CardinalityType
  <2> HIDE DEF loser, winner, remaining
  <2>3. ~(Cardinality(alive) <= 1) <=> Cardinality(alive) > 1
    BY <2>2
  <2> HIDE DEF alive, without
  <2> QED
    BY <2>3 DEF elimination, alive, loser, without, remaining, winner
<1>1. loser \in Seat
  OBVIOUS
<1> HIDE DEF loser
<1>2. remaining = alive \ {loser}
  BY <1>1 DEF AliveSeats, Sound, IsGameState, StateField
<1>3. remaining # {}
  <2>1. IsFiniteSet(alive)
    BY SeatIsFinite, FS_Subset DEF AliveSeats
  <2>2. alive # {loser}
    BY <2>1, FS_Singleton
  <2>3. alive # {}
    BY FS_EmptySet
  <2> QED
    BY <1>2, <2>2, <2>3
<1>4. winner \in Seat
  BY <1>3 DEF AliveSeats
<1> HIDE DEF winner
<1>5. Sound(without)
  BY <1>1, <1>3 DEF Sound, IsGameState, StateField
<1> HIDE DEF without
<1>6. Sound([without EXCEPT !.phase = "game_over", !.winnerId = winner])
  BY <1>4, <1>5, ZenonT(60)
     DEF Sound, IsGameState, StateField, Phase, TerminalPhase
<1> QED
  BY <1>5, <1>6

LEMMA SettleRoundSound ==
    ASSUME NEW before, Sound(before), NEW after, Sound(after)
    PROVE  Sound(settleRound(before, after))
BY DoubleScoreSound, TeamModeSound, EliminationSound DEF settleRound

LEMMA PostProcessPlaySound ==
    ASSUME NEW before, Sound(before), NEW after, Sound(after), NEW c,
           type[c] = "draw_two" /\ ~terminal(after) =>
              after.pendingPenaltyNextPlayerIndex \in Seat
    PROVE  Sound(postProcessPlay(before, after, c))
<1> DEFINE rotated == zeroRotate(before, after, c)
           swapped == sevenSwapPost(before, rotated, c)
           avenged == revengeMode(before, swapped, c)
           continued == multiPlayPost(before, avenged, c)
<1>1. Sound(rotated)
  BY ZeroRotateSound
<1>2. Sound(swapped)
  BY <1>1, SevenSwapSound
<1>3. type[c] = "draw_two" => swapped = after
  BY DEF zeroRotate, sevenSwapPost, playedNumber, isNumberCard
<1> HIDE DEF rotated, swapped
<1>4. Sound(avenged)
  BY <1>2, <1>3, RevengeModeSound
<1> HIDE DEF avenged
<1>5. Sound(continued)
  BY <1>4, MultiPlayPostSound
<1> HIDE DEF continued
<1>6. Sound(settleRound(before, continued))
  BY <1>5, SettleRoundSound
<1> QED
  BY <1>6 DEF postProcessPlay, continued, avenged, swapped, rotated

LEMMA PostProcessDrawSound ==
    ASSUME NEW before, Sound(before), NEW after, Sound(after),
           NEW p \in Seat, NEW card \in Deck
    PROVE  Sound(postProcessDraw(before, after, p, card))
<1>1. Sound(forcedPlayAfterDraw(before, after, p, card))
  BY HandlePlayCardSound DEF forcedPlayAfterDraw
<1> QED
  BY <1>1, SettleRoundSound DEF postProcessDraw

LEMMA HandledPlaySound ==
    ASSUME NEW before, Sound(before), NEW result, Sound(result), NEW c
    PROVE  Sound(handledPlay(before, result, c))
<1>1. Sound(drainPenaltyQueue(result))
  BY DrainPenaltyQueueSound
<1> QED
  BY <1>1, PostProcessPlaySound DEF handledPlay

(***************************************************************************)
(* Plugins that handle a PLAY_CARD                                         *)
(***************************************************************************)
LEMMA LongerSideIsSide == ASSUME NEW s PROVE LongerSide(s) \in DrawSide
BY DEF LongerSide, DrawSide

LEMMA MisplayPenaltySound ==
    ASSUME NEW s, Sound(s), NEW p \in Seat
    PROVE  Sound(misplayPenalty(s, p))
<1>1. s.currentPlayerIndex \in Seat
  BY DEF Sound, IsGameState
<1> QED
  BY <1>1, StartPenaltyDrawSound DEF misplayPenalty

LEMMA DeflectionPlayedSound ==
    ASSUME NEW s, Sound(s), NEW p \in Seat, NEW c \in Deck
    PROVE  Sound(withDeflectionPlayed(s, p, c))
<1> DEFINE discarded == withCardDiscarded(s, p, c)
           turned == IF type[c] = "reverse"
                     THEN reverseDirection(discarded.direction)
                     ELSE discarded.direction
<1>1. Sound(discarded)
  BY WithCardDiscardedSound
<1> HIDE DEF discarded
<1>2. turned \in Direction /\ color[c] \in Color \cup {null}
  BY <1>1, DeckAssumption
     DEF Sound, IsGameState, reverseDirection, Direction
<1> HIDE DEF turned
<1>3. Sound([discarded EXCEPT !.currentColor = color[c], !.direction = turned])
  BY <1>1, <1>2, ZenonT(60) DEF Sound, IsGameState, StateField
<1> QED
  BY <1>3 DEF withDeflectionPlayed, discarded, turned

LEMMA DeflectionSound ==
    ASSUME NEW s, Sound(s), NEW p \in Seat, NEW c \in Deck
    PROVE  Sound(deflection(s, p, c))
<1> DEFINE played == withDeflectionPlayed(s, p, c)
           target == IF type[c] = "reverse" THEN s.currentPlayerIndex
                     ELSE getNextAliveIndex(s.eliminated, p, s.direction)
           next == getNextAliveIndex(s.eliminated, target, played.direction)
           turn == getNextAliveIndex(s.eliminated, p, played.direction)
           owed == 4 + s.pendingRevengeDraws
           answered == [played EXCEPT !.phase = "playing",
                                      !.pendingDrawPlayerId = null,
                                      !.pendingRevengeDraws = 0]
           passed == [played EXCEPT !.currentPlayerIndex = turn]
<1>1. Sound(played)
  BY DeflectionPlayedSound
<1>2. s.currentPlayerIndex \in Seat
  BY DEF Sound, IsGameState
<1>3. target \in Seat
  BY <1>2, NextIsSeat
<1> HIDE DEF target, played
<1>4. next \in Seat /\ turn \in Seat
  BY <1>3, NextIsSeat
<1>5. owed \in Nat
  <2>1. s.pendingRevengeDraws \in Nat
    BY DEF Sound, IsGameState
  <2> QED
    BY <2>1
<1> HIDE DEF next, turn, owed
<1>6. Sound(answered)
  BY <1>1, ZenonT(60) DEF Sound, IsGameState, StateField, Phase
<1>7. Sound(passed)
  BY <1>1, <1>4, ZenonT(60) DEF Sound, IsGameState, StateField
<1> HIDE DEF answered, passed
<1>8. Sound(startPenaltyDraw(checkRoundEnd(answered, p), target, owed, next, p))
  BY <1>3, <1>4, <1>5, <1>6, CheckRoundEndSound, StartPenaltyDrawSound
<1>9. Sound(checkRoundEnd(passed, p))
  BY <1>7, CheckRoundEndSound
<1> QED
  BY <1>8, <1>9
     DEF deflection, deflectChallenge, deflectStack, answered, passed, owed,
         next, turn, target, played

LEMMA AttackCardSound ==
    ASSUME NEW s, Sound(s), NEW p \in Seat, NEW c \in Deck,
           NEW chosen \in Color \cup {null}
    PROVE  Sound(putAttackCardOnStack(s, p, c, chosen))
<1> DEFINE played == withUnoFlagsAfterPlay(withCardDiscarded(s, p, c), p)
           colored == IF type[c] = "draw_two"
                      THEN [played EXCEPT !.currentColor = color[c]]
                      ELSE [played EXCEPT !.currentColor = chosen,
                                          !.chosenColor[c] = chosen]
           grown == colored.drawStack + getCardDrawPenalty(c)
           next == getNextAliveIndex(s.eliminated, p, s.direction)
           stacked == [colored EXCEPT !.drawStack = grown,
                                      !.currentPlayerIndex = next]
<1>1. Sound(played)
  BY WithCardDiscardedSound, WithUnoFlagsSound
<1> HIDE DEF played
<1>2. Sound(colored)
  <2> DEFINE colors == [played.chosenColor EXCEPT ![c] = chosen]
  <2>1. colors \in [Wild -> Color \cup {null}]
    BY <1>1 DEF Sound, IsGameState
  <2> HIDE DEF colors
  <2>2. Sound([played EXCEPT !.currentColor = chosen, !.chosenColor = colors])
    BY <1>1, <2>1, ZenonT(60) DEF Sound, IsGameState, StateField
  <2>3. color[c] \in Color \cup {null}
    BY DeckAssumption
  <2>4. Sound([played EXCEPT !.currentColor = color[c]])
    BY <1>1, <2>3, ZenonT(60) DEF Sound, IsGameState, StateField
  <2> QED
    BY <2>2, <2>4 DEF colors
<1> HIDE DEF colored
<1>3. next \in Seat
  BY NextIsSeat
<1>4. grown \in Nat
  <2>1. colored.drawStack \in Nat
    BY <1>2 DEF Sound, IsGameState
  <2>2. getCardDrawPenalty(c) \in Nat
    BY DEF getCardDrawPenalty
  <2> QED
    BY <2>1, <2>2
<1> HIDE DEF next, grown
<1>5. Sound(stacked)
  BY <1>2, <1>3, <1>4, ZenonT(60) DEF Sound, IsGameState, StateField
<1> HIDE DEF stacked
<1>6. Sound(checkRoundEnd(stacked, p))
  BY <1>5, CheckRoundEndSound
<1> QED
  BY <1>6 DEF putAttackCardOnStack, stacked, grown, next, colored, played

LEMMA StackingSound ==
    ASSUME NEW s, Sound(s), NEW p \in Seat, NEW c \in Deck,
           NEW chosen \in Color \cup {null}
    PROVE  Sound(stacking(s, p, c, chosen))
<1> DEFINE owed == 4 + s.pendingRevengeDraws
           answered == [s EXCEPT !.phase = "playing",
                                 !.pendingDrawPlayerId = null,
                                 !.drawStack = owed,
                                 !.pendingRevengeDraws = 0,
                                 !.currentPlayerIndex = p]
<1>1. owed \in Nat
  <2>1. s.pendingRevengeDraws \in Nat
    BY DEF Sound, IsGameState
  <2> QED
    BY <2>1
<1> HIDE DEF owed
<1>2. Sound(answered)
  BY <1>1, ZenonT(60) DEF Sound, IsGameState, StateField, Phase
<1> HIDE DEF answered
<1>3. Sound(putAttackCardOnStack(answered, p, c, chosen))
  BY <1>2, AttackCardSound
<1> QED
  BY <1>3, AttackCardSound DEF stacking, answered, owed

LEMMA JumpInEffectSound ==
    ASSUME NEW s, Sound(s), NEW before, NEW p \in Seat, NEW c \in Deck,
           NEW chosen \in Color \cup {null}
    PROVE  Sound(withJumpInEffect(s, before, p, c, chosen))
<1> DEFINE next == getNextAliveIndex(s.eliminated, p, s.direction)
           afterNext == skipNextAliveIndex(s.eliminated, p, s.direction)
           toNext == [s EXCEPT !.currentPlayerIndex = next]
           colored == [toNext EXCEPT !.currentColor = color[c]]
           penalized == startPenaltyDraw(colored, next, 2, afterNext, p)
           asking == [s EXCEPT !.phase = "choosing_color"]
           answered == IF chosen # null
                       THEN [withWildColor(s, c, chosen) EXCEPT
                               !.phase = "challenging"]
                       ELSE asking
           hands == rotateHands(s.hand, s.eliminated, s.direction)
<1>1. next \in Seat /\ afterNext \in Seat
  BY NextIsSeat
<1>2. color[c] \in Color \cup {null} /\ type[c] \in CardType
  BY DeckAssumption
<1>3. hands \in [Seat -> SUBSET Deck]
  <2>1. \A d : \A i \in Seat : getNextAliveIndex(s.eliminated, i, d) \in Seat
    BY NextIsSeat
  <2> QED
    BY <2>1 DEF rotateHands, Sound, IsGameState
<1>4. \A t : Sound(t) => Sound(withWildColor(t, c, chosen))
  <2> SUFFICES ASSUME NEW t, Sound(t)
               PROVE  Sound(withWildColor(t, c, chosen))
    OBVIOUS
  <2> DEFINE colors == [t.chosenColor EXCEPT ![c] = chosen]
  <2>1. colors \in [Wild -> Color \cup {null}]
    BY DEF Sound, IsGameState
  <2> HIDE DEF colors
  <2>2. Sound([t EXCEPT !.chosenColor = colors, !.currentColor = chosen])
    BY <2>1, ZenonT(60) DEF Sound, IsGameState, StateField
  <2> QED
    BY <2>2 DEF withWildColor, colors
<1> HIDE DEF next, afterNext, hands
<1>5. Sound(toNext)
  BY <1>1 DEF Sound, IsGameState, StateField
<1> HIDE DEF toNext
<1>6. Sound(colored)
  BY <1>2, <1>5, ZenonT(60) DEF Sound, IsGameState, StateField
<1> HIDE DEF colored
<1>7. Sound(asking)
  BY ZenonT(60) DEF Sound, IsGameState, StateField, Phase
<1> HIDE DEF asking
<1>8. Sound(penalized)
      /\ Sound(startPenaltyDraw(penalized, next, 2, afterNext, null))
  BY <1>1, <1>6, StartPenaltyDrawSound
<1> HIDE DEF penalized
<1>9. Sound(answered)
  <2> DEFINE wild == withWildColor(s, c, chosen)
  <2>1. Sound(wild)
    BY <1>4
  <2> HIDE DEF wild
  <2>2. Sound([wild EXCEPT !.phase = "challenging"])
    BY <2>1, ZenonT(60) DEF Sound, IsGameState, StateField, Phase
  <2> QED
    BY <1>7, <2>2 DEF wild
<1> HIDE DEF answered
<1>10. CASE type[c] \in {"skip", "reverse"}
  BY <1>10, WithCardEffectSound DEF withJumpInEffect
<1>11. CASE type[c] = "draw_two"
  BY <1>8, <1>11
     DEF withJumpInEffect, penalized, colored, toNext, next, afterNext
<1>12. CASE type[c] = "wild"
  <2>1. Sound([asking EXCEPT !.currentPlayerIndex = p])
    BY <1>7, ZenonT(60) DEF Sound, IsGameState, StateField
  <2>2. [asking EXCEPT !.currentPlayerIndex = p]
           = [s EXCEPT !.phase = "choosing_color", !.currentPlayerIndex = p]
    BY DEF asking
  <2>3. Sound(withWildColor(toNext, c, chosen))
    BY <1>4, <1>5
  <2> QED
    BY <1>12, <2>1, <2>2, <2>3 DEF withJumpInEffect, toNext, next
<1>13. CASE type[c] = "wild_draw_four"
  <2>1. Sound([answered EXCEPT !.currentPlayerIndex = p,
                               !.pendingDrawPlayerId = next])
    BY <1>1, <1>9, ZenonT(60) DEF Sound, IsGameState, StateField
  <2> QED
    BY <1>13, <2>1 DEF withJumpInEffect, answered, asking, next
<1>14. CASE type[c] = "number"
  <2>1. Sound([colored EXCEPT !.phase = "choosing_swap_target",
                              !.currentPlayerIndex = p])
    BY <1>6, ZenonT(60) DEF Sound, IsGameState, StateField, Phase
  <2>2. Sound([colored EXCEPT !.hand = hands])
    BY <1>3, <1>6, ZenonT(60) DEF Sound, IsGameState, StateField
  <2> QED
    BY <1>6, <1>14, <2>1, <2>2
       DEF withJumpInEffect, colored, toNext, next, hands
<1> QED
  BY <1>2, <1>10, <1>11, <1>12, <1>13, <1>14 DEF CardType

LEMMA JumpInSound ==
    ASSUME NEW s, Sound(s), NEW p \in Seat, NEW c \in Deck,
           NEW chosen \in Color \cup {null}
    PROVE  Sound(jumpIn(s, p, c, chosen))
<1>1. Sound(withJumpInEffect(withCardDiscarded(s, p, c), s, p, c, chosen))
  BY WithCardDiscardedSound, JumpInEffectSound
<1> QED
  BY <1>1, CheckRoundEndSound DEF jumpIn

(***************************************************************************)
(* Plugins that handle another action                                      *)
(***************************************************************************)
LEMMA ResolveStackSound ==
    ASSUME NEW s, Sound(s), NEW p \in Seat, NEW side \in DrawSide,
           NEW card \in Deck
    PROVE  Sound(resolveStack(s, p, side, card))
<1> DEFINE acted == Acted("DRAW_CARD", p)
           taken == [s EXCEPT !.drawStack = 0, !.lastAction = acted]
           next == getNextAliveIndex(s.eliminated, p, s.direction)
           source == IF s.lastAction.type = "PLAY_CARD"
                     THEN s.lastAction.playerId ELSE null
<1>1. acted \in LastAction
  BY ActedIsLastAction DEF ActionType
<1>2. next \in Seat
  BY NextIsSeat
<1>3. source \in Seat \cup {null} /\ s.drawStack \in Nat
  BY DEF Sound, IsGameState, LastAction
<1> HIDE DEF acted, next, source
<1>4. Sound(taken)
  BY <1>1 DEF Sound, IsGameState, StateField
<1> HIDE DEF taken
<1>5. Sound(startPenaltyDraw(taken, p, s.drawStack, next, source))
  BY <1>2, <1>3, <1>4, StartPenaltyDrawSound
<1>6. Sound(handleDrawCard(startPenaltyDraw(taken, p, s.drawStack, next, source),
                           p, side, card))
  BY <1>5, HandleDrawCardSound
<1> QED
  BY <1>6 DEF resolveStack, taken, acted, next, source

LEMMA ChooseColorUnchallengedSound ==
    ASSUME NEW s, Sound(s), NEW p \in Seat, NEW chosen \in Color,
           s.pendingDrawPlayerId # null
    PROVE  Sound(chooseColorUnchallenged(s, p, chosen))
<1>1. s.pendingDrawPlayerId \in Seat
  BY DEF Sound, IsGameState
<1>2. Acted("CHOOSE_COLOR", p) \in LastAction
  BY ActedIsLastAction DEF ActionType
<1> QED
  BY <1>1, <1>2, HandleChooseColorSound, SettleWildDrawFourSound
     DEF chooseColorUnchallenged

LEMMA ChooseSwapTargetSound ==
    ASSUME NEW s, Sound(s), NEW p \in Seat, NEW target \in Seat
    PROVE  Sound(chooseSwapTarget(s, p, target))
<1> DEFINE swapped == [s.hand EXCEPT ![p] = s.hand[target],
                                     ![target] = s.hand[p]]
           called == [i \in Seat |-> IF i \in {p, target}
                                     THEN Cardinality(swapped[i]) = 1
                                     ELSE s.calledUno[i]]
           caught == [i \in Seat |-> i \notin {p, target} /\ s.unoCaught[i]]
           next == getNextAliveIndex(s.eliminated, p, s.direction)
           acted == Acted("CHOOSE_SWAP_TARGET", p)
           chosen == [s EXCEPT !.hand = swapped, !.calledUno = called,
                               !.unoCaught = caught, !.phase = "playing",
                               !.currentPlayerIndex = next,
                               !.lastAction = acted]
<1>1. swapped \in [Seat -> SUBSET Deck]
  BY DEF Sound, IsGameState
<1>2. called \in [Seat -> BOOLEAN] /\ caught \in [Seat -> BOOLEAN]
  <2>1. \A i \in Seat : s.calledUno[i] \in BOOLEAN
    BY DEF Sound, IsGameState
  <2> HIDE DEF swapped
  <2> QED
    BY <2>1
<1>3. acted \in LastAction
  BY ActedIsLastAction DEF ActionType
<1>4. next \in Seat
  BY NextIsSeat
<1> HIDE DEF swapped, called, caught, acted, next
<1>5. Sound(chosen)
  BY <1>1, <1>2, <1>3, <1>4, ZenonT(60)
     DEF Sound, IsGameState, StateField, Phase
<1> HIDE DEF chosen
<1>6. Sound(drainPenaltyQueue(chosen))
  BY <1>5, DrainPenaltyQueueSound
<1> QED
  BY <1>6 DEF chooseSwapTarget, chosen, swapped, called, caught, next, acted

(* For every k there is a seat of hit with exactly k - 1 others before it:  *)
(* counting the seats before a seat is injective, hence surjective.         *)
LEMMA RankedSeat ==
    ASSUME NEW hit \in SUBSET Seat, NEW k \in 1..Cardinality(hit)
    PROVE  \E i \in hit : Cardinality({j \in hit : j < i}) = k - 1
<1> DEFINE n == Cardinality(hit)
           Before(i) == {j \in hit : j < i}
           rank == [i \in hit |-> Cardinality(Before(i))]
<1>1. IsFiniteSet(hit) /\ n \in Nat
  BY SeatIsFinite, FS_Subset, FS_CardinalityType
<1>2. \A i \in hit : IsFiniteSet(Before(i)) /\ Cardinality(Before(i)) \in Nat
  BY <1>1, FS_Subset, FS_CardinalityType
<1>3. ASSUME NEW i \in hit PROVE Cardinality(Before(i)) \in 0..(n - 1)
  <2>1. IsFiniteSet(hit \ {i}) /\ Cardinality(hit \ {i}) = n - 1
    BY <1>1, FS_RemoveElement
  <2>2. Before(i) \in SUBSET (hit \ {i})
    BY DEF Seat
  <2>3. Cardinality(Before(i)) <= n - 1
    BY <2>1, <2>2, FS_Subset
  <2> HIDE DEF n, Before
  <2> QED
    BY <1>1, <1>2, <2>3
<1>4. ASSUME NEW i \in hit, NEW j \in hit, i < j
      PROVE  Cardinality(Before(i)) # Cardinality(Before(j))
  <2>1. Before(i) \in SUBSET Before(j)
    <3>1. \A x \in Int : x < i => x < j
      BY <1>4, NAssumption DEF Seat
    <3>2. \A x \in hit : x \in Int
      BY NAssumption DEF Seat
    <3>3. \A x \in Before(i) : x \in Before(j)
      BY <3>1, <3>2
    <3> QED
      BY <3>3, Zenon
  <2>2. i \in Before(j) /\ i \notin Before(i)
    BY <1>4 DEF Seat
  <2> HIDE DEF Before
  <2> QED
    BY <1>2, <2>1, <2>2, FS_Subset
<1>5. rank \in Injection(hit, 0..(n - 1))
  <2>1. rank \in [hit -> 0..(n - 1)]
    BY <1>3
  <2>2. ASSUME NEW i \in hit, NEW j \in hit, rank[i] = rank[j]
        PROVE  i = j
    <3>1. ~(i < j) /\ ~(j < i)
      BY <1>4, <2>2
    <3> QED
      BY <3>1 DEF Seat
  <2> HIDE DEF rank, n
  <2> QED
    BY <2>1, <2>2 DEF Injection, IsInjective
<1>6. IsFiniteSet(0..(n - 1)) /\ Cardinality(0..(n - 1)) = n
  <2> HIDE DEF n
  <2>1. 0 \in Int /\ n - 1 \in Int
    BY <1>1
  <2>2. IsFiniteSet(0..(n - 1))
        /\ Cardinality(0..(n - 1)) = IF 0 > n - 1 THEN 0 ELSE (n - 1) - 0 + 1
    BY <2>1, FS_Interval, Zenon
  <2> QED
    BY <1>1, <2>2
<1> HIDE DEF rank
<1>7. rank \in Surjection(hit, 0..(n - 1))
  BY <1>5, <1>6, FS_Injection
<1> HIDE DEF n
<1>8. k - 1 \in 0..(n - 1)
  BY <1>1 DEF n
<1>9. \E i \in hit : rank[i] = k - 1
  BY <1>7, <1>8 DEF Surjection
<1> QED
  BY <1>9 DEF rank

LEMMA SeatsBombedAreSeats ==
    ASSUME NEW s, NEW p
    PROVE  SeatsBombed(s, p) \in Seq(Seat)
<1> DEFINE hit == AliveSeats(s.eliminated) \ {p}
           nth(k) == CHOOSE i \in hit : Cardinality({j \in hit : j < i}) = k - 1
           n == Cardinality(hit)
<1>1. hit \in SUBSET Seat
  BY DEF AliveSeats
<1>2. n \in Nat
  BY <1>1, SeatIsFinite, FS_Subset, FS_CardinalityType
<1>3. \A k \in 1..n : nth(k) \in Seat
  BY <1>1, RankedSeat
<1>4. SeatsBombed(s, p) = [k \in 1..n |-> nth(k)]
  BY DEF SeatsBombed
<1> HIDE DEF nth, n
<1>5. [k \in 1..n |-> nth(k)] \in Seq(Seat)
  BY <1>2, <1>3
<1> QED
  BY <1>4, <1>5

LEMMA MultiPlayPassSound ==
    ASSUME NEW s, Sound(s), NEW p \in Seat
    PROVE  Sound(multiPlayPass(s, p))
<1> DEFINE next == getNextAliveIndex(s.eliminated, p, s.direction)
           acted == Acted("PASS", p)
           passed == [s EXCEPT !.currentPlayerIndex = next,
                               !.lastAction = acted]
           hit == SeatsBombed(s, p)
           penalty(i) == [playerId |-> i, count |-> 1,
                          nextPlayerIndex |-> next, sourcePlayerId |-> null]
           penalties == [k \in DOMAIN hit |-> penalty(hit[k])]
           queue == passed.pendingPenaltyQueue \o penalties
<1>1. next \in Seat
  BY NextIsSeat
<1>2. acted \in LastAction
  BY ActedIsLastAction DEF ActionType
<1>3. hit \in Seq(Seat)
  BY SeatsBombedAreSeats
<1> HIDE DEF next, acted, hit
<1>4. Sound(passed)
  BY <1>1, <1>2, ZenonT(60) DEF Sound, IsGameState, StateField
<1> HIDE DEF passed
<1>5. penalties \in Seq(PendingPenaltyDraw)
  <2>1. Len(hit) \in Nat /\ DOMAIN hit = 1..Len(hit)
        /\ \A k \in 1..Len(hit) : hit[k] \in Seat
    BY <1>3
  <2>2. \A i \in Seat : penalty(i) \in PendingPenaltyDraw
    BY <1>1 DEF PendingPenaltyDraw
  <2> HIDE DEF penalty
  <2> QED
    BY <2>1, <2>2
<1> HIDE DEF penalties
<1>6. queue \in Seq(PendingPenaltyDraw)
  <2>1. passed.pendingPenaltyQueue \in Seq(PendingPenaltyDraw)
    BY <1>4 DEF Sound, IsGameState
  <2> QED
    BY <1>5, <2>1
<1> HIDE DEF queue
<1>7. Sound([passed EXCEPT !.pendingPenaltyQueue = queue])
  BY <1>4, <1>6, ZenonT(60) DEF Sound, IsGameState, StateField
<1> QED
  BY <1>4, <1>7, DrainPenaltyQueueSound
     DEF multiPlayPass, queue, penalties, penalty, hit, passed, acted, next

(***************************************************************************)
(* The states a round starts in                                            *)
(***************************************************************************)
LEMMA DealtStateSound ==
    ASSUME NEW d \in Deals, NEW rules \in SUBSET HouseRule,
           NEW eliminated \in [Seat -> BOOLEAN], AliveSeats(eliminated) # {},
           NEW score \in [Seat -> Nat], NEW roundWins \in [Seat -> Nat],
           NEW teamId \in [Seat -> {0, 1, null}],
           NEW first \in Seat, NEW round \in Nat
    PROVE  Sound(dealtState(d, rules, eliminated, score, roundWins, teamId,
                            first, round))
<1> DEFINE s == dealtState(d, rules, eliminated, score, roundWins, teamId,
                           first, round)
           turn == IF type[d.top] \in {"skip", "draw_two"}
                   THEN getNextAliveIndex(eliminated, first, "clockwise")
                   ELSE first
           direction == IF type[d.top] = "reverse"
                        THEN "counter_clockwise" ELSE "clockwise"
           phase == IF type[d.top] = "wild" THEN "choosing_color"
                    ELSE "playing"
           deck == [side \in DrawSide |->
                      IF side = "left" THEN d.left ELSE d.right]
           count == [side \in DrawSide |->
                      Cardinality(IF side = "left" THEN d.left ELSE d.right)]
           pile == <<d.top>>
           acted == Acted(null, null)
<1>1. /\ d.hand \in [Seat -> SUBSET Deck]
      /\ d.left \in SUBSET Deck /\ d.right \in SUBSET Deck /\ d.top \in Deck
  BY UnoGameAssumption DEF IsDeal
<1>2. turn \in Seat
  BY NextIsAlive DEF AliveSeats
<1>3. direction \in Direction /\ phase \in Phase
  BY DEF Direction, Phase
<1>4. deck \in [DrawSide -> SUBSET Deck]
  BY <1>1
<1>5. count \in [DrawSide -> Nat]
  <2>1. Cardinality(d.left) \in Nat /\ Cardinality(d.right) \in Nat
    BY <1>1, DeckAssumption, FS_Subset, FS_CardinalityType
  <2> QED
    BY <2>1
<1>6. pile \in Seq(Deck) /\ pile # <<>>
  BY <1>1
<1>7. color[d.top] \in Color \cup {null}
  BY <1>1, DeckAssumption
<1>8. acted \in LastAction
  BY ActedIsLastAction
<1> HIDE DEF turn, direction, phase, deck, count, pile, acted
<1>9. s = [phase |-> phase, houseRules |-> rules, hand |-> d.hand,
           calledUno |-> [p \in Seat |-> FALSE],
           unoCaught |-> [p \in Seat |-> FALSE],
           eliminated |-> eliminated, score |-> score,
           roundWins |-> roundWins, teamId |-> teamId,
           currentPlayerIndex |-> turn, direction |-> direction,
           deck |-> deck, deckInitialCount |-> count, discardPile |-> pile,
           chosenColor |-> [w \in Wild |-> null],
           currentColor |-> color[d.top], drawStack |-> 0,
           pendingDrawPlayerId |-> null, pendingPenaltyDraws |-> 0,
           pendingPenaltyNextPlayerIndex |-> null,
           pendingPenaltySourcePlayerId |-> null,
           pendingPenaltyQueue |-> <<>>, pendingRevengeDraws |-> 0,
           lastAction |-> acted, roundNumber |-> round, winnerId |-> null]
  BY DEF dealtState, turn, direction, phase, deck, count, pile, acted
<1>10. IsGameState(s)
  BY <1>1, <1>2, <1>3, <1>4, <1>5, <1>6, <1>7, <1>8, <1>9
     DEF IsGameState, StateField
<1> QED
  BY <1>6, <1>9, <1>10 DEF Sound

LEMMA InitSound ==
    ASSUME Init
    PROVE  Sound(state)
<1>1. PICK rules \in RuleSets, d \in Deals : state = initializeGame(d, rules)
  BY DEF Init
<1>2. rules \in SUBSET HouseRule
  BY UnoGameAssumption
<1> DEFINE zero == [p \in Seat |-> 0]
           teams == [p \in Seat |-> IF "teamMode" \in rules /\ N % 2 = 0
                                    THEN p % 2 ELSE null]
<1>3. Nobody \in [Seat -> BOOLEAN] /\ AliveSeats(Nobody) # {} /\ 0 \in Seat
  <2>1. 0 \in Seat
    BY NAssumption DEF Seat
  <2> QED
    BY <2>1 DEF Nobody, AliveSeats
<1>4. zero \in [Seat -> Nat] /\ teams \in [Seat -> {0, 1, null}]
  <2>1. \A p \in Seat : p % 2 \in {0, 1}
    BY NAssumption DEF Seat
  <2> QED
    BY <2>1
<1> HIDE DEF zero, teams
<1>5. Sound(dealtState(d, rules, Nobody, zero, zero, teams, 0, 1))
  BY <1>2, <1>3, <1>4, DealtStateSound
<1> QED
  BY <1>1, <1>5 DEF initializeGame, zero, teams

(* Reseating the players takes nobody out of the game.                      *)
LEMMA SeatingIsOnto ==
    ASSUME NEW rules, NEW seating \in Seatings(rules)
    PROVE  /\ seating \in [Seat -> Seat]
           /\ \A q \in Seat : \E p \in Seat : seating[p] = q
<1>1. seating \in Injection(Seat, Seat)
  BY DEF Seatings, Injection, IsInjective
<1>2. seating \in Surjection(Seat, Seat)
  BY <1>1, SeatIsFinite, FS_Injection
<1> QED
  BY <1>2 DEF Surjection

LEMMA StartNextRoundSound ==
    ASSUME Sound(state), NEW d \in Deals,
           NEW seating \in Seatings(state.houseRules),
           StartNextRound(d, seating)
    PROVE  Sound(state')
<1> DEFINE eliminated == [i \in Seat |-> state.eliminated[seating[i]]]
           score == [i \in Seat |-> state.score[seating[i]]]
           roundWins == [i \in Seat |-> state.roundWins[seating[i]]]
           teamId == [i \in Seat |-> state.teamId[seating[i]]]
           first == firstOfRound(state, eliminated)
           round == state.roundNumber + 1
<1>1. /\ seating \in [Seat -> Seat]
      /\ \A q \in Seat : \E p \in Seat : seating[p] = q
  BY SeatingIsOnto
<1>2. eliminated \in [Seat -> BOOLEAN]
  BY <1>1 DEF Sound, IsGameState
<1>3. AliveSeats(eliminated) # {}
  <2>1. PICK q \in Seat : ~state.eliminated[q]
    BY DEF Sound, AliveSeats
  <2>2. PICK p \in Seat : seating[p] = q
    BY <1>1
  <2> QED
    BY <2>1, <2>2 DEF AliveSeats
<1>4. score \in [Seat -> Nat] /\ roundWins \in [Seat -> Nat]
  BY <1>1 DEF Sound, IsGameState
<1>5. teamId \in [Seat -> {0, 1, null}]
  BY <1>1 DEF Sound, IsGameState
<1>6. round \in Nat /\ state.houseRules \in SUBSET HouseRule
  <2>1. state.roundNumber \in Nat /\ state.houseRules \in SUBSET HouseRule
    BY DEF Sound, IsGameState
  <2> QED
    BY <2>1
<1> HIDE DEF eliminated
<1>7. first \in Seat
  <2>1. state.currentPlayerIndex \in Seat
    BY DEF Sound, IsGameState
  <2> QED
    BY <1>3, <2>1, NextIsAlive DEF firstOfRound, AliveSeats
<1> HIDE DEF score, roundWins, teamId, first, round
<1>8. Sound(dealtState(d, state.houseRules, eliminated, score, roundWins,
                       teamId, first, round))
  BY <1>2, <1>3, <1>4, <1>5, <1>6, <1>7, DealtStateSound
<1> QED
  BY <1>8 DEF StartNextRound, initializeNextRound, eliminated, score,
              roundWins, teamId, first, round

(***************************************************************************)
(* Every action keeps the state sound                                      *)
(***************************************************************************)
LEMMA PlayCardSound ==
    ASSUME Sound(state), NEW p \in Seat, NEW c \in Deck, PlayCard(p, c)
    PROVE  Sound(state')
<1>1. state.phase = "playing" /\ state.pendingPenaltyDraws = 0
  BY DEF PlayCard, playCardAllowed
<1>2. Sound(handlePlayCard(state, p, c))
  BY HandlePlayCardSound
<1>3. type[c] = "draw_two" /\ ~terminal(handlePlayCard(state, p, c)) =>
         handlePlayCard(state, p, c).pendingPenaltyNextPlayerIndex \in Seat
  BY <1>1, DrawTwoNamesNext
<1> QED
  BY <1>2, <1>3, PostProcessPlaySound DEF PlayCard

(* What a draw may look at is a card.                                       *)
LEMMA DrawnCardsAreCards ==
    ASSUME Sound(state), NEW p \in Seat, NEW side \in DrawSide
    PROVE  /\ CanYield(state, side) \in SUBSET Deck
           /\ drawnCards(p, side) \in SUBSET Deck
<1>1. Sound(withSideRefilled(state, side))
  BY WithSideRefilledSound
<1>2. CanYield(state, side) \in SUBSET Deck
  BY <1>1 DEF CanYield, Sound, IsGameState
<1> QED
  BY <1>2 DEF drawnCards, Sound, IsGameState

LEMMA TurnActionSound ==
    ASSUME Sound(state), NEW p \in Seat, TurnAction(p)
    PROVE  Sound(state')
<1>1. ASSUME NEW c \in state.hand[p], PlayCard(p, c) PROVE Sound(state')
  BY <1>1, PlayCardSound DEF Sound, IsGameState
<1>2. ASSUME NEW c \in state.hand[p], ForfeitFinishRestriction(p, c)
      PROVE  Sound(state')
  BY <1>2, HandlePassSound, HandledPlaySound DEF ForfeitFinishRestriction
<1>3. ASSUME NEW c \in state.hand[p], Deflect(p, c) PROVE Sound(state')
  <2>1. c \in Deck
    BY DEF Sound, IsGameState
  <2>2. Sound(deflection(state, p, c))
    BY <2>1, DeflectionSound
  <2> QED
    BY <1>3, <2>2, HandledPlaySound DEF Deflect
<1>4. ASSUME NEW c \in state.hand[p], NEW chosen \in Color \cup {null},
             Stack(p, c, chosen)
      PROVE  Sound(state')
  <2>1. c \in Deck
    BY DEF Sound, IsGameState
  <2>2. Sound(stacking(state, p, c, chosen))
    BY <2>1, StackingSound
  <2> QED
    BY <1>4, <2>2, HandledPlaySound DEF Stack
<1>5. ASSUME NEW c \in state.hand[p],
             NEW card \in CanYield(state, LongerSide(state)),
             PayFinishRestriction(p, c, card)
      PROVE  Sound(state')
  <2>1. LongerSide(state) \in DrawSide
    BY LongerSideIsSide
  <2>2. card \in Deck
    BY <2>1, DrawnCardsAreCards
  <2>3. Sound(finishPenaltyCard(state, p, card))
    BY <2>1, <2>2, DrawCardsSound DEF finishPenaltyCard
  <2> QED
    BY <1>5, <2>3, HandledPlaySound DEF PayFinishRestriction
<1>6. ASSUME NEW c \in state.hand[p], ForcedPlayWithoutDraw(p, c)
      PROVE  Sound(state')
  <2>1. c \in Deck
    BY DEF Sound, IsGameState
  <2> QED
    BY <1>6, <2>1, PostProcessDrawSound DEF ForcedPlayWithoutDraw
<1>7. ASSUME NEW side \in DrawSide, NEW card \in drawnCards(p, side),
             \/ DrawCard(p, side, card)
             \/ DrawUntilPlayable(p, side, card)
             \/ TakeStack(p, side, card)
      PROVE  Sound(state')
  <2>1. card \in Deck
    BY DrawnCardsAreCards
  <2>2. Sound(handleDrawCard(state, p, side, card))
    BY <2>1, HandleDrawCardSound
  <2>3. CASE DrawCard(p, side, card)
    BY <2>1, <2>2, <2>3, PostProcessDrawSound DEF DrawCard
  <2>4. CASE DrawUntilPlayable(p, side, card)
    BY <2>2, <2>4 DEF DrawUntilPlayable
  <2>5. CASE TakeStack(p, side, card)
    BY <2>1, <2>5, ResolveStackSound, SettleRoundSound DEF TakeStack
  <2> QED
    BY <1>7, <2>3, <2>4, <2>5
<1>8. CASE Pass(p)
  BY <1>8, HandlePassSound, SettleRoundSound DEF Pass
<1>9. CASE EndMultiPlay(p)
  BY <1>9, MultiPlayPassSound DEF EndMultiPlay
<1>10. ASSUME NEW chosen \in Color, ChooseColor(p, chosen)
       PROVE  Sound(state')
  BY <1>10, HandleChooseColorSound DEF ChooseColor
<1>11. ASSUME NEW chosen \in Color, ChooseColorUnchallenged(p, chosen)
       PROVE  Sound(state')
  BY <1>11, ChooseColorUnchallengedSound DEF ChooseColorUnchallenged
<1>12. CASE Challenge(p)
  BY <1>12, HandleChallengeSound DEF Challenge
<1>13. CASE Accept(p)
  BY <1>13, HandleAcceptSound DEF Accept
<1>14. ASSUME NEW target \in Seat, ChooseSwapTarget(p, target)
       PROVE  Sound(state')
  BY <1>14, ChooseSwapTargetSound DEF ChooseSwapTarget
<1> QED
  BY <1>1, <1>2, <1>3, <1>4, <1>5, <1>6, <1>7, <1>8, <1>9, <1>10, <1>11,
     <1>12, <1>13, <1>14 DEF TurnAction

LEMMA SideActionSound ==
    ASSUME Sound(state), NEW p \in Seat, SideAction(p)
    PROVE  Sound(state')
<1>1. ASSUME NEW c \in state.hand[p], NEW chosen \in Color \cup {null},
             JumpIn(p, c, chosen)
      PROVE  Sound(state')
  <2>1. c \in Deck
    BY DEF Sound, IsGameState
  <2>2. Sound(jumpIn(state, p, c, chosen))
    BY <2>1, JumpInSound
  <2> QED
    BY <1>1, <2>2, HandledPlaySound DEF JumpIn
<1>2. ASSUME NEW c \in Deck, Misplay(p, c) PROVE Sound(state')
  BY <1>2, MisplayPenaltySound, HandledPlaySound DEF Misplay
<1>3. CASE CallUno(p)
  BY <1>3, HandleCallUnoSound DEF CallUno
<1>4. CASE CatchUno(p)
  <2>1. UnoPenaltyCount \in Nat
    BY SettingsAssumption
  <2> QED
    BY <1>4, <2>1, HandleCatchUnoSound DEF CatchUno
<1> QED
  BY <1>1, <1>2, <1>3, <1>4 DEF SideAction

SoundState == Sound(state)

(* What the handlers rely on holds in every state of a game: the state has  *)
(* its type, somebody is still in the game, the discard pile shows a card,  *)
(* an active penalty knows whose turn comes after it.                       *)
THEOREM AlwaysSound == Spec => []SoundState
<1>1. Init => SoundState
  BY InitSound DEF SoundState
<1>2. SoundState /\ [Next]_vars => SoundState'
  <2> SUFFICES ASSUME Sound(state), [Next]_vars
               PROVE  Sound(state')
    BY DEF SoundState
  <2>1. ASSUME NEW p \in Seat, TurnAction(p) PROVE Sound(state')
    BY <2>1, TurnActionSound
  <2>2. ASSUME NEW p \in Seat, SideAction(p) PROVE Sound(state')
    BY <2>2, SideActionSound
  <2>3. CASE NextRound
    BY <2>3, StartNextRoundSound DEF NextRound
  <2>4. CASE UNCHANGED vars
    BY <2>4 DEF vars
  <2> QED
    BY <2>1, <2>2, <2>3, <2>4 DEF Next
<1> QED
  BY <1>1, <1>2, PTL DEF Spec

(* Every component of the game state always has its type: no handler and no *)
(* plugin leaves a turn to a seat that is not there, a negative score or a  *)
(* negative debt.                                                           *)
THEOREM TypeCorrect == Spec => []TypeOK
<1>1. SoundState => TypeOK
  BY DEF SoundState, Sound, TypeOK
<1> QED
  BY <1>1, AlwaysSound, PTL

(***************************************************************************)
(* Where the cards are, and who holds any                                  *)
(*                                                                         *)
(* Every card is in exactly one place: in a hand, in one of the two side   *)
(* decks, or in the discard pile.  Four kinds of step move cards: a play,  *)
(* a draw, the refill of a side deck, and an exchange of whole hands.      *)
(*                                                                         *)
(* While a round goes on an eliminated player holds none and is never      *)
(* waited for, everybody else holds at least one, and an UNO call is void  *)
(* once its player has more than two.                                      *)
(***************************************************************************)

Discarded(pile, c) == \E i \in 1..Len(pile) : pile[i] = c

(* The hands, the decks and the discard pile share out the deck.            *)
SharedOut(hand, deck, pile) ==
    /\ hand \in [Seat -> SUBSET Deck]
    /\ deck \in [DrawSide -> SUBSET Deck]
    /\ pile \in Seq(Deck)
    /\ \A c \in Deck : \/ \E p \in Seat : c \in hand[p]
                       \/ c \in deck["left"] \/ c \in deck["right"]
                       \/ Discarded(pile, c)
    /\ \A p, q \in Seat : p # q => \A c \in hand[p] : c \notin hand[q]
    /\ \A c \in deck["left"] : c \notin deck["right"]
    /\ \A p \in Seat : \A c \in hand[p] :
          c \notin deck["left"] /\ c \notin deck["right"]
    /\ \A p \in Seat : \A c \in hand[p] : ~Discarded(pile, c)
    /\ \A side \in DrawSide : \A c \in deck[side] : ~Discarded(pile, c)
    /\ \A i, j \in 1..Len(pile) : pile[i] = pile[j] => i = j

(***************************************************************************)
(* The four kinds of move                                                  *)
(***************************************************************************)

(* A card goes from a hand to the top of the pile.                          *)
LEMMA PlayMovesCard ==
    ASSUME NEW hand, NEW deck, NEW pile, SharedOut(hand, deck, pile),
           NEW p \in Seat, NEW c \in hand[p]
    PROVE  SharedOut([hand EXCEPT ![p] = @ \ {c}], deck, Append(pile, c))
<1> DEFINE rest == [hand EXCEPT ![p] = @ \ {c}]
           grown == Append(pile, c)
<1>1. c \in Deck /\ rest \in [Seat -> SUBSET Deck]
  BY DEF SharedOut
<1>2. /\ grown \in Seq(Deck) /\ Len(grown) = Len(pile) + 1
      /\ \A i \in 1..Len(pile) : grown[i] = pile[i]
      /\ grown[Len(pile) + 1] = c
      /\ Len(pile) \in Nat
  BY <1>1 DEF SharedOut
<1>3. \A q \in Seat : rest[q] = IF q = p THEN hand[q] \ {c} ELSE hand[q]
  BY DEF SharedOut
<1> HIDE DEF rest, grown
<1>4. \A d : Discarded(grown, d) <=> Discarded(pile, d) \/ d = c
  BY <1>2 DEF Discarded
<1>5. \A i, j \in 1..Len(grown) : grown[i] = grown[j] => i = j
  BY <1>2 DEF SharedOut, Discarded
<1>6. \A d : \A q \in Seat : d \in rest[q] <=> d \in hand[q] /\ d # c
  BY <1>3, ZenonT(60) DEF SharedOut
<1> QED
  BY <1>1, <1>2, <1>4, <1>5, <1>6 DEF SharedOut, DrawSide, rest, grown

(* A card goes from a side deck to a hand.                                  *)
LEMMA DrawMovesCard ==
    ASSUME NEW hand, NEW deck, NEW pile, SharedOut(hand, deck, pile),
           NEW p \in Seat, NEW side \in DrawSide, NEW c \in deck[side]
    PROVE  SharedOut([hand EXCEPT ![p] = @ \cup {c}],
                     [deck EXCEPT ![side] = @ \ {c}], pile)
<1> DEFINE grown == [hand EXCEPT ![p] = @ \cup {c}]
           rest == [deck EXCEPT ![side] = @ \ {c}]
<1>1. c \in Deck
  BY DEF SharedOut
<1>2. grown \in [Seat -> SUBSET Deck] /\ rest \in [DrawSide -> SUBSET Deck]
  BY <1>1 DEF SharedOut
<1>3. \A q \in Seat : \A d : d \in grown[q] <=> 
               d \in hand[q] \/ (q = p /\ d = c)
  BY DEF SharedOut
<1>4. \A x \in DrawSide : \A d : d \in rest[x] <=> 
               d \in deck[x] /\ ~(x = side /\ d = c)
  BY DEF SharedOut
<1> HIDE DEF grown, rest
<1>5. ~Discarded(pile, c) /\ \A q \in Seat : c \notin hand[q]
  BY DEF SharedOut, DrawSide
<1> QED
  BY <1>1, <1>2, <1>3, <1>4, <1>5 DEF SharedOut, DrawSide, grown, rest

(* The oldest discards go to a side deck that has run out.                  *)
LEMMA RefillMovesCards ==
    ASSUME NEW hand, NEW deck, NEW pile, SharedOut(hand, deck, pile),
           NEW side \in DrawSide, deck[side] = {},
           NEW k \in Nat, k <= Len(pile)
    PROVE  SharedOut(hand, [deck EXCEPT ![side] = {pile[i] : i \in 1..k}],
                     SubSeq(pile, k + 1, Len(pile)))
<1> DEFINE taken == {pile[i] : i \in 1..k}
           filled == [deck EXCEPT ![side] = taken]
           rest == SubSeq(pile, k + 1, Len(pile))
<1>1. pile \in Seq(Deck) /\ Len(pile) \in Nat
  BY DEF SharedOut
<1>2. taken \in SUBSET Deck
  BY <1>1
<1>3. \A d : d \in taken <=> \E i \in 1..k : pile[i] = d
  OBVIOUS
<1> HIDE DEF taken
<1>4. /\ filled \in [DrawSide -> SUBSET Deck]
      /\ \A x \in DrawSide : filled[x] = IF x = side THEN taken ELSE deck[x]
  BY <1>2 DEF SharedOut
<1>5. /\ rest \in Seq(Deck) /\ Len(rest) = Len(pile) - k
      /\ \A i \in 1..(Len(pile) - k) : rest[i] = pile[k + i]
  BY <1>1
<1> HIDE DEF filled, rest
<1>6. \A d : Discarded(pile, d) <=> Discarded(rest, d) \/ d \in taken
  <2>1. ASSUME NEW i \in 1..Len(pile)
        PROVE  Discarded(rest, pile[i]) \/ pile[i] \in taken
    <3>1. CASE i <= k
      BY <1>1, <1>3, <3>1
    <3>2. CASE i > k
      <4>1. i - k \in 1..Len(rest) /\ rest[i - k] = pile[i]
        BY <1>1, <1>5, <3>2
      <4> QED
        BY <4>1 DEF Discarded
    <3> QED
      BY <1>1, <3>1, <3>2
  <2>2. ASSUME NEW i \in 1..Len(rest) PROVE Discarded(pile, rest[i])
    <3>1. k + i \in 1..Len(pile) /\ rest[i] = pile[k + i]
      BY <1>1, <1>5
    <3> QED
      BY <3>1 DEF Discarded
  <2>3. ASSUME NEW i \in 1..k PROVE Discarded(pile, pile[i])
    BY <1>1 DEF Discarded
  <2> QED
    BY <1>3, <2>1, <2>2, <2>3, ZenonT(60) DEF Discarded
<1>7. \A d : ~(Discarded(rest, d) /\ d \in taken)
  <2>1. ASSUME NEW i \in 1..Len(rest), NEW j \in 1..k PROVE rest[i] # pile[j]
    <3>1. k + i \in 1..Len(pile) /\ j \in 1..Len(pile) /\ k + i # j
      BY <1>1, <1>5
    <3> QED
      BY <1>5, <3>1 DEF SharedOut
  <2> QED
    BY <1>3, <2>1 DEF Discarded
<1>8. ASSUME NEW i \in 1..Len(rest), NEW j \in 1..Len(rest), rest[i] = rest[j]
      PROVE  i = j
  <2>1. k + i \in 1..Len(pile) /\ k + j \in 1..Len(pile)
    BY <1>1, <1>5
  <2>2. pile[k + i] = pile[k + j]
    BY <1>5, <1>8
  <2>3. k + i = k + j
    BY <2>1, <2>2 DEF SharedOut
  <2> QED
    BY <2>3
<1>9. /\ \A d \in taken : \A p \in Seat : d \notin hand[p]
      /\ \A d \in taken : d \notin deck["left"] /\ d \notin deck["right"]
  BY <1>6 DEF SharedOut, DrawSide
<1>10. SharedOut(hand, filled, rest)
  BY <1>4, <1>5, <1>6, <1>7, <1>8, <1>9, ZenonT(60) DEF SharedOut, DrawSide
<1> QED
  BY <1>10 DEF filled, rest, taken

(* The players exchange whole hands: seat i gets the hand of seat from[i].  *)
LEMMA ExchangeMovesHands ==
    ASSUME NEW hand, NEW deck, NEW pile, SharedOut(hand, deck, pile),
           NEW from \in [Seat -> Seat],
           \A i, j \in Seat : from[i] = from[j] => i = j,
           \A j \in Seat : \E i \in Seat : from[i] = j
    PROVE  SharedOut([i \in Seat |-> hand[from[i]]], deck, pile)
<1> DEFINE moved == [i \in Seat |-> hand[from[i]]]
<1>1. moved \in [Seat -> SUBSET Deck]
  BY DEF SharedOut
<1>2. \A i \in Seat : moved[i] = hand[from[i]] /\ from[i] \in Seat
  OBVIOUS
<1> HIDE DEF moved
<1>3. \A c : (\E p \in Seat : c \in hand[p]) => \E p \in Seat : c \in moved[p]
  BY <1>2
<1>4. \A p, q \in Seat : p # q => \A c \in moved[p] : c \notin moved[q]
  BY <1>2 DEF SharedOut
<1>5. SharedOut(moved, deck, pile)
  BY <1>1, <1>2, <1>3, <1>4 DEF SharedOut
<1> QED
  BY <1>5 DEF moved

(***************************************************************************)
(* Rotation: the nearest player in one direction and the nearest player in *)
(* the other undo each other.                                              *)
(***************************************************************************)
LEMMA NextIsReversible ==
    ASSUME NEW eliminated, NEW i \in AliveSeats(eliminated), NEW direction
    PROVE  LET next == getNextAliveIndex(eliminated, i, direction)
           IN  getNextAliveIndex(eliminated, next, reverseDirection(direction))
                  = i
<1> DEFINE alive == AliveSeats(eliminated)
           back == reverseDirection(direction)
           next == getNextAliveIndex(eliminated, i, direction)
           here == getNextAliveIndex(eliminated, next, back)
<1>1. alive \in SUBSET Int /\ alive \in SUBSET Seat /\ i \in Seat
  BY NAssumption DEF AliveSeats, Seat
<1>2. /\ next \in alive
      /\ \A k \in alive : Steps(i, next, direction) <= Steps(i, k, direction)
  BY <1>1, NextIsNearest
<1>3. /\ here \in alive
      /\ \A k \in alive : Steps(next, here, back) <= Steps(next, k, back)
  BY <1>1, <1>2, NextIsNearest
<1> HIDE DEF next, here, back
<1>4. \A j, k \in Seat : Steps(j, k, back) = Steps(k, j, direction)
  BY DEF Steps, back, reverseDirection
<1>5. Steps(here, next, direction) <= Steps(i, next, direction)
  BY <1>1, <1>2, <1>3, <1>4
<1>6. here # i => Steps(i, here, direction) < Steps(i, next, direction)
  BY <1>1, <1>2, <1>3, <1>5, NAssumption DEF Steps, Seat
<1>7. Steps(i, next, direction) <= Steps(i, here, direction)
  BY <1>2, <1>3
<1>8. here = i
  BY <1>1, <1>2, <1>3, <1>6, <1>7, StepsAreNatural
<1> QED
  BY <1>8 DEF here, next, back

LEMMA ReverseTwice ==
    ASSUME NEW direction
    PROVE  LET back == reverseDirection(direction)
           IN  reverseDirection(reverseDirection(back)) = back
BY DEF reverseDirection

(* rotateHands deals out the hands anew among the players in the game.      *)
LEMMA RotationMovesHands ==
    ASSUME NEW hand, NEW deck, NEW pile, SharedOut(hand, deck, pile),
           NEW eliminated, NEW direction
    PROVE  SharedOut(rotateHands(hand, eliminated, direction), deck, pile)
<1> DEFINE alive == AliveSeats(eliminated)
           back == reverseDirection(direction)
           forth == reverseDirection(back)
           previous(i) == getNextAliveIndex(eliminated, i, back)
           following(i) == getNextAliveIndex(eliminated, i, forth)
           from == [i \in Seat |-> IF eliminated[i] THEN i ELSE previous(i)]
<1>1. \A i \in alive : /\ previous(i) \in alive /\ following(i) \in alive
                       /\ following(previous(i)) = i
                       /\ previous(following(i)) = i
  <2> SUFFICES ASSUME NEW i \in alive
               PROVE  /\ previous(i) \in alive /\ following(i) \in alive
                      /\ following(previous(i)) = i
                      /\ previous(following(i)) = i
    OBVIOUS
  <2>1. i \in Seat /\ alive # {}
    BY DEF AliveSeats
  <2>2. previous(i) \in alive /\ following(i) \in alive
    BY <2>1, NextIsAlive
  <2>3. following(previous(i)) = i
    BY NextIsReversible
  <2>4. reverseDirection(forth) = back
    BY ReverseTwice
  <2>5. previous(following(i)) = i
    BY <2>4, NextIsReversible
  <2> QED
    BY <2>2, <2>3, <2>5
<1>2. \A i \in Seat : i \in alive <=> ~eliminated[i]
  BY DEF AliveSeats
<1>3. alive \in SUBSET Seat
  BY DEF AliveSeats
<1> HIDE DEF alive, previous, following, back, forth
<1>4. from \in [Seat -> Seat]
  BY <1>1, <1>2, <1>3
<1>5. \A i \in Seat : from[i] = IF i \in alive THEN previous(i) ELSE i
  BY <1>2
<1> HIDE DEF from
<1>6. \A i, j \in Seat : from[i] = from[j] => i = j
  BY <1>1, <1>5
<1>7. \A j \in Seat : \E i \in Seat : from[i] = j
  BY <1>1, <1>3, <1>5
<1>8. SharedOut([i \in Seat |-> hand[from[i]]], deck, pile)
  BY <1>4, <1>6, <1>7, ExchangeMovesHands
<1>9. rotateHands(hand, eliminated, direction) = [i \in Seat |-> hand[from[i]]]
  BY <1>2, <1>5 DEF rotateHands, previous, back
<1> QED
  BY <1>8, <1>9

(***************************************************************************)
(* The operators of GameEngine                                             *)
(***************************************************************************)

(* s is a game state as far as its fields go, and every card is in one      *)
(* place of it.                                                             *)
InPlace(s) ==
    /\ DOMAIN s = StateField
    /\ SharedOut(s.hand, s.deck, s.discardPile)
    /\ s.deckInitialCount \in [DrawSide -> Nat]

LEMMA CheckRoundEndInPlace ==
    ASSUME NEW s, InPlace(s), NEW p
    PROVE  InPlace(checkRoundEnd(s, p))
<1> DEFINE total == s.score[p] + RoundScore(s, p)
           decided == [s EXCEPT !.score[p] = total,
                                !.roundWins[p] = @ + 1,
                                !.phase = IF total >= TargetScore
                                          THEN "game_over" ELSE "round_end",
                                !.winnerId = p]
<1> HIDE DEF total
<1>1. InPlace(decided)
  BY DEF InPlace, StateField
<1> HIDE DEF decided
<1>2. InPlace(withPenaltyStateDefaults(decided))
  BY <1>1 DEF InPlace, StateField, withPenaltyStateDefaults
<1> QED
  BY <1>2 DEF checkRoundEnd, decided, total

LEMMA StartPenaltyDrawInPlace ==
    ASSUME NEW s, InPlace(s), NEW p, NEW count, NEW next, NEW source
    PROVE  InPlace(startPenaltyDraw(s, p, count, next, source))
BY DEF InPlace, StateField, startPenaltyDraw

LEMMA StartQueuedPenaltyInPlace ==
    ASSUME NEW s, InPlace(s)
    PROVE  InPlace(startQueuedPenalty(s))
<1>1. InPlace([s EXCEPT !.pendingPenaltyQueue = Tail(@)])
  BY DEF InPlace, StateField
<1> QED
  BY <1>1, StartPenaltyDrawInPlace DEF startQueuedPenalty

LEMMA DrainPenaltyQueueInPlace ==
    ASSUME NEW s, InPlace(s)
    PROVE  InPlace(drainPenaltyQueue(s))
BY StartQueuedPenaltyInPlace DEF drainPenaltyQueue

LEMMA FinishPenaltyDrawInPlace ==
    ASSUME NEW s, InPlace(s), NEW lastAction
    PROVE  InPlace(finishPenaltyDrawIfNeeded(s, lastAction))
<1> DEFINE paid == [s EXCEPT !.pendingPenaltyDraws = 0,
                             !.pendingPenaltyNextPlayerIndex = null,
                             !.pendingPenaltySourcePlayerId = null,
                             !.lastAction = lastAction]
           finished == [paid EXCEPT
                          !.currentPlayerIndex = s.pendingPenaltyNextPlayerIndex]
<1>1. InPlace(paid)
  BY DEF InPlace, StateField
<1> HIDE DEF paid
<1>2. InPlace(finished)
  BY <1>1 DEF InPlace, StateField
<1> HIDE DEF finished
<1>3. InPlace([s EXCEPT !.pendingPenaltyDraws = @ - 1,
                        !.lastAction = lastAction])
  BY DEF InPlace, StateField
<1> QED
  BY <1>1, <1>2, <1>3, StartQueuedPenaltyInPlace, CheckRoundEndInPlace
     DEF finishPenaltyDrawIfNeeded, paid, finished

LEMMA WithSideRefilledInPlace ==
    ASSUME NEW s, InPlace(s), NEW side \in DrawSide
    PROVE  InPlace(withSideRefilled(s, side))
<1> DEFINE available == Len(s.discardPile) - 1
           takeCount == IF s.deckInitialCount[side] < available
                        THEN s.deckInitialCount[side] ELSE available
           taken == {s.discardPile[i] : i \in 1..takeCount}
           filled == [s.deck EXCEPT ![side] = taken]
           rest == SubSeq(s.discardPile, takeCount + 1, Len(s.discardPile))
           colors == [w \in Wild |-> IF w \in taken THEN null
                                                    ELSE s.chosenColor[w]]
<1> SUFFICES ASSUME s.deck[side] = {}, Len(s.discardPile) > 1
             PROVE  InPlace([s EXCEPT !.deck[side] = taken,
                                      !.discardPile = rest,
                                      !.chosenColor = colors])
  BY DEF withSideRefilled
<1>1. Len(s.discardPile) \in Nat /\ s.deckInitialCount[side] \in Nat
  BY DEF InPlace, SharedOut
<1>2. takeCount \in Nat /\ takeCount <= Len(s.discardPile)
  BY <1>1
<1> HIDE DEF takeCount
<1>3. SharedOut(s.hand, filled, rest)
  BY <1>2, RefillMovesCards DEF InPlace
<1> HIDE DEF taken, rest, colors
<1> QED
  BY <1>3 DEF InPlace, StateField

(* A draw takes a card of the side deck, refilled when it had run out; when *)
(* there is none, it takes nothing.                                         *)
Drawable(s, side, card) == CanYield(s, side) # {} => card \in CanYield(s, side)

LEMMA DrawCardsInPlace ==
    ASSUME NEW s, InPlace(s), NEW p \in Seat, NEW side \in DrawSide, NEW card,
           Drawable(s, side, card)
    PROVE  InPlace(drawCards(s, p, side, card))
<1> DEFINE refilled == withSideRefilled(s, side)
           hands == [refilled.hand EXCEPT ![p] = @ \cup {card}]
           decks == [refilled.deck EXCEPT ![side] = @ \ {card}]
<1>1. InPlace(refilled)
  BY WithSideRefilledInPlace
<1>2. refilled.deck[side] # {} => card \in refilled.deck[side]
  BY DEF Drawable, CanYield
<1> HIDE DEF refilled
<1>3. refilled.deck[side] # {} => SharedOut(hands, decks, refilled.discardPile)
  BY <1>1, <1>2, DrawMovesCard DEF InPlace
<1>4. ASSUME refilled.deck[side] # {}
      PROVE  InPlace([refilled EXCEPT !.deck[side] = @ \ {card},
                                      !.hand[p] = @ \cup {card},
                                      !.calledUno[p] = FALSE,
                                      !.unoCaught[p] = FALSE])
  BY <1>1, <1>3, <1>4 DEF InPlace, StateField
<1> QED
  BY <1>1, <1>4 DEF drawCards, refilled

LEMMA HandleDrawCardInPlace ==
    ASSUME NEW s, InPlace(s), NEW p \in Seat, NEW side \in DrawSide, NEW card,
           Drawable(s, side, card)
    PROVE  InPlace(handleDrawCard(s, p, side, card))
<1> DEFINE drawn == drawCards(s, p, side, card)
<1>1. InPlace(drawn)
  BY DrawCardsInPlace
<1> HIDE DEF drawn
<1>2. InPlace([drawn EXCEPT !.lastAction = Acted("DRAW_CARD", p)])
  BY <1>1 DEF InPlace, StateField
<1> QED
  BY <1>1, <1>2, FinishPenaltyDrawInPlace DEF handleDrawCard, drawn

LEMMA WithCardDiscardedInPlace ==
    ASSUME NEW s, InPlace(s), NEW p \in Seat, NEW c \in s.hand[p]
    PROVE  InPlace(withCardDiscarded(s, p, c))
<1>1. SharedOut([s.hand EXCEPT ![p] = @ \ {c}], s.deck,
                Append(s.discardPile, c))
  BY PlayMovesCard DEF InPlace
<1> QED
  BY <1>1 DEF InPlace, StateField, withCardDiscarded

LEMMA WithUnoFlagsInPlace ==
    ASSUME NEW s, InPlace(s), NEW p
    PROVE  InPlace(withUnoFlagsAfterPlay(s, p))
BY DEF InPlace, StateField, withUnoFlagsAfterPlay

LEMMA WithCardEffectInPlace ==
    ASSUME NEW s, InPlace(s), NEW p, NEW c \in Deck
    PROVE  InPlace(withCardEffect(s, p, c))
<1> DEFINE next == getNextAliveIndex(s.eliminated, p, s.direction)
           afterNext == skipNextAliveIndex(s.eliminated, p, s.direction)
<1>1. type[c] \in CardType
  BY DeckAssumption
<1>2. ASSUME NEW turn, NEW direction
      PROVE  /\ InPlace([s EXCEPT !.currentColor = color[c],
                                  !.currentPlayerIndex = turn])
             /\ InPlace([s EXCEPT !.currentColor = color[c],
                                  !.direction = direction,
                                  !.currentPlayerIndex = turn])
  BY DEF InPlace, StateField
<1>3. InPlace([s EXCEPT !.currentColor = color[c]])
  BY DEF InPlace, StateField
<1>4. InPlace(startPenaltyDraw([s EXCEPT !.currentColor = color[c]],
                               next, 2, afterNext, p))
  BY <1>3, StartPenaltyDrawInPlace
<1>5. /\ InPlace([s EXCEPT !.phase = "choosing_color"])
      /\ InPlace([s EXCEPT !.phase = "choosing_color",
                           !.pendingDrawPlayerId = next])
  BY DEF InPlace, StateField
<1> HIDE DEF next, afterNext
<1> QED
  BY <1>1, <1>2, <1>4, <1>5 DEF withCardEffect, CardType, next, afterNext

LEMMA HandlePlayCardInPlace ==
    ASSUME NEW s, InPlace(s), NEW p \in Seat, NEW c \in s.hand[p]
    PROVE  InPlace(handlePlayCard(s, p, c))
<1>1. c \in Deck
  BY DEF InPlace, SharedOut
<1> QED
  BY <1>1, WithCardDiscardedInPlace, WithUnoFlagsInPlace,
     WithCardEffectInPlace, CheckRoundEndInPlace DEF handlePlayCard

LEMMA HandlePassInPlace ==
    ASSUME NEW s, InPlace(s), NEW p
    PROVE  InPlace(handlePass(s, p))
<1> DEFINE passed == [s EXCEPT !.lastAction = Acted("PASS", p)]
           advanced == [passed EXCEPT !.currentPlayerIndex =
                          getNextAliveIndex(s.eliminated, p, s.direction)]
           ended == [passed EXCEPT !.phase = "round_end", !.winnerId = null]
<1>1. InPlace(passed)
  BY DEF InPlace, StateField
<1> HIDE DEF passed
<1>2. InPlace(advanced) /\ InPlace(ended)
  BY <1>1 DEF InPlace, StateField
<1> HIDE DEF advanced, ended
<1>3. /\ InPlace(withPenaltyStateDefaults(ended))
      /\ InPlace(withPenaltyStateDefaults(advanced))
  BY <1>2 DEF InPlace, StateField, withPenaltyStateDefaults
<1> QED
  BY <1>2, <1>3 DEF handlePass, passed, advanced, ended

LEMMA HandleChooseColorInPlace ==
    ASSUME NEW s, InPlace(s), NEW p, NEW chosen
    PROVE  InPlace(handleChooseColor(s, p, chosen))
<1> DEFINE colored == [s EXCEPT !.chosenColor[topCard(s)] = chosen,
                                !.currentColor = chosen,
                                !.lastAction = Acted("CHOOSE_COLOR", p)]
           challenged == [colored EXCEPT !.phase = "challenging"]
           played == [colored EXCEPT
                        !.phase = "playing",
                        !.currentPlayerIndex =
                           getNextAliveIndex(s.eliminated, p, s.direction)]
<1>1. InPlace(colored)
  BY DEF InPlace, StateField
<1> HIDE DEF colored
<1>2. InPlace(challenged) /\ InPlace(played)
  BY <1>1 DEF InPlace, StateField
<1> HIDE DEF challenged, played
<1> QED
  BY <1>2, DrainPenaltyQueueInPlace
     DEF handleChooseColor, colored, challenged, played

LEMMA SettleWildDrawFourInPlace ==
    ASSUME NEW s, InPlace(s), NEW lastAction, NEW p, NEW count, NEW source
    PROVE  InPlace(settleWildDrawFour(s, lastAction, p, count, source))
<1>1. InPlace([s EXCEPT !.phase = "playing", !.pendingDrawPlayerId = null,
                        !.pendingRevengeDraws = 0,
                        !.lastAction = lastAction])
  BY DEF InPlace, StateField
<1> QED
  BY <1>1, StartPenaltyDrawInPlace DEF settleWildDrawFour

LEMMA AnswersInPlace ==
    ASSUME NEW s, InPlace(s), NEW p
    PROVE  InPlace(handleChallenge(s, p)) /\ InPlace(handleAccept(s, p))
BY SettleWildDrawFourInPlace DEF handleChallenge, handleAccept

LEMMA UnoCallsInPlace ==
    ASSUME NEW s, InPlace(s), NEW p, NEW count
    PROVE  InPlace(handleCallUno(s, p)) /\ InPlace(handleCatchUno(s, p, count))
<1>1. InPlace(handleCallUno(s, p))
  BY DEF InPlace, StateField, handleCallUno
<1>2. InPlace([s EXCEPT !.unoCaught[p] = TRUE,
                        !.lastAction = Acted("CATCH_UNO", null)])
  BY DEF InPlace, StateField
<1> QED
  BY <1>1, <1>2, StartPenaltyDrawInPlace DEF handleCatchUno

(***************************************************************************)
(* The operators of HouseRules                                             *)
(***************************************************************************)

(* zeroRotate, sevenSwapPost, revengeMode and multiPlayPost.                *)
LEMMA TurnPluginsInPlace ==
    ASSUME NEW before, NEW after, InPlace(after), NEW c
    PROVE  /\ InPlace(zeroRotate(before, after, c))
           /\ InPlace(sevenSwapPost(before, after, c))
           /\ InPlace(revengeMode(before, after, c))
           /\ InPlace(multiPlayPost(before, after, c))
<1>1. InPlace(zeroRotate(before, after, c))
  <2> DEFINE hands == rotateHands(after.hand, after.eliminated, after.direction)
  <2>1. SharedOut(hands, after.deck, after.discardPile)
    BY RotationMovesHands DEF InPlace
  <2> HIDE DEF hands
  <2>2. InPlace([after EXCEPT !.hand = hands])
    BY <2>1 DEF InPlace, StateField
  <2> QED
    BY <2>2 DEF zeroRotate, hands
<1>2. InPlace(sevenSwapPost(before, after, c))
  BY DEF InPlace, StateField, sevenSwapPost
<1>3. InPlace(revengeMode(before, after, c))
  <2>1. InPlace([after EXCEPT !.pendingRevengeDraws = @ + 4])
    BY DEF InPlace, StateField
  <2> QED
    BY <2>1, StartPenaltyDrawInPlace DEF revengeMode
<1>4. InPlace(multiPlayPost(before, after, c))
  <2>1. InPlace([after EXCEPT !.currentPlayerIndex = before.currentPlayerIndex])
    BY DEF InPlace, StateField
  <2> QED
    BY <2>1 DEF multiPlayPost
<1> QED
  BY <1>1, <1>2, <1>3, <1>4

(* doubleScore, teamMode and elimination.                                   *)
LEMMA SettleRoundInPlace ==
    ASSUME NEW before, NEW after, InPlace(after)
    PROVE  InPlace(settleRound(before, after))
<1> DEFINE doubled == doubleScore(before, after)
           shared == teamMode(before, doubled)
           loser == CHOOSE p \in Seat : IsLoser(shared, p)
           without == [shared EXCEPT !.eliminated[loser] = TRUE]
<1>1. InPlace(doubled)
  <2>1. ASSUME NEW w, NEW total PROVE InPlace([after EXCEPT !.score[w] = total])
    BY DEF InPlace, StateField
  <2> QED
    BY <2>1 DEF doubleScore
<1> HIDE DEF doubled
<1>2. InPlace(shared)
  <2>1. ASSUME NEW score PROVE InPlace([doubled EXCEPT !.score = score])
    BY <1>1 DEF InPlace, StateField
  <2> QED
    BY <1>1, <2>1 DEF teamMode
<1> HIDE DEF shared, loser
<1>3. InPlace(without)
  BY <1>2 DEF InPlace, StateField
<1> HIDE DEF without
<1>4. ASSUME NEW w
      PROVE  InPlace([without EXCEPT !.phase = "game_over", !.winnerId = w])
  BY <1>3 DEF InPlace, StateField
<1>5. InPlace(elimination(before, shared))
  BY <1>2, <1>3, <1>4 DEF elimination, without, loser
<1> QED
  BY <1>5 DEF settleRound, shared, doubled

LEMMA PostProcessPlayInPlace ==
    ASSUME NEW before, NEW after, InPlace(after), NEW c
    PROVE  InPlace(postProcessPlay(before, after, c))
BY TurnPluginsInPlace, SettleRoundInPlace DEF postProcessPlay

LEMMA PostProcessDrawInPlace ==
    ASSUME NEW before, NEW after, InPlace(after), NEW p \in Seat, NEW card
    PROVE  InPlace(postProcessDraw(before, after, p, card))
<1>1. InPlace(forcedPlayAfterDraw(before, after, p, card))
  BY HandlePlayCardInPlace DEF forcedPlayAfterDraw, playCardAllowed
<1> QED
  BY <1>1, SettleRoundInPlace DEF postProcessDraw

LEMMA HandledPlayInPlace ==
    ASSUME NEW before, NEW result, InPlace(result), NEW c
    PROVE  InPlace(handledPlay(before, result, c))
BY DrainPenaltyQueueInPlace, PostProcessPlayInPlace DEF handledPlay

LEMMA DeflectionInPlace ==
    ASSUME NEW s, InPlace(s), NEW p \in Seat, NEW c \in s.hand[p]
    PROVE  InPlace(deflection(s, p, c))
<1> DEFINE discarded == withCardDiscarded(s, p, c)
           played == withDeflectionPlayed(s, p, c)
           answered == [played EXCEPT !.phase = "playing",
                                      !.pendingDrawPlayerId = null,
                                      !.pendingRevengeDraws = 0]
           passed == [played EXCEPT !.currentPlayerIndex =
                        getNextAliveIndex(s.eliminated, p, played.direction)]
<1>1. InPlace(discarded)
  BY WithCardDiscardedInPlace
<1> HIDE DEF discarded
<1>2. InPlace(played)
  <2>1. ASSUME NEW direction
        PROVE  InPlace([discarded EXCEPT !.currentColor = color[c],
                                         !.direction = direction])
    BY <1>1 DEF InPlace, StateField
  <2> QED
    BY <2>1 DEF withDeflectionPlayed, discarded
<1> HIDE DEF played
<1>3. InPlace(answered) /\ InPlace(passed)
  BY <1>2 DEF InPlace, StateField
<1> HIDE DEF answered, passed
<1>4. InPlace(checkRoundEnd(answered, p)) /\ InPlace(checkRoundEnd(passed, p))
  BY <1>3, CheckRoundEndInPlace
<1> QED
  BY <1>4, StartPenaltyDrawInPlace
     DEF deflection, deflectChallenge, deflectStack, answered, passed, played

LEMMA AttackCardInPlace ==
    ASSUME NEW s, InPlace(s), NEW p \in Seat, NEW c \in s.hand[p], NEW chosen
    PROVE  InPlace(putAttackCardOnStack(s, p, c, chosen))
<1> DEFINE played == withUnoFlagsAfterPlay(withCardDiscarded(s, p, c), p)
           colored == IF type[c] = "draw_two"
                      THEN [played EXCEPT !.currentColor = color[c]]
                      ELSE [played EXCEPT !.currentColor = chosen,
                                          !.chosenColor[c] = chosen]
           stacked == [colored EXCEPT
                         !.drawStack = @ + getCardDrawPenalty(c),
                         !.currentPlayerIndex =
                            getNextAliveIndex(s.eliminated, p, s.direction)]
<1>1. InPlace(played)
  BY WithCardDiscardedInPlace, WithUnoFlagsInPlace
<1> HIDE DEF played
<1>2. InPlace(colored)
  BY <1>1 DEF InPlace, StateField
<1> HIDE DEF colored
<1>3. InPlace(stacked)
  BY <1>2 DEF InPlace, StateField
<1> HIDE DEF stacked
<1> QED
  BY <1>3, CheckRoundEndInPlace
     DEF putAttackCardOnStack, stacked, colored, played

LEMMA StackingInPlace ==
    ASSUME NEW s, InPlace(s), NEW p \in Seat, NEW c \in s.hand[p], NEW chosen
    PROVE  InPlace(stacking(s, p, c, chosen))
<1> DEFINE answered == [s EXCEPT !.phase = "playing",
                                 !.pendingDrawPlayerId = null,
                                 !.drawStack = 4 + s.pendingRevengeDraws,
                                 !.pendingRevengeDraws = 0,
                                 !.currentPlayerIndex = p]
<1>1. InPlace(answered) /\ answered.hand = s.hand
  BY DEF InPlace, StateField
<1> HIDE DEF answered
<1> QED
  BY <1>1, AttackCardInPlace DEF stacking, answered

LEMMA JumpInInPlace ==
    ASSUME NEW s, InPlace(s), NEW p \in Seat, NEW c \in s.hand[p], NEW chosen
    PROVE  InPlace(jumpIn(s, p, c, chosen))
<1> DEFINE played == withCardDiscarded(s, p, c)
           next == getNextAliveIndex(played.eliminated, p, played.direction)
           afterNext == skipNextAliveIndex(played.eliminated, p,
                                           played.direction)
           toNext == [played EXCEPT !.currentPlayerIndex = next]
           colored == [toNext EXCEPT !.currentColor = color[c]]
           wildColored == withWildColor(toNext, c, chosen)
           attacked == IF chosen # null
                       THEN [withWildColor(played, c, chosen)
                               EXCEPT !.phase = "challenging"]
                       ELSE [played EXCEPT !.phase = "choosing_color"]
           hands == rotateHands(played.hand, played.eliminated,
                                played.direction)
<1>1. InPlace(played)
  BY WithCardDiscardedInPlace
<1> HIDE DEF played
<1>2. type[c] \in CardType
  BY DeckAssumption DEF InPlace, SharedOut
<1>3. InPlace(withCardEffect(played, p, c))
  BY <1>1, WithCardEffectInPlace DEF InPlace, SharedOut
<1>4. InPlace(toNext)
  BY <1>1 DEF InPlace, StateField
<1>5. /\ toNext.deck = played.deck
      /\ toNext.discardPile = played.discardPile
  BY <1>1 DEF InPlace, StateField
<1> HIDE DEF toNext
<1>6. InPlace(colored) /\ InPlace(wildColored)
  BY <1>4 DEF InPlace, StateField, withWildColor
<1>7. /\ colored.deck = played.deck
      /\ colored.discardPile = played.discardPile
  BY <1>4, <1>5 DEF InPlace, StateField
<1> HIDE DEF colored, wildColored, next, afterNext
<1>8. InPlace(startPenaltyDraw(colored, next, 2, afterNext, p))
  BY <1>6, StartPenaltyDrawInPlace
<1>9. InPlace(startPenaltyDraw(startPenaltyDraw(colored, next, 2, afterNext, p),
                               next, 2, afterNext, null))
  BY <1>8, StartPenaltyDrawInPlace
<1>10. InPlace([played EXCEPT !.phase = "choosing_color",
                              !.currentPlayerIndex = p])
  BY <1>1 DEF InPlace, StateField
<1>11. InPlace([attacked EXCEPT !.currentPlayerIndex = p,
                                !.pendingDrawPlayerId = next])
  <2>1. InPlace(attacked)
    BY <1>1 DEF InPlace, StateField, withWildColor
  <2> HIDE DEF attacked
  <2> QED
    BY <2>1 DEF InPlace, StateField
<1>12. SharedOut(hands, played.deck, played.discardPile)
  BY <1>1, RotationMovesHands DEF InPlace
<1> HIDE DEF hands
<1>13. /\ InPlace([colored EXCEPT !.hand = hands])
       /\ InPlace([colored EXCEPT !.phase = "choosing_swap_target",
                                  !.currentPlayerIndex = p])
  BY <1>6, <1>7, <1>12 DEF InPlace, StateField
<1>14. InPlace(withJumpInEffect(played, s, p, c, chosen))
  BY <1>2, <1>3, <1>6, <1>8, <1>9, <1>10, <1>11, <1>13
     DEF withJumpInEffect, CardType, next, afterNext, toNext, colored,
         wildColored, attacked, hands
<1> QED
  BY <1>14, CheckRoundEndInPlace DEF jumpIn, played

(* What a side deck can yield depends on the cards alone.                   *)
LEMMA SameYield ==
    ASSUME NEW s, InPlace(s), NEW t, InPlace(t), NEW side \in DrawSide,
           t.deck = s.deck, t.discardPile = s.discardPile,
           t.deckInitialCount = s.deckInitialCount
    PROVE  CanYield(t, side) = CanYield(s, side)
BY DEF InPlace, SharedOut, StateField, CanYield, withSideRefilled

LEMMA ResolveStackInPlace ==
    ASSUME NEW s, InPlace(s), NEW p \in Seat, NEW side \in DrawSide, NEW card,
           Drawable(s, side, card)
    PROVE  InPlace(resolveStack(s, p, side, card))
<1> DEFINE taken == [s EXCEPT !.drawStack = 0,
                              !.lastAction = Acted("DRAW_CARD", p)]
           next == getNextAliveIndex(s.eliminated, p, s.direction)
           source == IF s.lastAction.type = "PLAY_CARD"
                     THEN s.lastAction.playerId ELSE null
           started == startPenaltyDraw(taken, p, s.drawStack, next, source)
<1>1. /\ InPlace(taken)
      /\ taken.deck = s.deck /\ taken.discardPile = s.discardPile
      /\ taken.deckInitialCount = s.deckInitialCount
  BY DEF InPlace, StateField
<1> HIDE DEF taken, next, source
<1>2. /\ InPlace(started)
      /\ started.deck = s.deck /\ started.discardPile = s.discardPile
      /\ started.deckInitialCount = s.deckInitialCount
  BY <1>1, StartPenaltyDrawInPlace DEF InPlace, StateField, startPenaltyDraw
<1> HIDE DEF started
<1>3. Drawable(started, side, card)
  BY <1>2, SameYield DEF Drawable
<1> QED
  BY <1>2, <1>3, HandleDrawCardInPlace
     DEF resolveStack, started, taken, next, source

LEMMA MultiPlayPassInPlace ==
    ASSUME NEW s, InPlace(s), NEW p
    PROVE  InPlace(multiPlayPass(s, p))
<1> DEFINE next == getNextAliveIndex(s.eliminated, p, s.direction)
           passed == [s EXCEPT !.currentPlayerIndex = next,
                               !.lastAction = Acted("PASS", p)]
<1>1. InPlace(passed)
  BY DEF InPlace, StateField
<1> HIDE DEF passed
<1>2. ASSUME NEW more
      PROVE  InPlace([passed EXCEPT !.pendingPenaltyQueue = @ \o more])
  BY <1>1 DEF InPlace, StateField
<1> QED
  BY <1>1, <1>2, DrainPenaltyQueueInPlace DEF multiPlayPass, passed, next

LEMMA ChooseSwapTargetInPlace ==
    ASSUME NEW s, InPlace(s), NEW p \in Seat, NEW target \in Seat
    PROVE  InPlace(chooseSwapTarget(s, p, target))
<1> DEFINE swapped == [s.hand EXCEPT ![p] = s.hand[target],
                                     ![target] = s.hand[p]]
           from == [i \in Seat |-> IF i = target THEN p
                                   ELSE IF i = p THEN target ELSE i]
<1>1. /\ from \in [Seat -> Seat]
      /\ \A i, j \in Seat : from[i] = from[j] => i = j
      /\ \A j \in Seat : from[from[j]] = j
  OBVIOUS
<1>2. swapped = [i \in Seat |-> s.hand[from[i]]]
  BY DEF InPlace, SharedOut
<1> HIDE DEF from, swapped
<1>3. SharedOut(swapped, s.deck, s.discardPile)
  BY <1>1, <1>2, ExchangeMovesHands DEF InPlace
<1>4. ASSUME NEW called, NEW caught, NEW turn
      PROVE  InPlace([s EXCEPT !.hand = swapped, !.calledUno = called,
                               !.unoCaught = caught, !.phase = "playing",
                               !.currentPlayerIndex = turn,
                               !.lastAction = Acted("CHOOSE_SWAP_TARGET", p)])
  BY <1>3 DEF InPlace, StateField
<1> QED
  BY <1>4, DrainPenaltyQueueInPlace DEF chooseSwapTarget, swapped

(***************************************************************************)
(* The actions                                                             *)
(***************************************************************************)
CardsInPlace == InPlace(state)

(* What the hands, the decks and the first discard of a deal make up        *)
(* together, card by card.                                                  *)
LEMMA UnionCoversDeck ==
    ASSUME NEW hand, NEW left, NEW right, NEW top,
           (UNION {hand[p] : p \in Seat}) \cup left \cup right \cup {top} = Deck
    PROVE  \A c \in Deck : \/ \E p \in Seat : c \in hand[p]
                           \/ c \in left \/ c \in right \/ c = top
<1> DEFINE held == UNION {hand[p] : p \in Seat}
<1>1. \A c : c \in held => \E p \in Seat : c \in hand[p]
  OBVIOUS
<1>2. held \cup left \cup right \cup {top} = Deck
  OBVIOUS
<1> HIDE DEF held
<1>3. \A c \in Deck : c \in held \/ c \in left \/ c \in right \/ c = top
  BY <1>2
<1> QED
  BY <1>1, <1>3

(* A deal shares out the deck.                                              *)
LEMMA DealtStateInPlace ==
    ASSUME NEW d \in Deals, NEW rules, NEW eliminated, NEW score, NEW roundWins,
           NEW teamId, NEW first, NEW round
    PROVE  InPlace(dealtState(d, rules, eliminated, score, roundWins, teamId,
                              first, round))
<1> DEFINE s == dealtState(d, rules, eliminated, score, roundWins, teamId,
                           first, round)
           deck == [side \in DrawSide |->
                      IF side = "left" THEN d.left ELSE d.right]
           count == [side \in DrawSide |->
                      Cardinality(IF side = "left" THEN d.left ELSE d.right)]
           pile == <<d.top>>
<1>1. /\ d.hand \in [Seat -> SUBSET Deck]
      /\ d.left \in SUBSET Deck /\ d.right \in SUBSET Deck /\ d.top \in Deck
      /\ \A p, q \in Seat : p # q => d.hand[p] \cap d.hand[q] = {}
      /\ d.left \cap d.right = {}
      /\ \A p \in Seat : d.hand[p] \cap (d.left \cup d.right) = {}
      /\ d.top \notin (UNION {d.hand[p] : p \in Seat}) \cup d.left \cup d.right
      /\ (UNION {d.hand[p] : p \in Seat}) \cup d.left \cup d.right \cup {d.top}
            = Deck
  BY UnoGameAssumption DEF IsDeal
<1>2. /\ deck \in [DrawSide -> SUBSET Deck]
      /\ deck["left"] = d.left /\ deck["right"] = d.right
      /\ DrawSide = {"left", "right"}
  BY <1>1 DEF DrawSide
<1>3. count \in [DrawSide -> Nat]
  <2>1. Cardinality(d.left) \in Nat /\ Cardinality(d.right) \in Nat
    BY <1>1, DeckAssumption, FS_Subset, FS_CardinalityType
  <2> QED
    BY <2>1
<1>4. /\ pile \in Seq(Deck) /\ Len(pile) = 1 /\ pile[1] = d.top
      /\ \A c : Discarded(pile, c) <=> c = d.top
  BY <1>1 DEF Discarded
<1>5. /\ DOMAIN s = StateField /\ s.hand = d.hand /\ s.deck = deck
      /\ s.discardPile = pile /\ s.deckInitialCount = count
  BY DEF dealtState, StateField
<1> HIDE DEF s, deck, count, pile
<1>6. \A c \in Deck : \/ \E p \in Seat : c \in d.hand[p]
                      \/ c \in d.left \/ c \in d.right \/ c = d.top
  BY <1>1, UnionCoversDeck
<1>7. /\ \A p \in Seat : \A c \in d.hand[p] :
            c \notin d.left /\ c \notin d.right /\ c # d.top
      /\ \A c \in d.left : c \notin d.right /\ c # d.top
      /\ \A c \in d.right : c # d.top
  BY <1>1
<1>8. \A p, q \in Seat : p # q => \A c \in d.hand[p] : c \notin d.hand[q]
  BY <1>1
<1>9. SharedOut(d.hand, deck, pile)
  BY <1>1, <1>2, <1>4, <1>6, <1>7, <1>8 DEF SharedOut
<1> QED
  BY <1>3, <1>5, <1>9 DEF InPlace, s

LEMMA TurnActionInPlace ==
    ASSUME InPlace(state), NEW p \in Seat, TurnAction(p)
    PROVE  InPlace(state')
<1>1. ASSUME NEW c \in state.hand[p],
             \/ PlayCard(p, c)
             \/ ForfeitFinishRestriction(p, c)
             \/ Deflect(p, c)
             \/ ForcedPlayWithoutDraw(p, c)
      PROVE  InPlace(state')
  <2>1. CASE PlayCard(p, c)
    BY <2>1, HandlePlayCardInPlace, PostProcessPlayInPlace DEF PlayCard
  <2>2. CASE ForfeitFinishRestriction(p, c)
    BY <2>2, HandlePassInPlace, HandledPlayInPlace DEF ForfeitFinishRestriction
  <2>3. CASE Deflect(p, c)
    BY <2>3, DeflectionInPlace, HandledPlayInPlace DEF Deflect
  <2>4. CASE ForcedPlayWithoutDraw(p, c)
    BY <2>4, PostProcessDrawInPlace DEF ForcedPlayWithoutDraw
  <2> QED
    BY <1>1, <2>1, <2>2, <2>3, <2>4
<1>2. ASSUME NEW c \in state.hand[p], NEW chosen \in Color \cup {null},
             Stack(p, c, chosen)
      PROVE  InPlace(state')
  BY <1>2, StackingInPlace, HandledPlayInPlace DEF Stack
<1>3. ASSUME NEW c \in state.hand[p],
             NEW card \in CanYield(state, LongerSide(state)),
             PayFinishRestriction(p, c, card)
      PROVE  InPlace(state')
  <2>1. LongerSide(state) \in DrawSide
    BY LongerSideIsSide
  <2>2. InPlace(finishPenaltyCard(state, p, card))
    BY <2>1, DrawCardsInPlace DEF finishPenaltyCard, Drawable
  <2> QED
    BY <1>3, <2>2, HandledPlayInPlace DEF PayFinishRestriction
<1>4. ASSUME NEW side \in DrawSide, NEW card \in drawnCards(p, side),
             \/ DrawCard(p, side, card)
             \/ DrawUntilPlayable(p, side, card)
             \/ TakeStack(p, side, card)
      PROVE  InPlace(state')
  <2>1. Drawable(state, side, card)
    BY DEF Drawable, drawnCards
  <2>2. InPlace(handleDrawCard(state, p, side, card))
    BY <2>1, HandleDrawCardInPlace
  <2>3. CASE DrawCard(p, side, card)
    BY <2>2, <2>3, PostProcessDrawInPlace DEF DrawCard
  <2>4. CASE DrawUntilPlayable(p, side, card)
    BY <2>2, <2>4 DEF DrawUntilPlayable
  <2>5. CASE TakeStack(p, side, card)
    BY <2>1, <2>5, ResolveStackInPlace, SettleRoundInPlace DEF TakeStack
  <2> QED
    BY <1>4, <2>3, <2>4, <2>5
<1>5. CASE Pass(p)
  BY <1>5, HandlePassInPlace, SettleRoundInPlace DEF Pass
<1>6. CASE EndMultiPlay(p)
  BY <1>6, MultiPlayPassInPlace DEF EndMultiPlay
<1>7. ASSUME NEW chosen \in Color,
             ChooseColor(p, chosen) \/ ChooseColorUnchallenged(p, chosen)
      PROVE  InPlace(state')
  BY <1>7, HandleChooseColorInPlace, SettleWildDrawFourInPlace
     DEF ChooseColor, ChooseColorUnchallenged, chooseColorUnchallenged
<1>8. CASE Challenge(p) \/ Accept(p)
  BY <1>8, AnswersInPlace DEF Challenge, Accept
<1>9. ASSUME NEW target \in Seat, ChooseSwapTarget(p, target)
      PROVE  InPlace(state')
  BY <1>9, ChooseSwapTargetInPlace DEF ChooseSwapTarget
<1> QED
  BY <1>1, <1>2, <1>3, <1>4, <1>5, <1>6, <1>7, <1>8, <1>9 DEF TurnAction

LEMMA SideActionInPlace ==
    ASSUME InPlace(state), NEW p \in Seat, SideAction(p)
    PROVE  InPlace(state')
<1>1. ASSUME NEW c \in state.hand[p], NEW chosen \in Color \cup {null},
             JumpIn(p, c, chosen)
      PROVE  InPlace(state')
  BY <1>1, JumpInInPlace, HandledPlayInPlace DEF JumpIn
<1>2. ASSUME NEW c \in Deck, Misplay(p, c) PROVE InPlace(state')
  BY <1>2, StartPenaltyDrawInPlace, HandledPlayInPlace
     DEF Misplay, misplayPenalty
<1>3. CASE CallUno(p) \/ CatchUno(p)
  BY <1>3, UnoCallsInPlace DEF CallUno, CatchUno
<1> QED
  BY <1>1, <1>2, <1>3 DEF SideAction

LEMMA PlacesAreAll ==
    ASSUME InPlace(state)
    PROVE  CardConservation
<1> DEFINE hand == state.hand
           left == state.deck["left"]
           right == state.deck["right"]
           pile == state.discardPile
<1>1. \A c : c \in DiscardedCards(state) <=> Discarded(pile, c)
  BY DEF DiscardedCards, Discarded
<1>2. \A c : c \in HeldCards(state) <=> \E p \in Seat : c \in hand[p]
  BY DEF HeldCards
<1>3. \A c : c \in DrawableCards(state) <=> c \in left \/ c \in right
  BY DEF DrawableCards
<1>4. /\ left \in SUBSET Deck /\ right \in SUBSET Deck
      /\ \A p \in Seat : hand[p] \in SUBSET Deck
      /\ \A c : Discarded(pile, c) => c \in Deck
  BY DEF InPlace, SharedOut, DrawSide, Discarded
<1>5. /\ \A c \in Deck : \/ \E p \in Seat : c \in hand[p]
                         \/ c \in left \/ c \in right \/ Discarded(pile, c)
      /\ \A p, q \in Seat : p # q => \A c \in hand[p] : c \notin hand[q]
      /\ \A c \in left : c \notin right
      /\ \A p \in Seat : \A c \in hand[p] :
            c \notin left /\ c \notin right /\ ~Discarded(pile, c)
      /\ \A c \in left \cup right : ~Discarded(pile, c)
      /\ \A i, j \in 1..Len(pile) : pile[i] = pile[j] => i = j
  BY DEF InPlace, SharedOut, DrawSide
<1>6. HeldCards(state) \cup DrawableCards(state) \cup DiscardedCards(state)
         = Deck
  BY <1>1, <1>2, <1>3, <1>4, <1>5
<1>7. /\ HeldCards(state) \cap DrawableCards(state) = {}
      /\ (HeldCards(state) \cup DrawableCards(state))
            \cap DiscardedCards(state) = {}
  BY <1>1, <1>2, <1>3, <1>5
<1>8. /\ \A p, q \in Seat : p # q => hand[p] \cap hand[q] = {}
      /\ left \cap right = {}
  BY <1>5
<1> QED
  BY <1>5, <1>6, <1>7, <1>8 DEF CardConservation

(* The places share out the deck in every state of every game: plays,       *)
(* draws, refills, swaps, rotations and deals lose or copy no card.         *)
THEOREM AlwaysInPlace == Spec => []CardsInPlace
<1>1. Init => CardsInPlace
  BY DealtStateInPlace DEF Init, initializeGame, CardsInPlace
<1>2. CardsInPlace /\ [Next]_vars => CardsInPlace'
  <2> SUFFICES ASSUME InPlace(state), [Next]_vars
               PROVE  InPlace(state')
    BY DEF CardsInPlace
  <2>1. ASSUME NEW p \in Seat, TurnAction(p) \/ SideAction(p)
        PROVE  InPlace(state')
    BY <2>1, TurnActionInPlace, SideActionInPlace
  <2>2. CASE NextRound
    BY <2>2, DealtStateInPlace
       DEF NextRound, StartNextRound, initializeNextRound
  <2>3. CASE UNCHANGED vars
    BY <2>3 DEF vars
  <2> QED
    BY <2>1, <2>2, <2>3 DEF Next
<1> QED
  BY <1>1, <1>2, PTL DEF Spec

(* Every card of the deck is in exactly one place in every state of every   *)
(* game, whatever the deck, the number of players and the house rules.      *)
THEOREM CardsAreConserved == Spec => []CardConservation
<1>1. CardsInPlace => CardConservation
  BY PlacesAreAll DEF CardsInPlace
<1> QED
  BY <1>1, AlwaysInPlace, PTL

(***************************************************************************)
(* Who holds cards                                                         *)
(***************************************************************************)
Out(e) == {p \in Seat : e[p]}

(* Nobody out of the game waits for a penalty or for the turn after it.     *)
Waits(queue, e) ==
    \E S : /\ queue \in Seq(S)
           /\ \A q \in S : /\ q.playerId \notin Out(e)
                           /\ q.nextPlayerIndex \notin Out(e)

(* Who holds cards while a round goes on under the rules r: nobody who is   *)
(* out, everybody else but x, whose play is not yet judged.  A jump-in with *)
(* a last zero rotates the empty hand away before it is judged.             *)
HandsFit(hand, r, e, x) ==
    /\ \A p \in Out(e) : hand[p] = {}
    /\ ~({"jumpIn", "zeroRotateHands"} \subseteq r) =>
          \A p \in Seat \ {x} : p \notin Out(e) => hand[p] # {}

(* A call is for a hand of at most two cards.  The rotation of hands leaves *)
(* the calls with the players.                                              *)
CallsFit(hand, called, r) ==
    /\ hand \in [Seat -> SUBSET Deck]
    /\ called \in [Seat -> BOOLEAN]
    /\ "zeroRotateHands" \notin r =>
          \A p \in Seat : called[p] => Cardinality(hand[p]) <= 2

(* The state s of a game with the rules r, from which the players e are     *)
(* eliminated.                                                              *)
Fits(s, r, e, x) ==
    /\ DOMAIN s = StateField
    /\ s.houseRules = r
    /\ s.eliminated = e
    /\ AliveSeats(e) # {}
    /\ CallsFit(s.hand, s.calledUno, r)
    /\ ~terminal(s) =>
          /\ HandsFit(s.hand, r, e, x)
          /\ s.currentPlayerIndex \notin Out(e)
          /\ s.pendingDrawPlayerId \notin Out(e)
          /\ s.pendingPenaltyNextPlayerIndex \notin Out(e)
          /\ Waits(s.pendingPenaltyQueue, e)

(* Two players are still in the game.                                       *)
Paired(e) == \E i, j \in AliveSeats(e) : i # j

(* Whoever dropped out on the way to s, the last two stay until the game is *)
(* over.                                                                    *)
KeepsTwo(e, s) == Paired(e) => s.phase = "game_over" \/ Paired(s.eliminated)

(***************************************************************************)
(* Hands and queues                                                        *)
(***************************************************************************)
LEMMA NullIsNoSeat == null \notin Seat /\ \A e : null \notin Out(e)
BY SettingsAssumption DEF Out

LEMMA NextIsIn ==
    ASSUME NEW e, AliveSeats(e) # {}, NEW i \in Seat, NEW direction
    PROVE  /\ getNextAliveIndex(e, i, direction) \in Seat
           /\ getNextAliveIndex(e, i, direction) \notin Out(e)
           /\ skipNextAliveIndex(e, i, direction) \in Seat
           /\ skipNextAliveIndex(e, i, direction) \notin Out(e)
BY NextIsAlive DEF AliveSeats, Out, skipNextAliveIndex

LEMMA WaitsForMore ==
    ASSUME NEW queue, NEW e, Waits(queue, e), NEW q,
           q.playerId \notin Out(e), q.nextPlayerIndex \notin Out(e)
    PROVE  Waits(Append(queue, q), e)
<1>1. PICK S : /\ queue \in Seq(S)
               /\ \A i \in S : /\ i.playerId \notin Out(e)
                               /\ i.nextPlayerIndex \notin Out(e)
  BY DEF Waits
<1>2. queue \in Seq(S \cup {q})
  BY <1>1
<1>3. Append(queue, q) \in Seq(S \cup {q})
  BY <1>2
<1> QED
  BY <1>1, <1>3 DEF Waits

LEMMA WaitsForLess ==
    ASSUME NEW queue, NEW e, Waits(queue, e), queue # <<>>
    PROVE  /\ Waits(Tail(queue), e)
           /\ Head(queue).playerId \notin Out(e)
           /\ Head(queue).nextPlayerIndex \notin Out(e)
<1>1. PICK S : /\ queue \in Seq(S)
               /\ \A i \in S : /\ i.playerId \notin Out(e)
                               /\ i.nextPlayerIndex \notin Out(e)
  BY DEF Waits
<1>2. Tail(queue) \in Seq(S) /\ Head(queue) \in S
  BY <1>1
<1> QED
  BY <1>1, <1>2 DEF Waits

LEMMA NobodyWaits == ASSUME NEW e PROVE Waits(<<>>, e)
<1> DEFINE S == {}
<1>1. /\ <<>> \in Seq(S)
      /\ \A q \in S : q.playerId \notin Out(e) /\ q.nextPlayerIndex \notin Out(e)
  OBVIOUS
<1> HIDE DEF S
<1> QED
  BY <1>1, Zenon DEF Waits

(* A card less does no harm to a call, but may leave the hand empty.        *)
LEMMA CardLeaves ==
    ASSUME NEW hand, NEW called, NEW r, NEW e, CallsFit(hand, called, r),
           NEW p, NEW c
    PROVE  /\ CallsFit([hand EXCEPT ![p] = @ \ {c}], called, r)
           /\ HandsFit(hand, r, e, null) =>
                 HandsFit([hand EXCEPT ![p] = @ \ {c}], r, e, p)
<1> DEFINE new == [hand EXCEPT ![p] = @ \ {c}]
<1>1. /\ hand \in [Seat -> SUBSET Deck]
      /\ called \in [Seat -> BOOLEAN]
  BY DEF CallsFit
<1>2. new \in [Seat -> SUBSET Deck]
  BY <1>1
<1>3. ASSUME NEW q \in Seat
      PROVE  /\ new[q] \in SUBSET hand[q]
             /\ q # p => new[q] = hand[q]
             /\ Cardinality(hand[q]) <= 2 => Cardinality(new[q]) <= 2
  <2>1. new[q] \in SUBSET hand[q] /\ (q # p => new[q] = hand[q])
    BY <1>1
  <2>2. IsFiniteSet(hand[q])
    BY <1>1, DeckAssumption, FS_Subset
  <2>3. /\ Cardinality(new[q]) \in Nat /\ Cardinality(hand[q]) \in Nat
        /\ Cardinality(new[q]) <= Cardinality(hand[q])
    BY <2>1, <2>2, FS_Subset, FS_CardinalityType
  <2> QED
    BY <2>1, <2>3
<1> HIDE DEF new
<1>4. CallsFit(new, called, r)
  BY <1>1, <1>2, <1>3 DEF CallsFit
<1>5. ASSUME HandsFit(hand, r, e, null)
      PROVE  HandsFit(new, r, e, p)
  BY <1>3, <1>5, NullIsNoSeat DEF HandsFit, Out
<1> QED
  BY <1>4, <1>5 DEF new

(* A player draws and loses the call.                                       *)
LEMMA CardArrives ==
    ASSUME NEW hand, NEW called, NEW r, NEW e, CallsFit(hand, called, r),
           NEW p \in Seat, NEW c \in Deck
    PROVE  /\ CallsFit([hand EXCEPT ![p] = @ \cup {c}],
                       [called EXCEPT ![p] = FALSE], r)
           /\ HandsFit(hand, r, e, null) /\ p \notin Out(e) =>
                 HandsFit([hand EXCEPT ![p] = @ \cup {c}], r, e, null)
<1> DEFINE new == [hand EXCEPT ![p] = @ \cup {c}]
           void == [called EXCEPT ![p] = FALSE]
<1>1. /\ hand \in [Seat -> SUBSET Deck]
      /\ called \in [Seat -> BOOLEAN]
  BY DEF CallsFit
<1>2. new \in [Seat -> SUBSET Deck] /\ void \in [Seat -> BOOLEAN]
  BY <1>1
<1>3. \A q \in Seat : q # p => new[q] = hand[q] /\ void[q] = called[q]
  BY <1>1
<1>4. ~void[p] /\ new[p] # {}
  BY <1>1
<1> HIDE DEF new, void
<1>5. CallsFit(new, void, r)
  BY <1>2, <1>3, <1>4 DEF CallsFit
<1>6. ASSUME HandsFit(hand, r, e, null), p \notin Out(e)
      PROVE  HandsFit(new, r, e, null)
  BY <1>3, <1>4, <1>6, NullIsNoSeat DEF HandsFit, Out
<1> QED
  BY <1>5, <1>6 DEF new, void

(* Only who plays on receives another's hand.                               *)
LEMMA HandsRotate ==
    ASSUME NEW hand, NEW called, NEW r, NEW e, CallsFit(hand, called, r),
           NEW direction, "zeroRotateHands" \in r, AliveSeats(e) # {}
    PROVE  /\ CallsFit(rotateHands(hand, e, direction), called, r)
           /\ HandsFit(hand, r, e, null) =>
                 HandsFit(rotateHands(hand, e, direction), r, e, null)
           /\ \A x : "jumpIn" \in r /\ HandsFit(hand, r, e, x) =>
                 HandsFit(rotateHands(hand, e, direction), r, e, x)
<1> DEFINE new == rotateHands(hand, e, direction)
           from(i) == getNextAliveIndex(e, i, reverseDirection(direction))
<1>1. \A i \in Seat : from(i) \in Seat /\ from(i) \notin Out(e)
  BY NextIsIn
<1>2. /\ DOMAIN new = Seat
      /\ new = [i \in Seat |-> new[i]]
      /\ \A i \in Seat : new[i] = IF i \in Out(e) THEN hand[i] ELSE hand[from(i)]
  BY DEF rotateHands, Out
<1> HIDE DEF new, from
<1>3. hand \in [Seat -> SUBSET Deck] /\ called \in [Seat -> BOOLEAN]
  BY DEF CallsFit
<1>4. new \in [Seat -> SUBSET Deck]
  BY <1>1, <1>2, <1>3
<1>5. CallsFit(new, called, r)
  BY <1>3, <1>4 DEF CallsFit
<1>6. ASSUME HandsFit(hand, r, e, null)
      PROVE  HandsFit(new, r, e, null)
  BY <1>1, <1>2, <1>6, NullIsNoSeat DEF HandsFit, Out
<1>7. ASSUME NEW x, "jumpIn" \in r, HandsFit(hand, r, e, x)
      PROVE  HandsFit(new, r, e, x)
  BY <1>2, <1>7 DEF HandsFit, Out
<1> QED
  BY <1>5, <1>6, <1>7 DEF new

(* Hands rotate in two ways: before the play is judged and after.           *)
LEMMA JudgedFits ==
    ASSUME NEW hand, NEW r, NEW e, NEW p, HandsFit(hand, r, e, p), hand[p] # {}
    PROVE  HandsFit(hand, r, e, null)
BY NullIsNoSeat DEF HandsFit

LEMMA Unjudged ==
    ASSUME NEW hand, NEW r, NEW e, NEW p, HandsFit(hand, r, e, null)
    PROVE  HandsFit(hand, r, e, p)
BY NullIsNoSeat DEF HandsFit

LEMMA StillFits ==
    ASSUME NEW s, NEW r, NEW e, NEW p, Fits(s, r, e, null)
    PROVE  Fits(s, r, e, p)
BY Unjudged DEF Fits

(***************************************************************************)
(* The operators of GameEngine                                             *)
(***************************************************************************)
LEMMA CheckRoundEndFits ==
    ASSUME NEW s, NEW r, NEW e, NEW p, NEW x \in {null, p}, Fits(s, r, e, x)
    PROVE  Fits(checkRoundEnd(s, p), r, e, null)
<1> DEFINE total == s.score[p] + RoundScore(s, p)
           decided == [s EXCEPT !.score[p] = total,
                                !.roundWins[p] = @ + 1,
                                !.phase = IF total >= TargetScore
                                          THEN "game_over" ELSE "round_end",
                                !.winnerId = p]
           ended == withPenaltyStateDefaults(decided)
<1>1. /\ DOMAIN decided = StateField
      /\ decided.houseRules = r /\ decided.eliminated = e
      /\ decided.hand = s.hand /\ decided.calledUno = s.calledUno
      /\ terminal(decided)
  BY DEF Fits, StateField, terminal, TerminalPhase
<1> HIDE DEF decided
<1>2. /\ DOMAIN ended = StateField
      /\ ended.houseRules = r /\ ended.eliminated = e
      /\ ended.hand = s.hand /\ ended.calledUno = s.calledUno
      /\ terminal(ended)
  BY <1>1 DEF StateField, terminal, withPenaltyStateDefaults
<1> HIDE DEF ended
<1>3. Fits(ended, r, e, null)
  BY <1>2 DEF Fits
<1>4. CASE s.hand[p] # {}
  <2>1. Fits(s, r, e, null)
    BY <1>4, JudgedFits DEF Fits
  <2> QED
    BY <1>4, <2>1 DEF checkRoundEnd
<1>5. CASE ~(s.hand[p] # {})
  BY <1>3, <1>5 DEF checkRoundEnd, ended, decided
<1> QED
  BY <1>4, <1>5

LEMMA StartPenaltyDrawFits ==
    ASSUME NEW s, NEW r, NEW e, NEW x, Fits(s, r, e, x),
           NEW p, NEW count, NEW next, NEW source,
           ~terminal(s) => p \notin Out(e) /\ next \notin Out(e)
    PROVE  Fits(startPenaltyDraw(s, p, count, next, source), r, e, x)
<1> DEFINE waiting == [playerId |-> p, count |-> count,
                       nextPlayerIndex |-> next, sourcePlayerId |-> source]
           queued == [s EXCEPT !.pendingPenaltyQueue = Append(@, waiting)]
           started == [s EXCEPT !.currentPlayerIndex = p,
                                !.pendingPenaltyDraws = count,
                                !.pendingPenaltyNextPlayerIndex = next,
                                !.pendingPenaltySourcePlayerId = source]
<1>1. ~terminal(s) => Waits(Append(s.pendingPenaltyQueue, waiting), e)
  BY WaitsForMore DEF Fits
<1> HIDE DEF waiting
<1>2. Fits(queued, r, e, x)
  BY <1>1 DEF Fits, StateField, terminal
<1>3. Fits(started, r, e, x)
  BY DEF Fits, StateField, terminal
<1> QED
  BY <1>2, <1>3 DEF startPenaltyDraw, queued, started, waiting

LEMMA StartQueuedPenaltyFits ==
    ASSUME NEW s, NEW r, NEW e, Fits(s, r, e, null),
           s.pendingPenaltyQueue # <<>>
    PROVE  Fits(startQueuedPenalty(s), r, e, null)
<1> DEFINE first == Head(s.pendingPenaltyQueue)
           rest == [s EXCEPT !.pendingPenaltyQueue = Tail(@)]
<1>1. ~terminal(s) => /\ Waits(Tail(s.pendingPenaltyQueue), e)
                      /\ first.playerId \notin Out(e)
                      /\ first.nextPlayerIndex \notin Out(e)
  BY WaitsForLess DEF Fits
<1> HIDE DEF first
<1>2. Fits(rest, r, e, null) /\ (terminal(rest) <=> terminal(s))
  BY <1>1 DEF Fits, StateField, terminal
<1> HIDE DEF rest
<1>3. Fits(startPenaltyDraw(rest, first.playerId, first.count,
                            first.nextPlayerIndex, first.sourcePlayerId),
           r, e, null)
  BY <1>1, <1>2, StartPenaltyDrawFits
<1> QED
  BY <1>3 DEF startQueuedPenalty, first, rest

LEMMA DrainPenaltyQueueFits ==
    ASSUME NEW s, NEW r, NEW e, Fits(s, r, e, null)
    PROVE  Fits(drainPenaltyQueue(s), r, e, null)
BY StartQueuedPenaltyFits DEF drainPenaltyQueue

LEMMA DrainKeepsPhase ==
    ASSUME NEW s, DOMAIN s = StateField
    PROVE  drainPenaltyQueue(s).phase = s.phase
BY DEF StateField, drainPenaltyQueue, startQueuedPenalty, startPenaltyDraw

LEMMA FinishPenaltyDrawFits ==
    ASSUME NEW s, NEW r, NEW e, Fits(s, r, e, null), NEW lastAction
    PROVE  Fits(finishPenaltyDrawIfNeeded(s, lastAction), r, e, null)
<1> DEFINE paid == [s EXCEPT !.pendingPenaltyDraws = 0,
                             !.pendingPenaltyNextPlayerIndex = null,
                             !.pendingPenaltySourcePlayerId = null,
                             !.lastAction = lastAction]
           finished == [paid EXCEPT
                          !.currentPlayerIndex = s.pendingPenaltyNextPlayerIndex]
<1>1. /\ Fits(paid, r, e, null)
      /\ paid.pendingPenaltyQueue = s.pendingPenaltyQueue
      /\ terminal(paid) <=> terminal(s)
  BY NullIsNoSeat DEF Fits, StateField, terminal
<1> HIDE DEF paid
<1>2. Fits(finished, r, e, null)
  BY <1>1 DEF Fits, StateField, terminal
<1> HIDE DEF finished
<1>3. Fits([s EXCEPT !.pendingPenaltyDraws = @ - 1,
                     !.lastAction = lastAction], r, e, null)
  BY DEF Fits, StateField, terminal
<1>4. Fits(checkRoundEnd(finished, s.pendingPenaltySourcePlayerId), r, e, null)
  BY <1>2, CheckRoundEndFits
<1>5. s.pendingPenaltyQueue # <<>> => Fits(startQueuedPenalty(paid), r, e, null)
  BY <1>1, StartQueuedPenaltyFits
<1> QED
  BY <1>2, <1>3, <1>4, <1>5 DEF finishPenaltyDrawIfNeeded, paid, finished

LEMMA DrawCardsFits ==
    ASSUME NEW s, NEW r, NEW e, Fits(s, r, e, null), NEW side,
           NEW p \in Seat, ~terminal(s) => p \notin Out(e), NEW card \in Deck
    PROVE  /\ Fits(drawCards(s, p, side, card), r, e, null)
           /\ drawCards(s, p, side, card).phase = s.phase
<1> DEFINE refilled == withSideRefilled(s, side)
           drawn == [refilled EXCEPT !.deck[side] = @ \ {card},
                                     !.hand[p] = @ \cup {card},
                                     !.calledUno[p] = FALSE,
                                     !.unoCaught[p] = FALSE]
<1>1. Fits(refilled, r, e, null) /\ refilled.phase = s.phase
  BY DEF Fits, StateField, terminal, withSideRefilled
<1> HIDE DEF refilled
<1>2. /\ CallsFit([refilled.hand EXCEPT ![p] = @ \cup {card}],
                  [refilled.calledUno EXCEPT ![p] = FALSE], r)
      /\ ~terminal(refilled) =>
            HandsFit([refilled.hand EXCEPT ![p] = @ \cup {card}], r, e, null)
  BY <1>1, CardArrives DEF Fits, terminal
<1>3. Fits(drawn, r, e, null) /\ drawn.phase = s.phase
  BY <1>1, <1>2 DEF Fits, StateField, terminal
<1> QED
  BY <1>1, <1>3 DEF drawCards, refilled, drawn

LEMMA HandleDrawCardFits ==
    ASSUME NEW s, NEW r, NEW e, Fits(s, r, e, null), NEW side,
           NEW p \in Seat, ~terminal(s) => p \notin Out(e), NEW card \in Deck
    PROVE  Fits(handleDrawCard(s, p, side, card), r, e, null)
<1> DEFINE drawn == drawCards(s, p, side, card)
<1>1. Fits(drawn, r, e, null)
  BY DrawCardsFits
<1> HIDE DEF drawn
<1>2. Fits([drawn EXCEPT !.lastAction = Acted("DRAW_CARD", p)], r, e, null)
  BY <1>1 DEF Fits, StateField, terminal
<1> QED
  BY <1>1, <1>2, FinishPenaltyDrawFits DEF handleDrawCard, drawn

LEMMA WithCardDiscardedFits ==
    ASSUME NEW s, NEW r, NEW e, Fits(s, r, e, null), NEW p, NEW c
    PROVE  /\ Fits(withCardDiscarded(s, p, c), r, e, p)
           /\ withCardDiscarded(s, p, c).phase = s.phase
           /\ withCardDiscarded(s, p, c).direction = s.direction
<1>1. /\ CallsFit([s.hand EXCEPT ![p] = @ \ {c}], s.calledUno, r)
      /\ ~terminal(s) => HandsFit([s.hand EXCEPT ![p] = @ \ {c}], r, e, p)
  BY CardLeaves DEF Fits
<1> QED
  BY <1>1 DEF Fits, StateField, terminal, withCardDiscarded

LEMMA WithUnoFlagsFits ==
    ASSUME NEW s, NEW r, NEW e, NEW x, Fits(s, r, e, x), NEW p
    PROVE  /\ Fits(withUnoFlagsAfterPlay(s, p), r, e, x)
           /\ withUnoFlagsAfterPlay(s, p).phase = s.phase
<1> DEFINE called == [s.calledUno EXCEPT ![p] = @ /\ Cardinality(s.hand[p]) = 1]
<1>1. /\ called \in [Seat -> BOOLEAN]
      /\ \A q \in Seat : called[q] => s.calledUno[q]
  BY DEF Fits, CallsFit
<1> HIDE DEF called
<1>2. CallsFit(s.hand, called, r)
  BY <1>1 DEF Fits, CallsFit
<1>3. /\ Fits([s EXCEPT !.calledUno = called, !.unoCaught[p] = FALSE], r, e, x)
      /\ [s EXCEPT !.calledUno = called, !.unoCaught[p] = FALSE].phase = s.phase
  BY <1>2 DEF Fits, StateField, terminal
<1>4. withUnoFlagsAfterPlay(s, p)
         = [s EXCEPT !.calledUno = called, !.unoCaught[p] = FALSE]
  BY DEF withUnoFlagsAfterPlay, called, Fits, StateField
<1> QED
  BY <1>3, <1>4

(* p plays: he is not out, and his hand is judged afterwards.               *)
LEMMA WithCardEffectFits ==
    ASSUME NEW s, NEW r, NEW e, NEW x, Fits(s, r, e, x), ~terminal(s),
           NEW p \in Seat, p \notin Out(e), NEW c \in Deck
    PROVE  Fits(withCardEffect(s, p, c), r, e, x)
<1> DEFINE next == getNextAliveIndex(s.eliminated, p, s.direction)
           afterNext == skipNextAliveIndex(s.eliminated, p, s.direction)
           reversed == reverseDirection(s.direction)
           back == IF countAlivePlayers(s.eliminated) = 2 THEN p
                   ELSE getNextAliveIndex(s.eliminated, p, reversed)
<1>1. type[c] \in CardType
  BY DeckAssumption
<1>2. next \notin Out(e) /\ afterNext \notin Out(e) /\ back \notin Out(e)
  BY NextIsIn DEF Fits
<1> HIDE DEF next, afterNext, back
<1>3. ASSUME NEW turn, turn \notin Out(e), NEW direction
      PROVE  /\ Fits([s EXCEPT !.currentColor = color[c],
                               !.currentPlayerIndex = turn], r, e, x)
             /\ Fits([s EXCEPT !.currentColor = color[c],
                               !.direction = direction,
                               !.currentPlayerIndex = turn], r, e, x)
  BY <1>3 DEF Fits, StateField, terminal
<1>4. Fits([s EXCEPT !.currentColor = color[c]], r, e, x)
  BY DEF Fits, StateField, terminal
<1>5. Fits(startPenaltyDraw([s EXCEPT !.currentColor = color[c]],
                            next, 2, afterNext, p), r, e, x)
  BY <1>2, <1>4, StartPenaltyDrawFits
<1>6. /\ Fits([s EXCEPT !.phase = "choosing_color"], r, e, x)
      /\ Fits([s EXCEPT !.phase = "choosing_color",
                        !.pendingDrawPlayerId = next], r, e, x)
  BY <1>2 DEF Fits, StateField, terminal, TerminalPhase
<1> QED
  BY <1>1, <1>2, <1>3, <1>5, <1>6
     DEF withCardEffect, CardType, next, afterNext, back, reversed

LEMMA HandlePlayCardFits ==
    ASSUME NEW s, NEW r, NEW e, Fits(s, r, e, null), ~terminal(s),
           NEW p \in Seat, p \notin Out(e), NEW c \in Deck
    PROVE  Fits(handlePlayCard(s, p, c), r, e, null)
<1> DEFINE played == withUnoFlagsAfterPlay(withCardDiscarded(s, p, c), p)
<1>1. Fits(played, r, e, p) /\ ~terminal(played)
  BY WithCardDiscardedFits, WithUnoFlagsFits DEF terminal
<1> HIDE DEF played
<1>2. Fits(withCardEffect(played, p, c), r, e, p)
  BY <1>1, WithCardEffectFits
<1> QED
  BY <1>2, CheckRoundEndFits DEF handlePlayCard, played

LEMMA DefaultsFits ==
    ASSUME NEW s, NEW r, NEW e, Fits(s, r, e, null)
    PROVE  Fits(withPenaltyStateDefaults(s), r, e, null)
BY NobodyWaits, NullIsNoSeat
   DEF Fits, StateField, terminal, withPenaltyStateDefaults

LEMMA HandlePassFits ==
    ASSUME NEW s, NEW r, NEW e, Fits(s, r, e, null), NEW p \in Seat
    PROVE  Fits(handlePass(s, p), r, e, null)
<1> DEFINE next == getNextAliveIndex(s.eliminated, p, s.direction)
           passed == [s EXCEPT !.lastAction = Acted("PASS", p)]
           advanced == [passed EXCEPT !.currentPlayerIndex = next]
           ended == [passed EXCEPT !.phase = "round_end", !.winnerId = null]
<1>1. ~terminal(s) => next \notin Out(e)
  BY NextIsIn DEF Fits
<1> HIDE DEF next
<1>2. Fits(passed, r, e, null) /\ passed.phase = s.phase
  BY DEF Fits, StateField, terminal
<1> HIDE DEF passed
<1>3. Fits(advanced, r, e, null)
  BY <1>1, <1>2 DEF Fits, StateField, terminal
<1>4. Fits(ended, r, e, null)
  BY <1>2 DEF Fits, StateField, terminal, TerminalPhase
<1> HIDE DEF advanced, ended
<1>5. /\ Fits(withPenaltyStateDefaults(ended), r, e, null)
      /\ Fits(withPenaltyStateDefaults(advanced), r, e, null)
  BY <1>3, <1>4, DefaultsFits
<1> QED
  BY <1>3, <1>5 DEF handlePass, passed, advanced, ended, next

LEMMA HandleChooseColorFits ==
    ASSUME NEW s, NEW r, NEW e, Fits(s, r, e, null), ~terminal(s),
           NEW p \in Seat, NEW chosen
    PROVE  /\ Fits(handleChooseColor(s, p, chosen), r, e, null)
           /\ ~terminal(handleChooseColor(s, p, chosen))
<1> DEFINE next == getNextAliveIndex(s.eliminated, p, s.direction)
           colored == [s EXCEPT !.chosenColor[topCard(s)] = chosen,
                                !.currentColor = chosen,
                                !.lastAction = Acted("CHOOSE_COLOR", p)]
           challenged == [colored EXCEPT !.phase = "challenging"]
           played == [colored EXCEPT !.phase = "playing",
                                     !.currentPlayerIndex = next]
<1>1. next \notin Out(e)
  BY NextIsIn DEF Fits
<1> HIDE DEF next
<1>2. Fits(colored, r, e, null) /\ ~terminal(colored)
  BY DEF Fits, StateField, terminal
<1> HIDE DEF colored
<1>3. Fits(challenged, r, e, null) /\ ~terminal(challenged)
  BY <1>2 DEF Fits, StateField, terminal, TerminalPhase
<1>4. Fits(played, r, e, null) /\ ~terminal(played)
  BY <1>1, <1>2 DEF Fits, StateField, terminal, TerminalPhase
<1> HIDE DEF challenged, played
<1>5. Fits(drainPenaltyQueue(played), r, e, null)
  BY <1>4, DrainPenaltyQueueFits
<1>6. ~terminal(drainPenaltyQueue(played))
  BY <1>4, DrainKeepsPhase DEF Fits, terminal
<1> QED
  BY <1>3, <1>5, <1>6
     DEF handleChooseColor, colored, challenged, played, next

LEMMA SettleWildDrawFourFits ==
    ASSUME NEW s, NEW r, NEW e, Fits(s, r, e, null), ~terminal(s),
           NEW p \in Seat, p \notin Out(e),
           NEW lastAction, NEW count, NEW source
    PROVE  Fits(settleWildDrawFour(s, lastAction, p, count, source),
                r, e, null)
<1> DEFINE next == getNextAliveIndex(s.eliminated, p, s.direction)
           settled == [s EXCEPT !.phase = "playing",
                                !.pendingDrawPlayerId = null,
                                !.pendingRevengeDraws = 0,
                                !.lastAction = lastAction]
<1>1. next \notin Out(e)
  BY NextIsIn DEF Fits
<1> HIDE DEF next
<1>2. Fits(settled, r, e, null)
  BY NullIsNoSeat DEF Fits, StateField, terminal, TerminalPhase
<1> HIDE DEF settled
<1>3. Fits(startPenaltyDraw(settled, p, count + s.pendingRevengeDraws, next,
                            source), r, e, null)
  BY <1>1, <1>2, StartPenaltyDrawFits
<1> QED
  BY <1>3 DEF settleWildDrawFour, settled, next

LEMMA AnswersFit ==
    ASSUME NEW s, NEW r, NEW e, Fits(s, r, e, null), NEW p \in Seat,
           s.currentPlayerIndex \in Seat, respondAllowed(s, p)
    PROVE  /\ Fits(handleChallenge(s, p), r, e, null)
           /\ Fits(handleAccept(s, p), r, e, null)
<1>1. /\ ~terminal(s)
      /\ p \notin Out(e) /\ s.currentPlayerIndex \notin Out(e)
  BY DEF respondAllowed, Fits, terminal, TerminalPhase
<1> QED
  BY <1>1, SettleWildDrawFourFits DEF handleChallenge, handleAccept

LEMMA UnoCallsFit ==
    ASSUME NEW s, NEW r, NEW e, Fits(s, r, e, null), NEW p \in Seat
    PROVE  /\ callUnoAllowed(s, p) => Fits(handleCallUno(s, p), r, e, null)
           /\ \A count : catchUnoAllowed(s, p) =>
                 Fits(handleCatchUno(s, p, count), r, e, null)
<1>1. ASSUME callUnoAllowed(s, p)
      PROVE  Fits(handleCallUno(s, p), r, e, null)
  <2> DEFINE called == [s.calledUno EXCEPT ![p] = TRUE]
  <2>1. Cardinality(s.hand[p]) <= 2
    BY <1>1 DEF callUnoAllowed
  <2>2. CallsFit(s.hand, called, r)
    BY <2>1 DEF Fits, CallsFit
  <2> QED
    BY <2>2 DEF Fits, StateField, terminal, handleCallUno
<1>2. ASSUME NEW count, catchUnoAllowed(s, p)
      PROVE  Fits(handleCatchUno(s, p, count), r, e, null)
  <2> DEFINE caught == [s EXCEPT !.unoCaught[p] = TRUE,
                                 !.lastAction = Acted("CATCH_UNO", null)]
  <2>1. s.hand[p] # {}
    BY <1>2, FS_EmptySet DEF catchUnoAllowed
  <2>2. ~terminal(s) => p \notin Out(e)
    BY <2>1 DEF Fits, HandsFit
  <2>3. Fits(caught, r, e, null) /\ caught.phase = s.phase
    BY DEF Fits, StateField, terminal
  <2> HIDE DEF caught
  <2>4. ~terminal(caught) => s.currentPlayerIndex \notin Out(e)
    BY <2>3 DEF Fits, terminal
  <2> QED
    BY <2>2, <2>3, <2>4, StartPenaltyDrawFits
       DEF handleCatchUno, caught, terminal
<1> QED
  BY <1>1, <1>2

(***************************************************************************)
(* The operators of HouseRules                                             *)
(***************************************************************************)

(* zeroRotate, sevenSwapPost, revengeMode and multiPlayPost, after a play   *)
(* by p.                                                                    *)
LEMMA TurnPluginsFit ==
    ASSUME NEW before, NEW after, NEW r, NEW e, Fits(after, r, e, null),
           before.houseRules = r, before.eliminated = e,
           before.currentPlayerIndex \in Seat,
           ~terminal(after) => before.currentPlayerIndex \notin Out(e),
           NEW c
    PROVE  /\ Fits(zeroRotate(before, after, c), r, e, null)
           /\ Fits(sevenSwapPost(before, after, c), r, e, null)
           /\ Fits(revengeMode(before, after, c), r, e, null)
           /\ Fits(multiPlayPost(before, after, c), r, e, null)
<1>1. Fits(zeroRotate(before, after, c), r, e, null)
  <2> DEFINE rotated == rotateHands(after.hand, after.eliminated,
                                    after.direction)
  <2>1. CASE On(before, "zeroRotateHands")
    <3>1. /\ "zeroRotateHands" \in r /\ after.eliminated = e
      BY <2>1 DEF On, Fits
    <3>2. /\ CallsFit(rotated, after.calledUno, r)
          /\ ~terminal(after) => HandsFit(rotated, r, e, null)
      BY <3>1, HandsRotate DEF Fits
    <3> HIDE DEF rotated
    <3>3. Fits([after EXCEPT !.hand = rotated], r, e, null)
      BY <3>2 DEF Fits, StateField, terminal
    <3> QED
      BY <3>3 DEF zeroRotate, rotated
  <2>2. CASE ~On(before, "zeroRotateHands")
    BY <2>2 DEF zeroRotate
  <2> QED
    BY <2>1, <2>2
<1>2. Fits(sevenSwapPost(before, after, c), r, e, null)
  BY DEF Fits, StateField, terminal, TerminalPhase, sevenSwapPost
<1>3. Fits(revengeMode(before, after, c), r, e, null)
  <2> DEFINE victim == getNextAliveIndex(before.eliminated,
                          before.currentPlayerIndex, before.direction)
  <2>1. ~terminal(after) => /\ victim \notin Out(e)
                            /\ after.pendingPenaltyNextPlayerIndex \notin Out(e)
    BY NextIsIn DEF Fits
  <2> HIDE DEF victim
  <2>2. Fits([after EXCEPT !.pendingRevengeDraws = @ + 4], r, e, null)
    BY DEF Fits, StateField, terminal
  <2>3. Fits(startPenaltyDraw(after, victim, 2,
                after.pendingPenaltyNextPlayerIndex, null), r, e, null)
    BY <2>1, StartPenaltyDrawFits
  <2> QED
    BY <2>2, <2>3 DEF revengeMode, victim
<1>4. Fits(multiPlayPost(before, after, c), r, e, null)
  <2>1. Fits([after EXCEPT !.currentPlayerIndex = before.currentPlayerIndex],
             r, e, null)
    BY DEF Fits, StateField, terminal
  <2> QED
    BY <2>1 DEF multiPlayPost
<1> QED
  BY <1>1, <1>2, <1>3, <1>4

(* The elimination of a player is a matter of finished rounds.              *)
LEMMA SettleRoundFits ==
    ASSUME NEW before, NEW after, NEW r, NEW e, Fits(after, r, e, null),
           AliveSeats(settleRound(before, after).eliminated) # {}
    PROVE  LET settled == settleRound(before, after)
           IN  Fits(settled, r, settled.eliminated, null) /\ KeepsTwo(e, settled)
<1> DEFINE doubled == doubleScore(before, after)
           shared == teamMode(before, doubled)
           loser == CHOOSE p \in Seat : IsLoser(shared, p)
           without == [shared EXCEPT !.eliminated[loser] = TRUE]
           settled == elimination(before, shared)
           Over(t) == /\ DOMAIN t = StateField
                      /\ t.houseRules = r
                      /\ CallsFit(t.hand, t.calledUno, r)
                      /\ terminal(t)
           remaining == AliveSeats(without.eliminated)
<1>1. Fits(doubled, r, e, null)
  <2>1. ASSUME NEW w, NEW total
        PROVE  Fits([after EXCEPT !.score[w] = total], r, e, null)
    BY DEF Fits, StateField, terminal
  <2> QED
    BY <2>1 DEF doubleScore
<1> HIDE DEF doubled
<1>2. Fits(shared, r, e, null)
  <2>1. ASSUME NEW score
        PROVE  Fits([doubled EXCEPT !.score = score], r, e, null)
    BY <1>1 DEF Fits, StateField, terminal
  <2> QED
    BY <1>1, <2>1 DEF teamMode
<1> HIDE DEF shared
<1>3. ASSUME shared.phase = "round_end"
      PROVE  Over(without)
  BY <1>2, <1>3 DEF Fits, StateField, terminal, TerminalPhase
<1> HIDE DEF without
<1>4. ASSUME shared.phase = "round_end", NEW w
      PROVE  Over([without EXCEPT !.phase = "game_over", !.winnerId = w])
  BY <1>3, <1>4 DEF StateField, terminal, TerminalPhase
<1> HIDE DEF Over
<1>5. Fits(settled, r, e, null) \/ Over(settled)
  BY <1>2, <1>3, <1>4 DEF elimination, without, loser
<1>6. settleRound(before, after) = settled
  BY DEF settleRound, shared, doubled
<1>7. KeepsTwo(e, settled)
  <2>1. shared.eliminated = e
    BY <1>2 DEF Fits
  <2>2. CASE settled = shared
    BY <2>1, <2>2 DEF KeepsTwo
  <2>3. CASE settled = [without EXCEPT !.phase = "game_over",
                                       !.winnerId = CHOOSE p \in remaining : TRUE]
             /\ shared.phase = "round_end"
    <3>1. DOMAIN without = StateField
      BY <1>3, <2>3 DEF Over
    <3> QED
      BY <2>3, <3>1 DEF KeepsTwo, StateField
  <2>4. CASE settled = without /\ Cardinality(remaining) # 1
    <3>1. remaining # {} /\ remaining = AliveSeats(settled.eliminated)
      BY <1>6, <2>4
    <3>2. IsFiniteSet(remaining)
      BY SeatIsFinite, FS_Subset DEF AliveSeats
    <3>3. \A x : remaining # {x}
      BY <2>4, <3>2, FS_Singleton
    <3> HIDE DEF remaining, settled
    <3> QED
      BY <3>1, <3>3 DEF KeepsTwo, Paired
  <2> HIDE DEF remaining
  <2>5. \/ settled = shared
        \/ settled = without /\ Cardinality(remaining) # 1
        \/ /\ settled = [without EXCEPT
                            !.phase = "game_over",
                            !.winnerId = CHOOSE p \in remaining : TRUE]
           /\ shared.phase = "round_end"
    BY DEF elimination, without, loser, remaining
  <2> QED
    BY <2>2, <2>3, <2>4, <2>5
<1> HIDE DEF settled
<1>8. CASE Fits(settled, r, e, null)
  BY <1>6, <1>7, <1>8 DEF Fits
<1>9. CASE Over(settled)
  BY <1>6, <1>7, <1>9 DEF Over, Fits
<1> QED
  BY <1>5, <1>8, <1>9

LEMMA PostProcessPlayFits ==
    ASSUME NEW before, NEW after, NEW r, NEW e, Fits(after, r, e, null),
           before.houseRules = r, before.eliminated = e,
           before.currentPlayerIndex \in Seat,
           ~terminal(after) => before.currentPlayerIndex \notin Out(e),
           NEW c,
           AliveSeats(postProcessPlay(before, after, c).eliminated) # {}
    PROVE  LET played == postProcessPlay(before, after, c)
           IN  Fits(played, r, played.eliminated, null) /\ KeepsTwo(e, played)
<1> DEFINE rotated == zeroRotate(before, after, c)
           swapping == sevenSwapPost(before, rotated, c)
           avenged == revengeMode(before, swapping, c)
           again == multiPlayPost(before, avenged, c)
<1>1. Fits(rotated, r, e, null) /\ (terminal(rotated) <=> terminal(after))
  BY TurnPluginsFit DEF Fits, StateField, zeroRotate, terminal
<1> HIDE DEF rotated
<1>2. Fits(swapping, r, e, null) /\ (terminal(rotated) <=> terminal(swapping))
  <2>1. terminal(rotated) <=> terminal(swapping)
    BY <1>1 DEF Fits, StateField, sevenSwapPost, terminal, TerminalPhase
  <2> QED
    BY <1>1, <2>1, TurnPluginsFit
<1> HIDE DEF swapping
<1>3. Fits(avenged, r, e, null) /\ (terminal(avenged) <=> terminal(swapping))
  <2>1. terminal(avenged) <=> terminal(swapping)
    BY <1>2 DEF Fits, StateField, revengeMode, startPenaltyDraw, terminal
  <2> QED
    BY <1>1, <1>2, <2>1, TurnPluginsFit
<1> HIDE DEF avenged
<1>4. Fits(again, r, e, null)
  BY <1>1, <1>2, <1>3, TurnPluginsFit
<1>5. postProcessPlay(before, after, c) = settleRound(before, again)
  BY DEF postProcessPlay, again, avenged, swapping, rotated
<1> HIDE DEF again
<1> QED
  BY <1>4, <1>5, SettleRoundFits

LEMMA PostProcessDrawFits ==
    ASSUME NEW before, NEW after, NEW r, NEW e, Fits(after, r, e, null),
           NEW p \in Seat, NEW card \in Deck,
           AliveSeats(postProcessDraw(before, after, p, card).eliminated) # {}
    PROVE  LET drawn == postProcessDraw(before, after, p, card)
           IN  Fits(drawn, r, drawn.eliminated, null) /\ KeepsTwo(e, drawn)
<1>1. ASSUME playCardAllowed(after, p, card)
      PROVE  Fits(handlePlayCard(after, p, card), r, e, null)
  <2>1. ~terminal(after) /\ p \notin Out(e)
    BY <1>1 DEF playCardAllowed, terminal, TerminalPhase, Fits
  <2> QED
    BY <2>1, HandlePlayCardFits
<1>2. Fits(forcedPlayAfterDraw(before, after, p, card), r, e, null)
  BY <1>1 DEF forcedPlayAfterDraw
<1> QED
  BY <1>2, SettleRoundFits DEF postProcessDraw

(* A finished round ended by a handled card gets the same treatment.        *)
LEMMA HandledPlayFits ==
    ASSUME NEW before, NEW result, NEW r, NEW e, Fits(result, r, e, null),
           before.houseRules = r, before.eliminated = e,
           before.currentPlayerIndex \in Seat, NEW c,
           AliveSeats(handledPlay(before, result, c).eliminated) # {}
    PROVE  LET handled == handledPlay(before, result, c)
           IN  Fits(handled, r, handled.eliminated, null) /\ KeepsTwo(e, handled)
<1> DEFINE drained == drainPenaltyQueue(result)
<1>1. Fits(drained, r, e, null)
  BY DrainPenaltyQueueFits
<1> HIDE DEF drained
<1>2. CASE terminal(drained) /\ ~terminal(before)
  BY <1>1, <1>2, PostProcessPlayFits DEF handledPlay, drained
<1>3. CASE ~(terminal(drained) /\ ~terminal(before))
  <2>1. handledPlay(before, result, c) = drained
    BY <1>3 DEF handledPlay, drained
  <2>2. drained.eliminated = e
    BY <1>1 DEF Fits
  <2> QED
    BY <1>1, <2>1, <2>2 DEF KeepsTwo
<1> QED
  BY <1>2, <1>3

LEMMA DeflectionFits ==
    ASSUME NEW s, NEW r, NEW e, Fits(s, r, e, null),
           NEW p \in Seat, s.currentPlayerIndex \in Seat, NEW c
    PROVE  Fits(deflection(s, p, c), r, e, null)
<1> DEFINE played == withDeflectionPlayed(s, p, c)
           answered == [played EXCEPT !.phase = "playing",
                                      !.pendingDrawPlayerId = null,
                                      !.pendingRevengeDraws = 0]
           next == getNextAliveIndex(s.eliminated, p, played.direction)
           passed == [played EXCEPT !.currentPlayerIndex = next]
           target == IF type[c] = "reverse" THEN s.currentPlayerIndex
                     ELSE getNextAliveIndex(s.eliminated, p, s.direction)
           after == getNextAliveIndex(s.eliminated, target, played.direction)
<1>1. Fits(played, r, e, p) /\ played.phase = s.phase
  BY WithCardDiscardedFits
     DEF Fits, StateField, terminal, withDeflectionPlayed
<1>2. /\ next \notin Out(e)
      /\ target \in Seat /\ (~terminal(s) => target \notin Out(e))
  BY NextIsIn DEF Fits
<1>3. after \notin Out(e)
  BY <1>2, NextIsIn DEF Fits
<1> HIDE DEF played, next, target, after
<1>4. Fits(passed, r, e, p)
  BY <1>1, <1>2 DEF Fits, StateField, terminal
<1>5. answersChallenge(s, p) => ~terminal(s)
  BY DEF answersChallenge, terminal, TerminalPhase
<1>6. answersChallenge(s, p) => Fits(answered, r, e, p)
  BY <1>1, <1>5, NullIsNoSeat DEF Fits, StateField, terminal, TerminalPhase
<1> HIDE DEF answered, passed
<1>7. Fits(checkRoundEnd(passed, p), r, e, null)
  BY <1>4, CheckRoundEndFits
<1>8. ASSUME answersChallenge(s, p)
      PROVE  Fits(startPenaltyDraw(checkRoundEnd(answered, p), target,
                     4 + s.pendingRevengeDraws, after, p), r, e, null)
  <2>1. Fits(checkRoundEnd(answered, p), r, e, null)
    BY <1>6, <1>8, CheckRoundEndFits
  <2> QED
    BY <1>2, <1>3, <1>5, <1>8, <2>1, StartPenaltyDrawFits
<1> QED
  BY <1>7, <1>8
     DEF deflection, deflectChallenge, deflectStack, answered, passed, played,
         next, target, after

LEMMA AttackCardFits ==
    ASSUME NEW s, NEW r, NEW e, Fits(s, r, e, null), NEW p \in Seat,
           NEW c, NEW chosen
    PROVE  Fits(putAttackCardOnStack(s, p, c, chosen), r, e, null)
<1> DEFINE next == getNextAliveIndex(s.eliminated, p, s.direction)
           played == withUnoFlagsAfterPlay(withCardDiscarded(s, p, c), p)
           colored == IF type[c] = "draw_two"
                      THEN [played EXCEPT !.currentColor = color[c]]
                      ELSE [played EXCEPT !.currentColor = chosen,
                                          !.chosenColor[c] = chosen]
           stacked == [colored EXCEPT
                         !.drawStack = @ + getCardDrawPenalty(c),
                         !.currentPlayerIndex = next]
<1>1. Fits(played, r, e, p)
  BY WithCardDiscardedFits, WithUnoFlagsFits
<1>2. next \notin Out(e)
  BY NextIsIn DEF Fits
<1> HIDE DEF played, next
<1>3. Fits(colored, r, e, p)
  BY <1>1 DEF Fits, StateField, terminal
<1> HIDE DEF colored
<1>4. Fits(stacked, r, e, p)
  BY <1>2, <1>3 DEF Fits, StateField, terminal
<1> HIDE DEF stacked
<1> QED
  BY <1>4, CheckRoundEndFits
     DEF putAttackCardOnStack, stacked, colored, played, next

LEMMA StackingFits ==
    ASSUME NEW s, NEW r, NEW e, Fits(s, r, e, null), NEW p \in Seat,
           NEW c, NEW chosen
    PROVE  Fits(stacking(s, p, c, chosen), r, e, null)
<1> DEFINE answered == [s EXCEPT !.phase = "playing",
                                 !.pendingDrawPlayerId = null,
                                 !.drawStack = 4 + s.pendingRevengeDraws,
                                 !.pendingRevengeDraws = 0,
                                 !.currentPlayerIndex = p]
<1>1. ASSUME answersChallenge(s, p)
      PROVE  Fits(answered, r, e, null)
  <2>1. ~terminal(s) /\ p \notin Out(e)
    BY <1>1 DEF answersChallenge, Fits, terminal, TerminalPhase
  <2> QED
    BY <2>1, NullIsNoSeat DEF Fits, StateField, terminal, TerminalPhase
<1> HIDE DEF answered
<1> QED
  BY <1>1, AttackCardFits DEF stacking, answered

LEMMA JumpInFits ==
    ASSUME NEW s, NEW r, NEW e, Fits(s, r, e, null), NEW p \in Seat,
           jumpInClaims(s, p), NEW c \in s.hand[p], c \in Deck, NEW chosen
    PROVE  Fits(jumpIn(s, p, c, chosen), r, e, null)
<1> DEFINE played == withCardDiscarded(s, p, c)
           next == getNextAliveIndex(played.eliminated, p, played.direction)
           afterNext == skipNextAliveIndex(played.eliminated, p,
                                           played.direction)
           toNext == [played EXCEPT !.currentPlayerIndex = next]
           colored == [toNext EXCEPT !.currentColor = color[c]]
           wildColored == withWildColor(toNext, c, chosen)
           attacked == IF chosen # null
                       THEN [withWildColor(played, c, chosen)
                               EXCEPT !.phase = "challenging"]
                       ELSE [played EXCEPT !.phase = "choosing_color"]
           rotated == rotateHands(played.hand, played.eliminated,
                                  played.direction)
<1>1. Fits(played, r, e, p) /\ ~terminal(played)
  BY WithCardDiscardedFits DEF jumpInClaims, terminal, TerminalPhase
<1>2. p \notin Out(e)
  BY DEF jumpInClaims, Fits, HandsFit, terminal, TerminalPhase
<1> HIDE DEF played
<1>3. type[c] \in CardType
  BY DeckAssumption
<1>4. next \notin Out(e) /\ afterNext \notin Out(e)
  BY <1>1, NextIsIn DEF Fits
<1> HIDE DEF next, afterNext
<1>5. Fits(withCardEffect(played, p, c), r, e, p)
  BY <1>1, <1>2, WithCardEffectFits
<1>6. Fits(toNext, r, e, p) /\ ~terminal(toNext)
  BY <1>1, <1>4 DEF Fits, StateField, terminal
<1>7. rotated = rotateHands(toNext.hand, e, played.direction)
  BY <1>1 DEF Fits, StateField
<1> HIDE DEF toNext, rotated
<1>8. /\ Fits(colored, r, e, p) /\ ~terminal(colored)
      /\ colored.hand = toNext.hand
      /\ Fits(wildColored, r, e, p)
  BY <1>6 DEF Fits, StateField, terminal, withWildColor
<1> HIDE DEF colored, wildColored
<1>9. Fits(startPenaltyDraw(colored, next, 2, afterNext, p), r, e, p)
  BY <1>4, <1>8, StartPenaltyDrawFits
<1>10. Fits(startPenaltyDraw(startPenaltyDraw(colored, next, 2, afterNext, p),
                             next, 2, afterNext, null), r, e, p)
  BY <1>4, <1>9, StartPenaltyDrawFits
<1>11. Fits([played EXCEPT !.phase = "choosing_color",
                           !.currentPlayerIndex = p], r, e, p)
  BY <1>1, <1>2 DEF Fits, StateField, terminal, TerminalPhase
<1>12. Fits([attacked EXCEPT !.currentPlayerIndex = p,
                             !.pendingDrawPlayerId = next], r, e, p)
  <2>1. Fits(attacked, r, e, p) /\ ~terminal(attacked)
    BY <1>1 DEF Fits, StateField, terminal, TerminalPhase, withWildColor
  <2> HIDE DEF attacked
  <2> QED
    BY <1>2, <1>4, <2>1 DEF Fits, StateField, terminal
<1>13. Fits([colored EXCEPT !.phase = "choosing_swap_target",
                            !.currentPlayerIndex = p], r, e, p)
  BY <1>2, <1>8 DEF Fits, StateField, terminal, TerminalPhase
<1>14. ASSUME On(played, "zeroRotateHands")
       PROVE  Fits([colored EXCEPT !.hand = rotated], r, e, p)
  <2>1. "zeroRotateHands" \in r /\ "jumpIn" \in r
    BY <1>1, <1>14 DEF On, jumpInClaims, Fits
  <2>2. /\ CallsFit(rotated, colored.calledUno, r)
        /\ HandsFit(rotated, r, e, p)
    BY <1>7, <1>8, <2>1, HandsRotate DEF Fits
  <2> QED
    BY <1>8, <2>2 DEF Fits, StateField, terminal
<1>15. Fits(withJumpInEffect(played, s, p, c, chosen), r, e, p)
  BY <1>3, <1>5, <1>8, <1>9, <1>10, <1>11, <1>12, <1>13, <1>14
     DEF withJumpInEffect, CardType, next, afterNext, toNext, colored,
         wildColored, attacked, rotated
<1> QED
  BY <1>15, CheckRoundEndFits DEF jumpIn, played

LEMMA ResolveStackFits ==
    ASSUME NEW s, NEW r, NEW e, Fits(s, r, e, null), NEW p \in Seat,
           IsCurrent(s, p), NEW side, NEW card \in Deck
    PROVE  Fits(resolveStack(s, p, side, card), r, e, null)
<1> DEFINE next == getNextAliveIndex(s.eliminated, p, s.direction)
           source == IF s.lastAction.type = "PLAY_CARD"
                     THEN s.lastAction.playerId ELSE null
           taken == [s EXCEPT !.drawStack = 0,
                              !.lastAction = Acted("DRAW_CARD", p)]
           owed == startPenaltyDraw(taken, p, s.drawStack, next, source)
<1>1. next \notin Out(e) /\ (~terminal(s) => p \notin Out(e))
  BY NextIsIn DEF Fits, IsCurrent
<1>2. Fits(taken, r, e, null) /\ taken.phase = s.phase
  BY DEF Fits, StateField, terminal
<1> HIDE DEF next, source, taken
<1>3. Fits(owed, r, e, null) /\ owed.phase = taken.phase
  <2>1. owed.phase = taken.phase
    BY <1>2 DEF startPenaltyDraw, Fits, StateField
  <2> QED
    BY <1>1, <1>2, <2>1, StartPenaltyDrawFits DEF terminal
<1> HIDE DEF owed
<1>4. Fits(handleDrawCard(owed, p, side, card), r, e, null)
  BY <1>1, <1>2, <1>3, HandleDrawCardFits DEF terminal
<1> QED
  BY <1>4 DEF resolveStack, owed, taken, source, next

LEMMA ChooseColorUnchallengedFits ==
    ASSUME NEW s, NEW r, NEW e, Fits(s, r, e, null), NEW p \in Seat,
           chooseColorAllowed(s, p), s.pendingDrawPlayerId \in Seat,
           NEW chosen
    PROVE  Fits(chooseColorUnchallenged(s, p, chosen), r, e, null)
<1>1. ~terminal(s)
  BY DEF chooseColorAllowed, terminal, TerminalPhase
<1>2. s.pendingDrawPlayerId \notin Out(e)
  BY <1>1 DEF Fits
<1>3. /\ Fits(handleChooseColor(s, p, chosen), r, e, null)
      /\ ~terminal(handleChooseColor(s, p, chosen))
  BY <1>1, HandleChooseColorFits
<1> QED
  BY <1>2, <1>3, SettleWildDrawFourFits DEF chooseColorUnchallenged

(* A bomb hits seats that are still in the game.                            *)
LEMMA BombedAreIn ==
    ASSUME NEW s, NEW p
    PROVE  SeatsBombed(s, p) \in Seq(AliveSeats(s.eliminated))
<1> DEFINE hit == AliveSeats(s.eliminated) \ {p}
           nth(k) == CHOOSE i \in hit : Cardinality({j \in hit : j < i}) = k - 1
           n == Cardinality(hit)
<1>1. hit \in SUBSET Seat /\ hit \in SUBSET AliveSeats(s.eliminated)
  BY DEF AliveSeats
<1>2. n \in Nat
  BY <1>1, SeatIsFinite, FS_Subset, FS_CardinalityType
<1>3. \A k \in 1..n : nth(k) \in hit
  BY <1>1, RankedSeat
<1>4. SeatsBombed(s, p) = [k \in 1..n |-> nth(k)]
  BY DEF SeatsBombed
<1> HIDE DEF nth, n
<1>5. [k \in 1..n |-> nth(k)] \in Seq(AliveSeats(s.eliminated))
  BY <1>1, <1>2, <1>3
<1> QED
  BY <1>4, <1>5

LEMMA MultiPlayPassFits ==
    ASSUME NEW s, NEW r, NEW e, Fits(s, r, e, null), ~terminal(s),
           NEW p \in Seat
    PROVE  Fits(multiPlayPass(s, p), r, e, null)
<1> DEFINE next == getNextAliveIndex(s.eliminated, p, s.direction)
           passed == [s EXCEPT !.currentPlayerIndex = next,
                               !.lastAction = Acted("PASS", p)]
           hit == SeatsBombed(s, p)
           penalty(i) == [playerId |-> i, count |-> 1,
                          nextPlayerIndex |-> next, sourcePlayerId |-> null]
           penalties == [k \in DOMAIN hit |-> penalty(hit[k])]
           queue == s.pendingPenaltyQueue \o penalties
<1>1. next \notin Out(e)
  BY NextIsIn DEF Fits
<1>2. hit \in Seq(AliveSeats(e))
  BY BombedAreIn DEF Fits
<1> HIDE DEF next, hit
<1>3. Fits(passed, r, e, null) /\ ~terminal(passed)
      /\ passed.pendingPenaltyQueue = s.pendingPenaltyQueue
  BY <1>1 DEF Fits, StateField, terminal
<1> HIDE DEF passed
<1>4. Waits(queue, e)
  <2> DEFINE Bombed == {penalty(i) : i \in AliveSeats(e)}
  <2>1. penalties \in Seq(Bombed)
    <3>1. Len(hit) \in Nat /\ DOMAIN hit = 1..Len(hit)
          /\ \A k \in 1..Len(hit) : hit[k] \in AliveSeats(e)
      BY <1>2
    <3> HIDE DEF penalty
    <3> QED
      BY <3>1
  <2>2. \A q \in Bombed : /\ q.playerId \notin Out(e)
                          /\ q.nextPlayerIndex \notin Out(e)
    BY <1>1 DEF AliveSeats, Out
  <2>3. PICK S : /\ s.pendingPenaltyQueue \in Seq(S)
                 /\ \A q \in S : /\ q.playerId \notin Out(e)
                                 /\ q.nextPlayerIndex \notin Out(e)
    BY DEF Fits, Waits
  <2> HIDE DEF Bombed, penalties
  <2>4. /\ s.pendingPenaltyQueue \in Seq(S \cup Bombed)
        /\ penalties \in Seq(S \cup Bombed)
    BY <2>1, <2>3
  <2>5. queue \in Seq(S \cup Bombed)
    BY <2>4
  <2> QED
    BY <2>2, <2>3, <2>5 DEF Waits
<1> HIDE DEF penalties
<1>5. Fits([passed EXCEPT !.pendingPenaltyQueue = @ \o penalties], r, e, null)
  BY <1>3, <1>4 DEF Fits, StateField, terminal
<1> QED
  BY <1>3, <1>5, DrainPenaltyQueueFits
     DEF multiPlayPass, penalties, penalty, hit, passed, next

LEMMA ChooseSwapTargetFits ==
    ASSUME NEW s, NEW r, NEW e, Fits(s, r, e, null), NEW p \in Seat,
           NEW target \in Seat, chooseSwapTargetAllowed(s, p, target)
    PROVE  Fits(chooseSwapTarget(s, p, target), r, e, null)
<1> DEFINE swapped == [s.hand EXCEPT ![p] = s.hand[target],
                                     ![target] = s.hand[p]]
           pair == {p, target}
           called == [i \in Seat |-> IF i \in pair
                                     THEN Cardinality(swapped[i]) = 1
                                     ELSE s.calledUno[i]]
           next == getNextAliveIndex(s.eliminated, p, s.direction)
<1>1. /\ ~terminal(s) /\ p \notin Out(e) /\ target \notin Out(e)
      /\ p # target
  BY DEF chooseSwapTargetAllowed, IsCurrent, terminal, TerminalPhase, Fits, Out
<1>2. s.hand \in [Seat -> SUBSET Deck] /\ s.calledUno \in [Seat -> BOOLEAN]
  BY DEF Fits, CallsFit
<1>3. /\ swapped \in [Seat -> SUBSET Deck]
      /\ swapped[p] = s.hand[target] /\ swapped[target] = s.hand[p]
      /\ \A i \in Seat \ pair : swapped[i] = s.hand[i]
  BY <1>1, <1>2
<1> HIDE DEF swapped
<1>4. called \in [Seat -> BOOLEAN]
  BY <1>2
<1>5. CallsFit(swapped, called, r)
  BY <1>3, <1>4 DEF CallsFit, Fits
<1>6. HandsFit(swapped, r, e, null)
  BY <1>1, <1>3, NullIsNoSeat DEF HandsFit, Fits, Out
<1>7. next \notin Out(e)
  BY NextIsIn DEF Fits
<1> HIDE DEF next, called
<1>8. ASSUME NEW caught
      PROVE  Fits([s EXCEPT !.hand = swapped, !.calledUno = called,
                            !.unoCaught = caught, !.phase = "playing",
                            !.currentPlayerIndex = next,
                            !.lastAction = Acted("CHOOSE_SWAP_TARGET", p)],
                  r, e, null)
  BY <1>1, <1>5, <1>6, <1>7 DEF Fits, StateField, terminal, TerminalPhase
<1> QED
  BY <1>8, DrainPenaltyQueueFits
     DEF chooseSwapTarget, swapped, called, pair, next

(***************************************************************************)
(* The actions                                                             *)
(***************************************************************************)
LEMMA DealtStateFits ==
    ASSUME NEW d \in Deals, NEW rules, NEW eliminated \in [Seat -> BOOLEAN],
           AliveSeats(eliminated) # {}, NEW score, NEW roundWins, NEW teamId,
           NEW first \in Seat, first \notin Out(eliminated), NEW round,
           LegalDeal(d, rules, eliminated, first)
    PROVE  Fits(dealtState(d, rules, eliminated, score, roundWins, teamId,
                           first, round), rules, eliminated, null)
<1> DEFINE s == dealtState(d, rules, eliminated, score, roundWins, teamId,
                           first, round)
           called == [p \in Seat |-> FALSE]
           turn == IF type[d.top] \in {"skip", "draw_two"}
                   THEN getNextAliveIndex(eliminated, first, "clockwise")
                   ELSE first
<1>1. /\ DOMAIN s = StateField
      /\ s.houseRules = rules /\ s.eliminated = eliminated
      /\ s.hand = d.hand /\ s.calledUno = called
      /\ s.currentPlayerIndex = turn
      /\ s.pendingDrawPlayerId = null
      /\ s.pendingPenaltyNextPlayerIndex = null
      /\ s.pendingPenaltyQueue = <<>>
  BY DEF dealtState, StateField
<1>2. turn \notin Out(eliminated)
  BY NextIsIn
<1> HIDE DEF s, turn
<1>3. d.hand \in [Seat -> SUBSET Deck]
  BY UnoGameAssumption DEF IsDeal
<1>4. ASSUME NEW p \in Seat
      PROVE  d.hand[p] = {} <=> eliminated[p]
  <2>1. IsFiniteSet(d.hand[p])
    BY <1>3, DeckAssumption, FS_Subset
  <2>2. Cardinality(d.hand[p]) = 0 <=> eliminated[p]
    BY UnoGameAssumption DEF LegalDeal
  <2> QED
    BY <2>1, <2>2, FS_EmptySet
<1>5. HandsFit(d.hand, rules, eliminated, null)
  BY <1>4 DEF HandsFit, Out
<1>6. CallsFit(d.hand, called, rules)
  BY <1>3 DEF CallsFit
<1>7. Fits(s, rules, eliminated, null)
  BY <1>1, <1>2, <1>5, <1>6, NobodyWaits, NullIsNoSeat DEF Fits
<1> QED
  BY <1>7 DEF s

FitState == Fits(state, state.houseRules, state.eliminated, null)

LEMMA InitFits == Init => FitState
<1> SUFFICES ASSUME Init PROVE FitState
  OBVIOUS
<1>1. PICK rules \in RuleSets, d \in Deals :
         LegalDeal(d, rules, Nobody, 0) /\ state = initializeGame(d, rules)
  BY DEF Init
<1>2. /\ 0 \in Seat /\ 0 \notin Out(Nobody)
      /\ Nobody \in [Seat -> BOOLEAN] /\ AliveSeats(Nobody) # {}
  <2>1. 0 \in Seat
    BY NAssumption DEF Seat
  <2> QED
    BY <2>1 DEF Nobody, AliveSeats, Out
<1>3. Fits(state, rules, Nobody, null)
  BY <1>1, <1>2, DealtStateFits DEF initializeGame
<1> QED
  BY <1>3 DEF FitState, Fits

LEMMA StartNextRoundFits ==
    ASSUME Sound(state), FitState, NEW d \in Deals,
           NEW seating \in Seatings(state.houseRules),
           StartNextRound(d, seating)
    PROVE  FitState' /\ KeepsTwo(state.eliminated, state')
<1> DEFINE eliminated == [i \in Seat |-> state.eliminated[seating[i]]]
           first == firstOfRound(state, eliminated)
<1>1. /\ seating \in [Seat -> Seat]
      /\ \A q \in Seat : \E p \in Seat : seating[p] = q
  BY SeatingIsOnto
<1>2. eliminated \in [Seat -> BOOLEAN]
  BY <1>1 DEF Sound, IsGameState
<1>3. AliveSeats(eliminated) # {}
  <2>1. PICK q \in Seat : ~state.eliminated[q]
    BY DEF Sound, AliveSeats
  <2>2. PICK p \in Seat : seating[p] = q
    BY <1>1
  <2> QED
    BY <2>1, <2>2 DEF AliveSeats
<1>4. LegalDeal(d, state.houseRules, eliminated, first)
  BY DEF StartNextRound
<1> HIDE DEF eliminated
<1>5. first \in Seat /\ first \notin Out(eliminated)
  <2>1. state.currentPlayerIndex \in Seat
    BY DEF Sound, IsGameState
  <2> QED
    BY <1>3, <2>1, NextIsIn DEF firstOfRound, Out
<1> HIDE DEF first
<1>6. \A score, roundWins, teamId, round :
         Fits(dealtState(d, state.houseRules, eliminated, score, roundWins,
                         teamId, first, round),
              state.houseRules, eliminated, null)
  BY <1>2, <1>3, <1>4, <1>5, DealtStateFits
<1>7. Fits(state', state.houseRules, eliminated, null)
  BY <1>6 DEF StartNextRound, initializeNextRound, eliminated, first
<1>8. Paired(state.eliminated) => Paired(eliminated)
  <2> SUFFICES ASSUME NEW i \in Seat, NEW j \in Seat, i # j,
                      ~state.eliminated[i], ~state.eliminated[j]
               PROVE  Paired(eliminated)
    BY DEF Paired, AliveSeats
  <2>1. PICK k \in Seat : seating[k] = i
    BY <1>1
  <2>2. PICK l \in Seat : seating[l] = j
    BY <1>1
  <2> QED
    BY <2>1, <2>2 DEF Paired, AliveSeats, eliminated
<1> QED
  BY <1>7, <1>8 DEF FitState, Fits, KeepsTwo

LEMMA TurnActionFits ==
    ASSUME Sound(state), FitState, NEW p \in Seat, TurnAction(p)
    PROVE  /\ FitState' /\ state'.houseRules = state.houseRules
           /\ KeepsTwo(state.eliminated, state')
<1> DEFINE r == state.houseRules
           e == state.eliminated
           Fit(t) == (\E left : Fits(t, r, left, null)) /\ KeepsTwo(e, t)
<1>1. /\ Fits(state, r, e, null)
      /\ state.currentPlayerIndex \in Seat
      /\ state.hand \in [Seat -> SUBSET Deck]
      /\ state.pendingDrawPlayerId \in Seat \cup {null}
  BY DEF FitState, Sound, IsGameState
<1>2. AliveSeats(state'.eliminated) # {}
  BY TurnActionSound DEF Sound
<1>3. state.phase = "playing" => ~terminal(state)
  BY DEF terminal, TerminalPhase
<1>4. ~terminal(state) => state.currentPlayerIndex \notin Out(e)
  BY <1>1 DEF Fits
<1> SUFFICES Fit(state')
  BY DEF FitState, Fits
<1> HIDE DEF r, e
<1>5. state.houseRules = r /\ state.eliminated = e
  BY DEF r, e
<1>0. ASSUME NEW t, Fits(t, r, e, null) PROVE Fit(t)
  BY <1>0 DEF Fits, KeepsTwo
<1>6. ASSUME NEW result, Fits(result, r, e, null), NEW c,
             state' = handledPlay(state, result, c)
      PROVE  Fit(state')
  BY <1>1, <1>2, <1>5, <1>6, HandledPlayFits
<1>7. ASSUME NEW after, Fits(after, r, e, null), NEW card \in Deck,
             state' = postProcessDraw(state, after, p, card)
      PROVE  Fit(state')
  BY <1>2, <1>7, PostProcessDrawFits
<1>8. ASSUME NEW after, Fits(after, r, e, null),
             state' = settleRound(state, after)
      PROVE  Fit(state')
  BY <1>2, <1>8, SettleRoundFits
<1>9. ASSUME NEW c \in state.hand[p],
             \/ PlayCard(p, c)
             \/ ForfeitFinishRestriction(p, c)
             \/ Deflect(p, c)
             \/ ForcedPlayWithoutDraw(p, c)
      PROVE  Fit(state')
  <2>1. c \in Deck
    BY <1>1
  <2>2. CASE PlayCard(p, c)
    <3>1. p = state.currentPlayerIndex /\ state.phase = "playing"
      BY <2>2 DEF PlayCard, playCardAllowed
    <3>2. Fits(handlePlayCard(state, p, c), r, e, null)
      BY <1>1, <1>3, <1>4, <2>1, <3>1, HandlePlayCardFits
    <3>3. state' = postProcessPlay(state, handlePlayCard(state, p, c), c)
      BY <2>2 DEF PlayCard
    <3> QED
      BY <1>1, <1>2, <1>3, <1>4, <1>5, <3>1, <3>2, <3>3, PostProcessPlayFits
  <2>3. CASE ForfeitFinishRestriction(p, c)
    BY <1>1, <1>6, <2>3, HandlePassFits DEF ForfeitFinishRestriction
  <2>4. CASE Deflect(p, c)
    BY <1>1, <1>6, <2>4, DeflectionFits DEF Deflect
  <2>5. CASE ForcedPlayWithoutDraw(p, c)
    BY <1>1, <1>7, <2>1, <2>5 DEF ForcedPlayWithoutDraw
  <2> QED
    BY <1>9, <2>2, <2>3, <2>4, <2>5
<1>10. ASSUME NEW c \in state.hand[p], NEW chosen \in Color \cup {null},
              Stack(p, c, chosen)
       PROVE  Fit(state')
  BY <1>1, <1>6, <1>10, StackingFits DEF Stack
<1>11. ASSUME NEW c \in state.hand[p],
              NEW card \in CanYield(state, LongerSide(state)),
              PayFinishRestriction(p, c, card)
       PROVE  Fit(state')
  <2>1. card \in Deck
    BY LongerSideIsSide, DrawnCardsAreCards
  <2>2. ~terminal(state) => p \notin Out(e)
    BY <1>4, <1>11 DEF PayFinishRestriction, finishRestrictionsAllowed, IsCurrent
  <2>3. Fits(finishPenaltyCard(state, p, card), r, e, null)
    BY <1>1, <2>1, <2>2, DrawCardsFits DEF finishPenaltyCard
  <2> QED
    BY <1>6, <1>11, <2>3 DEF PayFinishRestriction
<1>12. ASSUME NEW side \in DrawSide, NEW card \in drawnCards(p, side),
              \/ DrawCard(p, side, card)
              \/ DrawUntilPlayable(p, side, card)
              \/ TakeStack(p, side, card)
       PROVE  Fit(state')
  <2>1. card \in Deck
    BY DrawnCardsAreCards
  <2>2. IsCurrent(state, p)
    BY <1>12 DEF DrawCard, DrawUntilPlayable, TakeStack, drawCardAllowed,
                 IsCurrent
  <2>3. Fits(handleDrawCard(state, p, side, card), r, e, null)
    BY <1>1, <1>4, <2>1, <2>2, HandleDrawCardFits DEF IsCurrent
  <2>4. CASE DrawCard(p, side, card)
    BY <1>7, <2>1, <2>3, <2>4 DEF DrawCard
  <2>5. CASE DrawUntilPlayable(p, side, card)
    BY <1>0, <2>3, <2>5 DEF DrawUntilPlayable
  <2>6. CASE TakeStack(p, side, card)
    BY <1>1, <1>8, <2>1, <2>2, <2>6, ResolveStackFits DEF TakeStack
  <2> QED
    BY <1>12, <2>4, <2>5, <2>6
<1>13. CASE Pass(p)
  BY <1>1, <1>8, <1>13, HandlePassFits DEF Pass
<1>14. CASE EndMultiPlay(p)
  BY <1>0, <1>1, <1>3, <1>14, MultiPlayPassFits DEF EndMultiPlay, multiPlayPassClaims
<1>15. ASSUME NEW chosen \in Color,
              ChooseColor(p, chosen) \/ ChooseColorUnchallenged(p, chosen)
       PROVE  Fit(state')
  <2>1. ~terminal(state)
    BY <1>15 DEF ChooseColor, ChooseColorUnchallenged, chooseColorAllowed,
                 terminal, TerminalPhase
  <2>2. CASE ChooseColor(p, chosen)
    BY <1>0, <1>1, <2>1, <2>2, HandleChooseColorFits DEF ChooseColor
  <2>3. CASE ChooseColorUnchallenged(p, chosen)
    BY <1>0, <1>1, <2>3, ChooseColorUnchallengedFits DEF ChooseColorUnchallenged
  <2> QED
    BY <1>15, <2>2, <2>3
<1>16. CASE Challenge(p) \/ Accept(p)
  BY <1>0, <1>1, <1>16, AnswersFit DEF Challenge, Accept, challengeAllowed
<1>17. ASSUME NEW target \in Seat, ChooseSwapTarget(p, target)
       PROVE  Fit(state')
  BY <1>0, <1>1, <1>17, ChooseSwapTargetFits DEF ChooseSwapTarget
<1> QED
  BY <1>9, <1>10, <1>11, <1>12, <1>13, <1>14, <1>15, <1>16, <1>17
     DEF TurnAction

LEMMA SideActionFits ==
    ASSUME Sound(state), FitState, NEW p \in Seat, SideAction(p)
    PROVE  /\ FitState' /\ state'.houseRules = state.houseRules
           /\ KeepsTwo(state.eliminated, state')
<1> DEFINE r == state.houseRules
           e == state.eliminated
           Fit(t) == (\E left : Fits(t, r, left, null)) /\ KeepsTwo(e, t)
<1>1. /\ Fits(state, r, e, null)
      /\ state.currentPlayerIndex \in Seat
      /\ state.hand \in [Seat -> SUBSET Deck]
  BY DEF FitState, Sound, IsGameState
<1>2. AliveSeats(state'.eliminated) # {}
  BY SideActionSound DEF Sound
<1> SUFFICES Fit(state')
  BY DEF FitState, Fits
<1> HIDE DEF r, e
<1>3. state.houseRules = r /\ state.eliminated = e
  BY DEF r, e
<1>0. ASSUME NEW t, Fits(t, r, e, null) PROVE Fit(t)
  BY <1>0 DEF Fits, KeepsTwo
<1>4. ASSUME NEW result, Fits(result, r, e, null), NEW c,
             state' = handledPlay(state, result, c)
      PROVE  Fit(state')
  BY <1>1, <1>2, <1>3, <1>4, HandledPlayFits
<1>5. ASSUME NEW c \in state.hand[p], NEW chosen \in Color \cup {null},
             JumpIn(p, c, chosen)
      PROVE  Fit(state')
  <2>1. c \in Deck
    BY <1>1
  <2>2. Fits(jumpIn(state, p, c, chosen), r, e, null)
    BY <1>1, <1>5, <2>1, JumpInFits DEF JumpIn
  <2> QED
    BY <1>4, <1>5, <2>2 DEF JumpIn
<1>6. ASSUME NEW c \in Deck, Misplay(p, c)
      PROVE  Fit(state')
  <2>1. ~terminal(state) => p \notin Out(e)
    BY <1>1, <1>6 DEF Misplay, IsCurrent, Fits
  <2>2. Fits(misplayPenalty(state, p), r, e, null)
    BY <1>1, <1>6, <2>1, StartPenaltyDrawFits
       DEF Misplay, IsCurrent, misplayPenalty
  <2> QED
    BY <1>4, <1>6, <2>2 DEF Misplay
<1>7. CASE CallUno(p)
  BY <1>0, <1>1, <1>7, UnoCallsFit DEF CallUno
<1>8. CASE CatchUno(p)
  BY <1>0, <1>1, <1>8, UnoCallsFit DEF CatchUno
<1> QED
  BY <1>5, <1>6, <1>7, <1>8 DEF SideAction

(***************************************************************************)
(* What follows                                                            *)
(***************************************************************************)

(* Cards, calls and turns are with the players who are still in the game.   *)
THEOREM AlwaysFit == Spec => []FitState
<1>1. SoundState /\ FitState /\ [Next]_vars => FitState'
  <2> SUFFICES ASSUME Sound(state), FitState, [Next]_vars
               PROVE  FitState'
    BY DEF SoundState
  <2>1. ASSUME NEW p \in Seat, TurnAction(p) \/ SideAction(p)
        PROVE  FitState'
    BY <2>1, TurnActionFits, SideActionFits
  <2>2. CASE NextRound
    BY <2>2, StartNextRoundFits DEF NextRound
  <2>3. CASE UNCHANGED vars
    BY <2>3 DEF vars, FitState
  <2> QED
    BY <2>1, <2>2, <2>3 DEF Next
<1> QED
  BY <1>1, InitFits, AlwaysSound, PTL DEF Spec

(* An eliminated player holds no card, is never on turn and never owes one, *)
(* also when penalties of several players queue up or a bomb hits them all. *)
THEOREM EliminatedAreOut == Spec => []EliminatedStayOut
<1>1. SoundState /\ FitState => EliminatedStayOut
  <2> SUFFICES ASSUME SoundState, FitState, ~terminal(state),
                      NEW p \in Seat, state.eliminated[p]
               PROVE  /\ state.hand[p] = {}
                      /\ p \notin {state.currentPlayerIndex,
                                   state.pendingDrawPlayerId,
                                   state.pendingPenaltyNextPlayerIndex}
                      /\ \A i \in DOMAIN state.pendingPenaltyQueue :
                            p # state.pendingPenaltyQueue[i].playerId
    BY DEF EliminatedStayOut
  <2>1. p \in Out(state.eliminated)
    BY DEF Out
  <2>2. PICK S : /\ state.pendingPenaltyQueue \in Seq(S)
                 /\ \A q \in S : q.playerId \notin Out(state.eliminated)
    BY DEF FitState, Fits, Waits
  <2>3. \A i \in DOMAIN state.pendingPenaltyQueue :
           state.pendingPenaltyQueue[i] \in S
    BY <2>2
  <2> QED
    BY <2>1, <2>2, <2>3 DEF FitState, Fits, HandsFit
<1> QED
  BY <1>1, AlwaysFit, AlwaysSound, PTL

(* While a round goes on everybody still in the game holds a card: whatever *)
(* empties a hand ends the round.  The exception is a jump-in with a last   *)
(* zero, whose empty hand is rotated away before checkRoundEnd looks.       *)
THEOREM EmptyHandsEndRounds ==
    Spec => [](~({"jumpIn", "zeroRotateHands"} \subseteq state.houseRules)
               => EmptyHandEndsRound)
<1>1. FitState => (~({"jumpIn", "zeroRotateHands"} \subseteq state.houseRules)
                   => EmptyHandEndsRound)
  BY NullIsNoSeat DEF FitState, Fits, HandsFit, EmptyHandEndsRound, AliveSeats, Out
<1> QED
  BY <1>1, AlwaysFit, PTL

(* An UNO call is void as soon as its player holds more than two cards, by  *)
(* a draw, a penalty or a swap.  A rotation of hands leaves the calls where *)
(* they are, so nothing is claimed for games with zeroRotateHands.          *)
THEOREM CallsAreVoided ==
    Spec => []("zeroRotateHands" \notin state.houseRules => CallOutlivesNoDraw)
<1>1. FitState =>
         ("zeroRotateHands" \notin state.houseRules => CallOutlivesNoDraw)
  BY DEF FitState, Fits, CallsFit, CallOutlivesNoDraw
<1> QED
  BY <1>1, AlwaysFit, PTL
=============================================================================
