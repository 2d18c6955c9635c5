------------------------------ MODULE UnoGame ------------------------------
(***************************************************************************)
(* One game as GameSession (server/src/plugins/core/game/session.ts) runs  *)
(* it: every action goes through applyActionWithHouseRules, the next round *)
(* starts from a finished one.  Each action below is one way in which the  *)
(* rules engine accepts an input; an input it refuses changes nothing.     *)
(***************************************************************************)
EXTENDS HouseRules

CONSTANTS
    InitialHandSize,    \* INITIAL_HAND_SIZE
    RuleSets,           \* the house rules games are played with
    Deals,              \* the outcomes of shuffling and dealing considered
    MaxRounds           \* bound: the rounds of a game

(* What createDeck, dealCards, handleFirstDiscard, its effect and splitDeck *)
(* leave: the hands, the first discard and the two side decks.              *)
IsDeal(d) ==
    /\ d \in [hand : [Seat -> SUBSET Deck], left : SUBSET Deck,
              right : SUBSET Deck, top : Deck]
    /\ \A p, q \in Seat : p # q => d.hand[p] \cap d.hand[q] = {}
    /\ d.left \cap d.right = {}
    /\ \A p \in Seat : d.hand[p] \cap (d.left \cup d.right) = {}
    /\ d.top \notin (UNION {d.hand[p] : p \in Seat}) \cup d.left \cup d.right
    /\ (UNION {d.hand[p] : p \in Seat}) \cup d.left \cup d.right \cup {d.top}
          = Deck

ASSUME UnoGameAssumption ==
    /\ InitialHandSize \in Nat \ {0}
    /\ RuleSets \subseteq SUBSET HouseRule
    /\ \A d \in Deals : IsDeal(d)
    /\ MaxRounds \in Nat

VARIABLE state

vars == <<state>>

(***************************************************************************)
(* Starting a game and a round                                             *)
(***************************************************************************)

(* The first player takes the two cards of a first discard that is a +2.    *)
LegalDeal(d, rules, eliminated, first) ==
    /\ \A p \in Seat :
          Cardinality(d.hand[p]) =
             IF eliminated[p] THEN 0
             ELSE IF p = first /\ type[d.top] = "draw_two"
             THEN InitialHandSize + 2 ELSE InitialHandSize
    /\ Cardinality(d.left) - Cardinality(d.right) \in {0, 1}
    /\ type[d.top] # "wild_draw_four"
    /\ type[d.top] = "wild" => "wildFirstTurn" \in rules

(* applyFirstDiscardEffect and the state both initialisers return.          *)
dealtState(d, rules, eliminated, score, roundWins, teamId, first, round) ==
    LET direction == IF type[d.top] = "reverse"
                     THEN "counter_clockwise" ELSE "clockwise"
    IN  [phase |-> IF type[d.top] = "wild" THEN "choosing_color" ELSE "playing",
         houseRules |-> rules,
         hand |-> d.hand,
         calledUno |-> [p \in Seat |-> FALSE],
         unoCaught |-> [p \in Seat |-> FALSE],
         eliminated |-> eliminated,
         score |-> score,
         roundWins |-> roundWins,
         teamId |-> teamId,
         currentPlayerIndex |->
            IF type[d.top] \in {"skip", "draw_two"}
            THEN getNextAliveIndex(eliminated, first, "clockwise") ELSE first,
         direction |-> direction,
         deck |-> [side \in DrawSide |->
                     IF side = "left" THEN d.left ELSE d.right],
         deckInitialCount |-> [side \in DrawSide |->
                     Cardinality(IF side = "left" THEN d.left ELSE d.right)],
         discardPile |-> <<d.top>>,
         chosenColor |-> [w \in Wild |-> null],
         currentColor |-> color[d.top],
         drawStack |-> 0,
         pendingDrawPlayerId |-> null,
         pendingPenaltyDraws |-> 0,
         pendingPenaltyNextPlayerIndex |-> null,
         pendingPenaltySourcePlayerId |-> null,
         pendingPenaltyQueue |-> <<>>,
         pendingRevengeDraws |-> 0,
         lastAction |-> Acted(null, null),
         roundNumber |-> round,
         winnerId |-> null]

Nobody == [p \in Seat |-> FALSE]

initializeGame(d, rules) ==
    dealtState(d, rules, Nobody, [p \in Seat |-> 0], [p \in Seat |-> 0],
               [p \in Seat |-> IF "teamMode" \in rules /\ N % 2 = 0
                               THEN p % 2 ELSE null],
               0, 1)

Init ==
    \E rules \in RuleSets, d \in Deals :
        /\ LegalDeal(d, rules, Nobody, 0)
        /\ state = initializeGame(d, rules)

(* shuffleSeats: seat i of the next round is taken by the player of seat    *)
(* seating[i].                                                              *)
Seatings(rules) ==
    IF "shuffleSeats" \in rules
    THEN {f \in [Seat -> Seat] : \A i, j \in Seat : f[i] = f[j] => i = j}
    ELSE {[i \in Seat |-> i]}

(* Faulty: an eliminated player opens the next round.                       *)
firstOfRoundUnchecked(s, eliminated) == s.currentPlayerIndex

firstOfRound(s, eliminated) ==
    IF eliminated[s.currentPlayerIndex]
    THEN getNextAliveIndex(eliminated, s.currentPlayerIndex, "clockwise")
    ELSE s.currentPlayerIndex

initializeNextRound(s, d, seating) ==
    LET reseat(f) == [i \in Seat |-> f[seating[i]]]
        eliminated == reseat(s.eliminated)
    IN  dealtState(d, s.houseRules, eliminated, reseat(s.score),
                   reseat(s.roundWins), reseat(s.teamId),
                   firstOfRound(s, eliminated), s.roundNumber + 1)

StartNextRound(d, seating) ==
    LET eliminated == [i \in Seat |-> state.eliminated[seating[i]]]
    IN  /\ state.phase = "round_end"
        /\ state.roundNumber < MaxRounds
        /\ LegalDeal(d, state.houseRules, eliminated,
                     firstOfRound(state, eliminated))
        /\ state' = initializeNextRound(state, d, seating)

(***************************************************************************)
(* PLAY_CARD                                                               *)
(***************************************************************************)

(* A plugin before the named one claims the action.                         *)
claimedBeforeDeflection(p, c) ==
    finishRestrictionsClaims(state, p, c) \/ misplayPenaltyClaims(state, p, c)

claimedBeforeStacking(p, c) ==
    claimedBeforeDeflection(p, c) \/ deflectionClaims(state, p, c)

claimedBeforeJumpIn(p, c) ==
    claimedBeforeStacking(p, c) \/ stackingClaims(state, p, c)

claimedByPlugin(p, c) ==
    claimedBeforeJumpIn(p, c) \/ jumpInClaims(state, p)

(* Faulty: cards are played while a penalty is paid.                        *)
noPenaltyPendingUnchecked == TRUE

noPenaltyPending == state.pendingPenaltyDraws = 0

PlayCard(p, c) ==
    /\ noPenaltyPending
    /\ playCardAllowed(state, p, c)
    /\ ~claimedByPlugin(p, c)
    /\ state' = postProcessPlay(state, handlePlayCard(state, p, c), c)

PayFinishRestriction(p, c, card) ==
    /\ noPenaltyPending
    /\ finishRestrictionsClaims(state, p, c)
    /\ finishRestrictionsAllowed(state, p)
    /\ state' = handledPlay(state, finishPenaltyCard(state, p, card), c)

ForfeitFinishRestriction(p, c) ==
    /\ noPenaltyPending
    /\ finishRestrictionsClaims(state, p, c)
    /\ finishRestrictionsAllowed(state, p)
    /\ NoFinishCard(state)
    /\ passAllowed(state, p)
    /\ state' = handledPlay(state, handlePass(state, p), c)

Misplay(p, c) ==
    /\ noPenaltyPending
    /\ ~finishRestrictionsClaims(state, p, c)
    /\ misplayPenaltyClaims(state, p, c)
    /\ IsCurrent(state, p)
    /\ state' = handledPlay(state, misplayPenalty(state, p), c)

Deflect(p, c) ==
    /\ noPenaltyPending
    /\ ~claimedBeforeDeflection(p, c)
    /\ deflectionClaims(state, p, c)
    /\ state' = handledPlay(state, deflection(state, p, c), c)

Stack(p, c, chosen) ==
    /\ noPenaltyPending
    /\ ~claimedBeforeStacking(p, c)
    /\ stackingClaims(state, p, c)
    /\ stackingAllowed(state, p, c, chosen)
    /\ state' = handledPlay(state, stacking(state, p, c, chosen), c)

JumpIn(p, c, chosen) ==
    /\ noPenaltyPending
    /\ ~claimedBeforeJumpIn(p, c)
    /\ jumpInClaims(state, p)
    /\ jumpInAllowed(state, p, c)
    /\ state' = handledPlay(state, jumpIn(state, p, c, chosen), c)

(***************************************************************************)
(* DRAW_CARD                                                               *)
(***************************************************************************)

(* The card a draw from side takes.  When there is none to take, the card   *)
(* forcedPlayAfterDraw looks at, the last one of the hand.                  *)
drawnCards(p, side) ==
    IF CanYield(state, side) # {} THEN CanYield(state, side)
    ELSE IF state.hand[p] # {} THEN state.hand[p]
    ELSE Deck

DrawCard(p, side, card) ==
    /\ drawCardAllowed(state, p)
    /\ ~drawRefused(state, p)
    /\ ~stackingClaimsDraw(state)
    /\ ~drawUntilPlayableClaims(state, p)
    /\ state' = postProcessDraw(state, handleDrawCard(state, p, side, card),
                                p, card)

DrawUntilPlayable(p, side, card) ==
    /\ drawUntilPlayableClaims(state, p)
    /\ drawCardAllowed(state, p)
    /\ ~drawRefused(state, p)
    /\ state' = handleDrawCard(state, p, side, card)

TakeStack(p, side, card) ==
    /\ stackingClaimsDraw(state)
    /\ IsCurrent(state, p)
    /\ state' = settleRound(state, resolveStack(state, p, side, card))

(* forcedPlayAfterDraw also follows a draw the engine refused because no    *)
(* card is left: it plays the last card of the hand.                        *)
ForcedPlayWithoutDraw(p, card) ==
    /\ On(state, "forcedPlayAfterDraw")
    /\ ~hasCardsAvailable(state)
    /\ ~drawRefused(state, p)
    /\ ~drawUntilPlayableClaims(state, p)
    /\ noPenaltyPending
    /\ playCardAllowed(state, p, card)
    /\ state' = postProcessDraw(state, state, p, card)

(***************************************************************************)
(* The other actions                                                       *)
(***************************************************************************)
Pass(p) ==
    /\ passAllowed(state, p)
    /\ ~multiPlayPassClaims(state, p)
    /\ ~passRefused(state, p)
    /\ state' = settleRound(state, handlePass(state, p))

EndMultiPlay(p) ==
    /\ multiPlayPassClaims(state, p)
    /\ state' = multiPlayPass(state, p)

ChooseColor(p, chosen) ==
    /\ chooseColorAllowed(state, p)
    /\ ~On(state, "noChallengeWildFour") \/ state.pendingDrawPlayerId = null
    /\ state' = handleChooseColor(state, p, chosen)

ChooseColorUnchallenged(p, chosen) ==
    /\ chooseColorAllowed(state, p)
    /\ On(state, "noChallengeWildFour") /\ state.pendingDrawPlayerId # null
    /\ state' = chooseColorUnchallenged(state, p, chosen)

Challenge(p) ==
    /\ ~On(state, "noChallengeWildFour")
    /\ challengeAllowed(state, p)
    /\ state' = handleChallenge(state, p)

Accept(p) ==
    /\ respondAllowed(state, p)
    /\ state' = handleAccept(state, p)

CallUno(p) ==
    /\ callUnoAllowed(state, p)
    /\ state' = handleCallUno(state, p)

CatchUno(target) ==
    /\ ~On(state, "silentUno")
    /\ catchUnoAllowed(state, target)
    /\ state' = handleCatchUno(state, target,
                    IF On(state, "unoPenaltyCount") THEN UnoPenaltyCount ELSE 2)

ChooseSwapTarget(p, target) ==
    /\ chooseSwapTargetAllowed(state, p, target)
    /\ state' = chooseSwapTarget(state, p, target)

(***************************************************************************)
(* The specification                                                       *)
(***************************************************************************)

(* What a player does with the cards when the game waits for an answer.     *)
TurnAction(p) ==
    \/ \E c \in state.hand[p] :
          \/ PlayCard(p, c)
          \/ ForfeitFinishRestriction(p, c)
          \/ Deflect(p, c)
          \/ \E chosen \in Color \cup {null} : Stack(p, c, chosen)
          \/ \E card \in CanYield(state, LongerSide(state)) :
                PayFinishRestriction(p, c, card)
          \/ ForcedPlayWithoutDraw(p, c)
    \/ \E side \in DrawSide : \E card \in drawnCards(p, side) :
          \/ DrawCard(p, side, card)
          \/ DrawUntilPlayable(p, side, card)
          \/ TakeStack(p, side, card)
    \/ Pass(p)
    \/ EndMultiPlay(p)
    \/ \E chosen \in Color : \/ ChooseColor(p, chosen)
                             \/ ChooseColorUnchallenged(p, chosen)
    \/ Challenge(p)
    \/ Accept(p)
    \/ \E target \in Seat : ChooseSwapTarget(p, target)

(* What anybody may do at any moment, or to his own harm.                   *)
SideAction(p) ==
    \/ \E c \in state.hand[p], chosen \in Color \cup {null} :
          JumpIn(p, c, chosen)
    \/ \E c \in Deck : Misplay(p, c)
    \/ CallUno(p)
    \/ CatchUno(p)

NextRound == \E d \in Deals, seating \in Seatings(state.houseRules) :
                StartNextRound(d, seating)

Next ==
    \/ \E p \in Seat : TurnAction(p) \/ SideAction(p)
    \/ NextRound

Spec == Init /\ [][Next]_vars

(* The server acts for a player who does not (turn-timer.ts, the autopilot  *)
(* and the bots), so the player the game waits for moves in the end.        *)
FairSpec == Spec /\ \A p \in Seat : WF_vars(TurnAction(p))

(***************************************************************************)
(* Properties                                                              *)
(***************************************************************************)

(* Every component of the game state has its type.                          *)
TypeOK == IsGameState(state)
=============================================================================
