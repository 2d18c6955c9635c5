------------------------------- MODULE MCUno -------------------------------
(***************************************************************************)
(* Small games for TLC.  Each run takes one of the decks and a deal of it. *)
(***************************************************************************)
EXTENDS AutomatedPlay, FiniteSetsExt

Card(t, col, v) == [type |-> t, color |-> col, value |-> v]

Number(col, v) == Card("number", col, v)

MCtype(cards) == [c \in DOMAIN cards |-> cards[c].type]
MCcolor(cards) == [c \in DOMAIN cards |-> cards[c].color]
MCvalue(cards) == [c \in DOMAIN cards |-> cards[c].value]

(* The deal of a deck shuffled to 1, 2, ...: sizes[p + 1] cards to seat p,  *)
(* then the first discard, then the left and the right side deck.           *)
DealOf(sizes) ==
    LET before(p) == MapThenSumSet(LAMBDA q : sizes[q], 1..p)
        dealt == before(N)
        half == (Cardinality(Deck) - dealt) \div 2
    IN  [hand |-> [p \in Seat |-> (before(p) + 1)..before(p + 1)],
         top |-> dealt + 1,
         left |-> (dealt + 2)..(dealt + 1 + half),
         right |-> (dealt + 2 + half)..Cardinality(Deck)]

OneCardEach == {DealOf([p \in 1..N |-> 1])}

(* Bound: penalties that wait behind the active one.                        *)
MaxQueue == 1
ShortQueue == Len(state.pendingPenaltyQueue) <= MaxQueue

(* Bound: nobody calls UNO, in the runs with silentUno that are not about   *)
(* calls.                                                                   *)
NoUnoCalls == \A p \in Seat : ~state.calledUno[p]

(* Classic rules: a penalty card of each kind and a way to challenge.       *)
ClassicCards ==
    << Card("draw_two", "red", 0), Card("wild_draw_four", null, 0),
       Number("red", 1), Number("blue", 1), Number("blue", 2),
       Card("skip", "red", 0) >>
ClassicDeck == DOMAIN ClassicCards
ClassicType == MCtype(ClassicCards)
ClassicColor == MCcolor(ClassicCards)
ClassicValue == MCvalue(ClassicCards)
ClassicRules == {{}}

(* Rules that answer a penalty card with another card.                      *)
StackCards ==
    << Card("draw_two", "red", 0), Card("wild_draw_four", null, 0),
       Card("reverse", "red", 0), Card("skip", "blue", 0),
       Card("draw_two", "blue", 0), Number("red", 1) >>
StackDeck == DOMAIN StackCards
StackType == MCtype(StackCards)
StackColor == MCcolor(StackCards)
StackValue == MCvalue(StackCards)
StackRules ==
    LET quiet == {"silentUno", "strictUnoCall"}
    IN  {quiet \cup {"stackDrawTwo", "stackDrawFour", "crossStack",
                     "reverseDeflectDrawTwo", "reverseDeflectDrawFour"},
         quiet \cup {"revengeMode", "skipDeflect"}}

(* Rules that restrict what a player may draw, play or finish with; and the *)
(* rules under which every debt is paid in the end.                         *)
LimitCards ==
    << Number("red", 1), Card("wild_draw_four", null, 0), Number("blue", 2),
       Number("red", 2), Card("draw_two", "blue", 0) >>
LimitDeck == DOMAIN LimitCards
LimitType == MCtype(LimitCards)
LimitColor == MCcolor(LimitCards)
LimitValue == MCvalue(LimitCards)
LimitRules ==
    {rules \cup {"silentUno", "strictUnoCall"} :
        rules \in {{"handLimit"},
                   {"handLimit", "drawUntilPlayable", "stackDrawTwo"},
                   {"forcedPlay", "drawUntilPlayable"},
                   {"forcedPlay", "handLimit", "noChallengeWildFour"},
                   {"forcedPlayAfterDraw", "noWildFinish",
                    "misplayPenalty"}}}

LimitAndDebtRules == LimitRules \cup {{"unoPenaltyCount"}}

(* Rules that move whole hands, act out of turn or play several cards.      *)
PartyCards ==
    << Number("red", 7), Number("red", 7), Card("wild", null, 0),
       Number("blue", 7), Number("blue", 1), Number("red", 0) >>
PartyDeck == DOMAIN PartyCards
PartyType == MCtype(PartyCards)
PartyColor == MCcolor(PartyCards)
PartyValue == MCvalue(PartyCards)
PartyRules ==
    {rules \cup {"silentUno", "strictUnoCall"} :
        rules \in {{"sevenSwapHands", "jumpIn"},
                   {"zeroRotateHands", "sevenSwapHands", "drawUntilPlayable"},
                   {"multiplePlaySameNumber", "bombCard"}}}

(* Rules about the result of a round, over two rounds: after the first, in  *)
(* which somebody is eliminated, the first or the last seat is dealt none.  *)
RoundCards ==
    << Number("red", 1), Number("blue", 1), Number("red", 1),
       Number("blue", 2), Number("red", 2), Card("skip", "red", 0) >>
RoundDeck == DOMAIN RoundCards
RoundType == MCtype(RoundCards)
RoundColor == MCcolor(RoundCards)
RoundValue == MCvalue(RoundCards)
RoundDeals ==
    OneCardEach
      \cup {DealOf([p \in 1..N |-> IF p = out THEN 0 ELSE 1]) : out \in {1, N}}
RoundRules == {{"silentUno", "strictUnoCall", "elimination", "shuffleSeats",
                "doubleScore", "teamMode"}}

(* The rules of the disagreements with the documentation.                   *)
StuckRules == {{"silentUno", "strictUnoCall", "stackDrawTwo",
                "noFunctionCardFinish"}}
StuckForcedRules == {{"silentUno", "strictUnoCall", "forcedPlay",
                      "noWildFinish"}}
RestrictedRules == {{"noFunctionCardFinish"}}
UndoubledRules == {{"doubleScore", "stackDrawTwo", "crossStack"}}
EvadedRules == {{"silentUno", "strictUnoCall", "misplayPenalty",
                 "multiplePlaySameNumber"}}
JumpZeroCards ==
    << Number("blue", 1), Number("red", 0), Number("blue", 2),
       Number("red", 0), Number("red", 1), Number("blue", 1) >>
JumpZeroDeck == DOMAIN JumpZeroCards
JumpZeroType == MCtype(JumpZeroCards)
JumpZeroColor == MCcolor(JumpZeroCards)
JumpZeroValue == MCvalue(JumpZeroCards)
JumpZeroRules == {{"jumpIn", "zeroRotateHands"}}
=============================================================================
