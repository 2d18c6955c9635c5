------------------------------- MODULE Cards -------------------------------
(***************************************************************************)
(* The cards of packages/shared/src: types/card.ts, rules/validation.ts,   *)
(* rules/scoring.ts and constants/scoring.ts.                              *)
(*                                                                         *)
(* A card is an element of Deck; type, color and value are its immutable   *)
(* attributes.  The one attribute of a card object that changes, the       *)
(* chosenColor of a wild card, is part of the game state (GameEngine).     *)
(***************************************************************************)
EXTENDS Integers, FiniteSets

CONSTANTS
    Deck,       \* the cards of createDeck()
    type,       \* [Deck -> CardType]
    color,      \* [Deck -> Color \cup {null}], null for the wild cards
    value,      \* [Deck -> 0..9], read for number cards only
    Color,      \* the colours in play
    null        \* the null / undefined of the code

CardType == {"number", "skip", "reverse", "draw_two", "wild", "wild_draw_four"}

isWildCard(c) == type[c] \in {"wild", "wild_draw_four"}

Wild == {c \in Deck : isWildCard(c)}

ASSUME DeckAssumption ==
    /\ IsFiniteSet(Deck)
    /\ type \in [Deck -> CardType]
    /\ color \in [Deck -> Color \cup {null}]
    /\ value \in [Deck -> 0..9]
    /\ null \notin Color
    /\ \A c \in Deck : color[c] = null <=> isWildCard(c)

isFunctionCard(c) == type[c] \in {"draw_two", "wild_draw_four"}

isNumberCard(c, v) == type[c] = "number" /\ value[c] = v

(* getCardSymbol: two cards show the same symbol; wild cards show none.     *)
SameSymbol(c, top) ==
    /\ ~isWildCard(c)
    /\ type[c] = type[top]
    /\ type[c] = "number" => value[c] = value[top]

canPlayCard(c, top, currentColor) ==
    isWildCard(c) \/ color[c] = currentColor \/ SameSymbol(c, top)

isValidWildDrawFour(hand, currentColor) ==
    \A c \in hand : isWildCard(c) \/ color[c] # currentColor

isExactJumpInMatch(c, top) ==
    /\ type[c] = type[top]
    /\ color[c] = color[top]
    /\ type[c] = "number" => value[c] = value[top]

getCardDrawPenalty(c) ==
    CASE type[c] = "draw_two" -> 2
      [] type[c] = "wild_draw_four" -> 4
      [] OTHER -> 0

getCardScore(c) ==
    CASE type[c] = "number" -> value[c]
      [] type[c] \in {"skip", "reverse", "draw_two"} -> 20
      [] OTHER -> 50

(* calculateRoundScore: the points in a hand.  The sum is the number of     *)
(* pairs <<card, point>>, one pair for each point of each card.             *)
HandScore(hand) ==
    Cardinality({cp \in hand \X (1..50) : cp[2] <= getCardScore(cp[1])})
=============================================================================
