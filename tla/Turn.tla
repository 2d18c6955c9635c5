-------------------------------- MODULE Turn --------------------------------
(***************************************************************************)
(* packages/shared/src/rules/turn.ts: who acts next around the table.      *)
(* A player is identified with the seat (the index in the players array).  *)
(***************************************************************************)
EXTENDS Integers, FiniteSets

CONSTANT N      \* players.length

ASSUME NAssumption == N \in Nat \ {0}

Seat == 0..(N - 1)

Direction == {"clockwise", "counter_clockwise"}

reverseDirection(direction) ==
    IF direction = "clockwise" THEN "counter_clockwise" ELSE "clockwise"

AliveSeats(eliminated) == {i \in Seat : ~eliminated[i]}

countAlivePlayers(eliminated) == Cardinality(AliveSeats(eliminated))

(* The number of steps, at least one, from seat i to seat j.                *)
Steps(i, j, direction) ==
    LET d == IF direction = "clockwise" THEN j - i ELSE i - j
    IN  IF d > 0 THEN d ELSE d + N

(* The loop of getNextAliveIndex with skip = 0: the alive seat the fewest   *)
(* steps away.                                                              *)
getNextAliveIndex(eliminated, i, direction) ==
    CHOOSE j \in AliveSeats(eliminated) :
        \A k \in AliveSeats(eliminated) :
            Steps(i, j, direction) <= Steps(i, k, direction)

(* Faulty: two seats on, not around the table.                              *)
skipNextAliveIndexNoWrap(eliminated, i, direction) == i + 2

(* getNextAliveIndex with skip = 1: the alive seat after that one.          *)
skipNextAliveIndex(eliminated, i, direction) ==
    getNextAliveIndex(eliminated,
                      getNextAliveIndex(eliminated, i, direction), direction)

(* rotateHands: hands move one alive seat along the play direction.         *)
rotateHands(hand, eliminated, direction) ==
    [i \in Seat |->
        IF eliminated[i]
        THEN hand[i]
        ELSE hand[getNextAliveIndex(eliminated, i, reverseDirection(direction))]]
=============================================================================
