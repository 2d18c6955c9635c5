----------------------------- MODULE TicketLock -----------------------------
(***************************************************************************)
(* The lock as its users see it: whoever asks draws the next number, the   *)
(* numbers are let in one at a time and in order.                          *)
(***************************************************************************)
EXTENDS Naturals

VARIABLES
    drawn,   \* how many numbers were drawn
    served,  \* how many have left again
    inside   \* somebody is in

lockVars == <<drawn, served, inside>>

Init == drawn = 0 /\ served = 0 /\ inside = FALSE

Draw ==
    /\ drawn' = drawn + 1
    /\ UNCHANGED <<served, inside>>

Enter ==
    /\ ~inside /\ served < drawn
    /\ inside' = TRUE
    /\ UNCHANGED <<drawn, served>>

Leave ==
    /\ inside
    /\ inside' = FALSE
    /\ served' = served + 1
    /\ UNCHANGED drawn

Next == Draw \/ Enter \/ Leave

Spec == Init /\ [][Next]_lockVars
=============================================================================
