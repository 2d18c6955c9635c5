------------------------------ MODULE SavedGame ------------------------------
(***************************************************************************)
(* What the persister promises about one room: the store only ever holds a *)
(* state the game was in, it moves forward, it may lag behind the memory,  *)
(* a restart resumes exactly what it holds, and a deleted game stays       *)
(* deleted.  States of the room's games are numbered in the order in which *)
(* they come about.                                                        *)
(***************************************************************************)
EXTENDS Naturals

VARIABLES
    clock,  \* the number of the newest state there has been
    game,   \* the state of the live session, None without one
    store,  \* the state in the key-value store, None without one
    gone    \* the deletion of the snapshot was confirmed, no game since

savedVars == <<clock, game, store, gone>>

None == 0

Init ==
    /\ clock = 0
    /\ game = None
    /\ store = None
    /\ gone = FALSE

(* A state there has been that is no older than the one in the store.       *)
Newer == {r \in 1..clock : store <= r}

(* A game begins to be dealt, or a step is played: the state is new.        *)
Change ==
    /\ clock' = clock + 1
    /\ gone' = FALSE
    /\ \/ game # None /\ game' = clock'
       \/ game = None /\ game' = None
    /\ UNCHANGED store

Save ==
    /\ ~gone
    /\ store' \in Newer
    /\ UNCHANGED <<clock, game, gone>>

(* The game in the store goes live: just dealt, or found at a restart.      *)
Open ==
    /\ game = None
    /\ store # None
    /\ game' = store
    /\ UNCHANGED <<clock, store, gone>>

(* A deletion that is confirmed ends the session; one that is not may have  *)
(* taken the snapshot and leaves the session alone.                         *)
Delete ==
    /\ store' = None
    /\ \/ game' = None /\ gone' = TRUE
       \/ UNCHANGED <<game, gone>>
    /\ UNCHANGED clock

(* The process ends; a write in flight arrives or does not.                 *)
Stop ==
    /\ game' = None
    /\ store' = store \/ (~gone /\ store' \in Newer)
    /\ UNCHANGED <<clock, gone>>

Next == Change \/ Save \/ Open \/ Delete \/ Stop

Spec == Init /\ [][Next]_savedVars
=============================================================================
