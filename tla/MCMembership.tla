----------------------------- MODULE MCMembership -----------------------------
(***************************************************************************)
(* Two or three users of one room.                                         *)
(***************************************************************************)
EXTENDS RoomMembership

MCPair == {"ann", "ben"}
MCTrio == {"ann", "ben", "eve"}
=============================================================================
