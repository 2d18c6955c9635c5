---------------------------- MODULE MCTurnDriver ----------------------------
(***************************************************************************)
(* One table: ann, who may leave or lose her connection, and a bot; another *)
(* one of two humans who stay.                                             *)
(***************************************************************************)
EXTENDS TurnDriver

MCHuman == {"ann"}
MCBot == {"bot"}
MCPair == {"ann", "ben"}
=============================================================================
