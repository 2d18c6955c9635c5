----------------------------- MODULE MCShutdown -----------------------------
(***************************************************************************)
(* ann leaves a room by an event, and an eviction timer takes her out of   *)
(* another; a socket of the first room closes and two bots' timers fire.   *)
(***************************************************************************)
EXTENDS Shutdown

MCOp == {"leave", "evict", "drop", "bot", "bot2"}
MCUser == {"ann"}
MCRoom == {"r", "s"}
MCUserOf == [o \in MCOp |-> IF o \in {"leave", "evict"} THEN "ann" ELSE "none"]
MCRoomOf == [o \in MCOp |-> IF o = "evict" THEN "s" ELSE "r"]
MCEvent == {"leave", "drop"}
MCDisconnect == {"drop"}
MCTracked == {"leave", "evict", "drop"}
=============================================================================
