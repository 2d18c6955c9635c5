------------------------------ MODULE Shutdown ------------------------------
(***************************************************************************)
(* The graceful end of the process: shutdownServer, the preClose hook of   *)
(* Fastify, beginShutdown and drain, with the operations of LifecycleLocks *)
(* still running.  Socket events, and the callbacks of the timers that     *)
(* govern rooms and members, are tracked until they are done; those that   *)
(* play (turn, bot, jump-in, owner transfer, retries) are not.  An         *)
(* operation that ends may arm timers, the tracked ones only before the    *)
(* closing.  What has no await in between happens at once: no event        *)
(* arrives and no timer fires while the shutdown can go on.                *)
(***************************************************************************)
EXTENDS LifecycleLocks

CONSTANTS
    Event,       \* operations that a socket event starts, the others are
                 \* the callbacks of timers
    Disconnect,  \* the events of sockets that close
    Tracked      \* the operations in activeOperations

ASSUME EventAssumption ==
    Disconnect \subseteq Event /\ Event \subseteq Tracked /\ Tracked \subseteq Op
ASSUME UntrackedAssumption == \A o \in Op \ Tracked : UserOf[o] = None

VARIABLES
    admitted,  \* events that came in but have not asked for a lock yet
    armed,     \* timers that wait to fire
    step,      \* the instruction of Program that is next, 0 before the signal
    drained,   \* the lock maps that the drain in progress has seen empty
    awaiting   \* the tails a drain waits for, per lock map

vars == <<lockVars, admitted, armed, step, drained, awaiting>>
program == <<step, drained, awaiting>>

Timer == Op \ Event
Map == {"users", "rooms"}
KeysOf(m) == IF m = "users" THEN User ELSE Room

\* Faulty: the timers are cleared once, before the admitted work is done.
Faultydrain == <<"operations", "locks", "operations">>

drain == <<"operations", "locks", "operations", "clear", "locks", "operations">>

(* Fastify's close runs the hook: clear, drain, close the sockets, drain.   *)
Program ==
    <<"clear", "flush", "clear">> \o drain \o <<"close">> \o drain \o drain
        \o <<"flush">>

Instruction == IF step \in DOMAIN Program THEN Program[step] ELSE "none"

Running(o) == stage[o] \notin {"new", "done"}

Closing == step > 1
MayArm == {o \in Timer : stage[o] = "new" /\ (Closing => o \notin Tracked)}

StartsIdle ==
    /\ Init
    /\ admitted = {}
    /\ armed \in SUBSET Timer
    /\ step = 0
    /\ drained = {}
    /\ awaiting = [m \in Map |-> {}]

-----------------------------------------------------------------------------
(* drainRoomLifecycleLocks and drainUserMembershipLocks, side by side: each *)
(* takes the tails there are and looks again when all of them are settled.  *)
CanLook(m) == Instruction = "locks" /\ m \notin drained /\ awaiting[m] \subseteq released

Look(m) ==
    LET tickets == {<<tails[k], k>> : k \in {k \in KeysOf(m) : tails[k] # None}}
    IN  /\ CanLook(m)
        /\ awaiting' = [awaiting EXCEPT ![m] = tickets]
        /\ drained' = IF tickets = {} THEN drained \cup {m} ELSE drained
        /\ UNCHANGED <<lockVars, admitted, armed, step>>

(* drainActiveOperations waits for what is tracked.                         *)
CanGoOn ==
    CASE Instruction = "clear" -> TRUE
      [] Instruction = "locks" -> drained = Map
      [] Instruction = "operations" ->
            admitted = {} /\ \A o \in Tracked : ~Running(o)
      [] OTHER -> FALSE

(* The next instruction begins.                                             *)
Advance ==
    /\ step' = step + 1
    /\ drained' = {}
    /\ awaiting' = [m \in Map |-> {}]

(* beginShutdown clears every timer.                                        *)
GoOn ==
    /\ CanGoOn
    /\ armed' = IF Instruction = "clear" THEN {} ELSE armed
    /\ Advance
    /\ UNCHANGED <<lockVars, admitted>>

(* flushAll is over.                                                        *)
FlushReturns ==
    /\ Instruction = "flush"
    /\ Advance
    /\ UNCHANGED <<lockVars, admitted, armed>>

(* io.close: every open socket is told.                                     *)
CloseSockets ==
    /\ Instruction = "close"
    /\ admitted' = admitted \cup {o \in Disconnect : stage[o] = "new"}
    /\ Advance
    /\ UNCHANGED <<lockVars, armed>>

Signal ==
    /\ step = 0
    /\ Advance
    /\ UNCHANGED <<lockVars, admitted, armed>>

-----------------------------------------------------------------------------
Blocked == ~CanGoOn /\ \A m \in Map : ~CanLook(m)

SocketsOpen == \E i \in DOMAIN Program : i >= step /\ Program[i] = "close"

(* The closing gate turns every event away but a disconnect.                *)
Arrive(o) ==
    /\ Blocked
    /\ o \in Event \ admitted /\ stage[o] = "new"
    /\ step = 0 \/ (o \in Disconnect /\ SocketsOpen)
    /\ admitted' = admitted \cup {o}
    /\ UNCHANGED <<lockVars, armed, program>>

BeginEvent(o) ==
    /\ o \in admitted
    /\ admitted' = admitted \ {o}
    /\ Begin(o)
    /\ UNCHANGED <<armed, program>>

Fire(o) ==
    /\ Blocked
    /\ o \in armed
    /\ armed' = armed \ {o}
    /\ Begin(o)
    /\ UNCHANGED <<admitted, program>>

(* An operation goes on; when it is done it may have armed timers.          *)
Work(o) ==
    /\ Step(o)
    /\ armed' \in IF stage'[o] = "done"
                  THEN {armed \cup t : t \in SUBSET MayArm}
                  ELSE {armed}
    /\ UNCHANGED <<admitted, program>>

Server == GoOn \/ FlushReturns \/ CloseSockets \/ Signal \/ \E m \in Map : Look(m)

Runs == Server \/ \E o \in Op : Arrive(o) \/ BeginEvent(o) \/ Fire(o) \/ Work(o)

Lifetime ==
    /\ StartsIdle /\ [][Runs]_vars
    /\ WF_vars(GoOn) /\ WF_vars(FlushReturns) /\ WF_vars(CloseSockets)
    /\ \A m \in Map : WF_vars(Look(m))
    /\ \A o \in Op : WF_vars(BeginEvent(o)) /\ WF_vars(Work(o))

-----------------------------------------------------------------------------
(* When the last flush begins nothing is left that could change a game:     *)
(* "Clear it again only after all admitted work is done" (drain).           *)
LastFlush == step >= Len(Program)
QuietAtLastFlush ==
    LastFlush => /\ admitted = {} /\ armed = {}
                 /\ \A o \in Op : ~Running(o)

(* Nobody waits for ever, not for a lock another waiter holds and not in a  *)
(* drain: every operation finishes, and so does the shutdown, whatever runs *)
(* as it begins.                                                            *)
ShutdownEnds == AllFinish /\ (step > 0 ~> step > Len(Program))
=============================================================================
