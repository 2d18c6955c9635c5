--------------------------- MODULE LifecycleLocks ---------------------------
(***************************************************************************)
(* withUserMembershipLock and withRoomLifecycleLock: FIFO locks made of    *)
(* promise tails, nested user before room.  An operation is one call of a  *)
(* handler or of a timer's callback.  It asks for the locks of its path    *)
(* one inside the other, does its work and leaves them again, whether the  *)
(* work succeeds or throws.                                                *)
(***************************************************************************)
EXTENDS Naturals, Sequences

CONSTANTS
    Op, User, Room, None,
    UserOf,   \* the user whose membership the operation changes, or None
    RoomOf    \* the room it happens in, None for room:create

Key == User \cup Room

ASSUME OpAssumption ==
    /\ None \notin Op \cup Key
    /\ User \cap Room = {}
    /\ UserOf \in [Op -> User \cup {None}]
    /\ RoomOf \in [Op -> Room \cup {None}]
    /\ \A o \in Op : UserOf[o] # None \/ RoomOf[o] # None

VARIABLES
    stage,     \* where the operation is: new, waiting, inside, leaving, done
    held,      \* how many locks of its path it holds
    tails,     \* the last to have asked for the lock, None when it is idle
    previous,  \* whom a waiting operation waits for
    released,  \* the gates that are open, <<operation, lock>>
    drawn,     \* history: how many have asked for the lock
    served,    \* history: how many have left it
    ticket     \* history: the operation's number at the lock

lockVars == <<stage, held, tails, previous, released, drawn, served, ticket>>

\* Faulty: the room's lock is taken again by an operation that holds it.
FaultyPath(o) ==
    IF UserOf[o] = None THEN <<RoomOf[o]>>
    ELSE IF RoomOf[o] = None THEN <<UserOf[o]>>
    ELSE <<UserOf[o], RoomOf[o], RoomOf[o]>>

(* The locks of an operation, outermost first.                              *)
Path(o) ==
    IF UserOf[o] = None THEN <<RoomOf[o]>>
    ELSE IF RoomOf[o] = None THEN <<UserOf[o]>>
    ELSE <<UserOf[o], RoomOf[o]>>

Holds(o, k) == \E i \in 1..held[o] : Path(o)[i] = k

(* A lock nobody holds or waits for is not in the map: a drain ends when    *)
(* the map is empty.                                                        *)
TypeOK ==
    /\ stage \in [Op -> {"new", "waiting", "inside", "leaving", "done"}]
    /\ held \in [Op -> 0..2]
    /\ tails \in [Key -> Op \cup {None}]
    /\ previous \in [Op -> Op \cup {None}]
    /\ released \in SUBSET (Op \X Key)
    /\ drawn \in [Key -> Nat]
    /\ served \in [Key -> Nat]
    /\ ticket \in [Op -> [Key -> Nat]]
    /\ \A k \in Key : tails[k] = None <=> drawn[k] = served[k]

Init ==
    /\ stage = [o \in Op |-> "new"]
    /\ held = [o \in Op |-> 0]
    /\ tails = [k \in Key |-> None]
    /\ previous = [o \in Op |-> None]
    /\ released = {}
    /\ drawn = [k \in Key |-> 0]
    /\ served = [k \in Key |-> 0]
    /\ ticket = [o \in Op |-> [k \in Key |-> 0]]

(* The call up to its first await: the operation's gate is the new tail.    *)
Ask(o) ==
    LET k == Path(o)[held[o] + 1]
    IN  /\ stage' = [stage EXCEPT ![o] = "waiting"]
        /\ previous' = [previous EXCEPT ![o] = tails[k]]
        /\ tails' = [tails EXCEPT ![k] = o]
        /\ drawn' = [drawn EXCEPT ![k] = @ + 1]
        /\ ticket' = [ticket EXCEPT ![o][k] = drawn[k] + 1]
        /\ UNCHANGED <<held, released, served>>

Begin(o) == stage[o] = "new" /\ Ask(o)

Nest(o) == stage[o] = "inside" /\ held[o] < Len(Path(o)) /\ Ask(o)

\* Faulty: a waiting operation gets in once anybody has left the lock.
FaultyEnter(o) ==
    LET k == Path(o)[held[o] + 1]
    IN  /\ stage[o] = "waiting"
        /\ previous[o] = None \/ served[k] > 0
        /\ stage' = [stage EXCEPT ![o] = "inside"]
        /\ held' = [held EXCEPT ![o] = @ + 1]
        /\ UNCHANGED <<tails, previous, released, drawn, served, ticket>>

(* await previous.  A tail is settled once its owner's gate is open: the    *)
(* owner only got to open it after the tail before it had settled.          *)
Enter(o) ==
    LET k == Path(o)[held[o] + 1]
    IN  /\ stage[o] = "waiting"
        /\ previous[o] = None \/ <<previous[o], k>> \in released
        /\ stage' = [stage EXCEPT ![o] = "inside"]
        /\ held' = [held EXCEPT ![o] = @ + 1]
        /\ UNCHANGED <<tails, previous, released, drawn, served, ticket>>

\* Faulty: whoever leaves takes the tail away, others waiting or not.
FaultyLeave(o) ==
    LET k == Path(o)[held[o]]
    IN  /\ stage[o] = "leaving" \/ (stage[o] = "inside" /\ held[o] = Len(Path(o)))
        /\ released' = released \cup {<<o, k>>}
        /\ tails' = [tails EXCEPT ![k] = None]
        /\ held' = [held EXCEPT ![o] = @ - 1]
        /\ stage' = [stage EXCEPT ![o] = IF held[o] = 1 THEN "done" ELSE "leaving"]
        /\ served' = [served EXCEPT ![k] = @ + 1]
        /\ UNCHANGED <<previous, drawn, ticket>>

(* The finally block: the gate opens, and the last one to leave takes its   *)
(* tail away.  The work is done in the innermost lock.                      *)
Leave(o) ==
    LET k == Path(o)[held[o]]
    IN  /\ stage[o] = "leaving" \/ (stage[o] = "inside" /\ held[o] = Len(Path(o)))
        /\ released' = released \cup {<<o, k>>}
        /\ tails' = IF tails[k] = o THEN [tails EXCEPT ![k] = None] ELSE tails
        /\ held' = [held EXCEPT ![o] = @ - 1]
        /\ stage' = [stage EXCEPT ![o] = IF held[o] = 1 THEN "done" ELSE "leaving"]
        /\ served' = [served EXCEPT ![k] = @ + 1]
        /\ UNCHANGED <<previous, drawn, ticket>>

Step(o) == Nest(o) \/ Enter(o) \/ Leave(o)

Next == \E o \in Op : Begin(o) \/ Step(o)

(* The work ends: KV calls are answered or time out.                        *)
Spec == Init /\ [][Next]_lockVars /\ \A o \in Op : WF_lockVars(Step(o))

-----------------------------------------------------------------------------
(* Nobody is inside a lock with somebody else, and nobody gets in before    *)
(* one who asked earlier has left: the room's transitions are serial, in    *)
(* the order in which they were called.                                     *)
InTurn ==
    \A k \in Key : \A p, q \in Op :
        (p # q /\ Holds(q, k))
            => ticket[p][k] = 0 \/ ticket[p][k] > ticket[q][k] \/ <<p, k>> \in released

(* Nobody waits for ever: the order of the nesting excludes a cycle.        *)
AllFinish == \A o \in Op : stage[o] # "new" ~> stage[o] = "done"

(* Each lock behaves like a queue with numbers.                             *)
Lock(k) == INSTANCE TicketLock WITH
             drawn <- drawn[k], served <- served[k],
             inside <- \E o \in Op : Holds(o, k)
IsTicketLock ==
    /\ \A k \in Key : Lock(k)!Init
    /\ [][\A k \in Key : [Lock(k)!Next]_(Lock(k)!lockVars)]_lockVars
=============================================================================
