------------------------- MODULE GameStatePersister -------------------------
(***************************************************************************)
(* The write-behind of one room's game: GameStatePersister of              *)
(* plugins/core/game/state-store.ts, with the operations that hold the     *)
(* room lock and drive it (game:start, flushes that are awaited, the       *)
(* teardown of dissolve and game:back_to_room), the graceful shutdown and  *)
(* a crash.  A snapshot is the number of the state it captures: states are *)
(* numbered in the order in which they come about.  Retry delays are left  *)
(* out, a timer may fire at any time.                                      *)
(***************************************************************************)
EXTENDS Naturals, Sequences

CONSTANTS
    MaxState,   \* bound: how many states the room's games go through
    MaxStops    \* bound: how often the process ends

ASSUME BoundsAssumption == MaxState \in Nat /\ MaxStops \in Nat

VARIABLES
    clock,      \* the number of the newest state
    game,       \* sessions.get(room): the live session's state
    dirty,      \* dirty.get(room)
    timer,      \* flushTimers.has(room)
    writes,     \* the writes chained behind writes.get(room), oldest first
    sent,       \* the kv.set of the oldest write is on its way
    dead,       \* dead.has(room): the tombstone
    store,      \* the snapshot in the key-value store
    playing,    \* the room's durable status is 'playing'
    op,         \* what the holder of the room lock waits for
    opState,    \* the state that game:start or a flush wants stored
    phase,      \* the process: up, or a stage of shutdownServer
    stops,      \* how often the process ended
    acked,      \* history: the newest state whose flush was reported stored
    gone,       \* history: the deletion was confirmed, no game dealt since
    doubt       \* history: a deletion's outcome was left unknown

vars == <<clock, game, dirty, timer, writes, sent, dead, store, playing, op,
          opState, phase, stops, acked, gone, doubt>>

None == 0
State == 1..MaxState
Waiter == {"op", "all"}
Op == {"idle", "starting", "committing", "startFailed", "undoing", "flushing",
       "cleaning", "deleting"}
Phase == {"up", "firstFlush", "draining", "lastFlush", "failed"}

TypeOK ==
    /\ clock \in 0..MaxState
    /\ {game, dirty, store, opState, acked} \subseteq 0..MaxState
    /\ writes \in Seq([state : State, waiters : SUBSET Waiter])
    /\ {timer, sent, dead, playing, gone, doubt} \subseteq BOOLEAN
    /\ op \in Op
    /\ phase \in Phase
    /\ stops \in 0..MaxStops
    /\ sent => writes # <<>>
    /\ timer => dirty # None /\ ~dead

Init ==
    /\ clock = 0 /\ game = None /\ dirty = None /\ timer = FALSE
    /\ writes = <<>> /\ sent = FALSE /\ dead = FALSE /\ store = None
    /\ playing = FALSE /\ op = "idle" /\ opState = None /\ phase = "up"
    /\ stops = 0 /\ acked = None /\ gone = FALSE /\ doubt = FALSE

process == <<game, op, opState, phase, stops>>
history == <<acked, gone, doubt>>

flushingAll == phase \in {"firstFlush", "lastFlush"}

-----------------------------------------------------------------------------
(* The methods of the class.                                                *)

(* scheduleFlush, once dirty is d.                                          *)
ScheduleFlush(d) ==
    timer' = (timer \/ (~flushingAll /\ ~dead /\ d # None))

markDirty(s) ==
    IF dead
    THEN UNCHANGED <<dirty, timer>>
    ELSE dirty' = s /\ ScheduleFlush(s)

(* enqueueWrite: behind the writes there are.                               *)
Enqueued(s, waiters) == Append(writes, [state |-> s, waiters |-> waiters])

(* flushNow by w: what is dirty is chained and w waits for it; with nothing *)
(* dirty w waits for the last write there is.                               *)
flushNow(w) ==
    /\ timer' = FALSE
    /\ dirty' = None
    /\ writes' = IF dirty # None
                 THEN Enqueued(dirty, {w})
                 ELSE [i \in DOMAIN writes |->
                        IF i = Len(writes)
                        THEN [writes[i] EXCEPT !.waiters = @ \cup {w}]
                        ELSE writes[i]]

(* markDirty(s) and flushNow by the lock holder, with no await between.     *)
MarkAndFlush(s) ==
    /\ timer' = FALSE
    /\ dirty' = None
    /\ writes' = Enqueued(s, {"op"})

(* A write that failed: its snapshot is tried again, unless a newer one is  *)
(* dirty or already chained behind it.                                      *)
\* Faulty: only what is dirty is known to be newer.
FaultyRestoreOverChained(s, behind) ==
    IF dead
    THEN UNCHANGED <<dirty, timer>>
    ELSE LET d == IF dirty = None THEN s ELSE dirty
         IN  dirty' = d /\ ScheduleFlush(d)

\* Faulty: what failed waits for the next step to be tried again.
FaultyRestoreUnscheduled(s, behind) ==
    IF dead
    THEN UNCHANGED <<dirty, timer>>
    ELSE /\ dirty' = IF dirty = None /\ behind = <<>> THEN s ELSE dirty
         /\ UNCHANGED timer

restoreFailedSnapshot(s, behind) ==
    IF dead
    THEN UNCHANGED <<dirty, timer>>
    ELSE LET d == IF dirty = None /\ behind = <<>> THEN s ELSE dirty
         IN  dirty' = d /\ ScheduleFlush(d)

(* cleanup, up to its barrier: the writes that are still chained.           *)
cleanup ==
    /\ timer' = FALSE
    /\ dirty' = None
    /\ dead' = TRUE

\* Faulty: the key is deleted without waiting for the write in flight.
FaultyBarrier == TRUE

Barrier == writes = <<>>

(* Those who waited for a write that is over are told how it went.          *)
Tell(waiters, ok) ==
    /\ IF "op" \in waiters
       THEN op' = CASE op = "starting" -> (IF ok THEN "committing" ELSE "startFailed")
                    [] op = "flushing" -> "idle"
                    [] OTHER -> op
       ELSE UNCHANGED op
    /\ phase' = IF "all" \in waiters /\ ~ok THEN "failed" ELSE phase
    /\ acked' = IF "op" \in waiters /\ ok /\ ~dead THEN opState ELSE acked

-----------------------------------------------------------------------------
(* The writes.                                                              *)

(* The debounce or retry timer fires.                                       *)
flush ==
    /\ timer
    /\ timer' = FALSE
    /\ dirty' = None
    /\ writes' = IF dirty # None THEN Enqueued(dirty, {}) ELSE writes
    /\ UNCHANGED <<clock, sent, dead, store, playing, process, history>>

(* The turn of a chained write comes: kv.set is called, unless the room is  *)
(* dead by now.                                                             *)
SendWrite ==
    /\ writes # <<>> /\ ~sent
    /\ IF dead
       THEN writes' = Tail(writes) /\ sent' = FALSE /\ Tell(writes[1].waiters, TRUE)
       ELSE sent' = TRUE /\ UNCHANGED <<writes, op, phase, acked>>
    /\ UNCHANGED <<clock, game, dirty, timer, dead, store, playing, opState,
                   stops, gone, doubt>>

WriteSucceeds ==
    /\ sent
    /\ store' = writes[1].state
    /\ writes' = Tail(writes)
    /\ sent' = FALSE
    /\ Tell(writes[1].waiters, TRUE)
    /\ UNCHANGED <<clock, game, dirty, timer, dead, playing, opState, stops,
                   gone, doubt>>

(* The write fails, or only its reply does.                                 *)
WriteFails ==
    /\ sent
    /\ store' \in {store, writes[1].state}
    /\ writes' = Tail(writes)
    /\ sent' = FALSE
    /\ restoreFailedSnapshot(writes[1].state, Tail(writes))
    /\ Tell(writes[1].waiters, FALSE)
    /\ UNCHANGED <<clock, game, dead, playing, opState, stops, gone, doubt>>

(* 60 s later.  Assumption: a teardown takes less.                          *)
TombstoneExpires ==
    /\ dead
    /\ op \notin {"undoing", "cleaning", "deleting"}
    /\ dead' = FALSE
    /\ UNCHANGED <<clock, dirty, timer, writes, sent, store, playing, process,
                   history>>

-----------------------------------------------------------------------------
(* The game.                                                                *)

(* A step of the game: handlers and timers mark its result dirty at once.   *)
Play ==
    /\ game # None /\ clock < MaxState
    /\ phase \in {"up", "firstFlush", "draining"}
    /\ clock' = clock + 1
    /\ game' = clock'
    /\ markDirty(clock')
    /\ UNCHANGED <<writes, sent, dead, store, playing, op, opState, phase,
                   stops, history>>

(* The lock is free, and the closing gate lets an operation in.             *)
Admitted == op = "idle" /\ phase = "up"

(* A step whose handler waits for its snapshot to be stored.                *)
PlayAndFlush ==
    /\ Admitted /\ ~dead
    /\ game # None /\ clock < MaxState
    /\ clock' = clock + 1
    /\ game' = clock'
    /\ MarkAndFlush(clock')
    /\ op' = "flushing" /\ opState' = clock'
    /\ UNCHANGED <<sent, dead, store, playing, phase, stops, history>>

(* A handler of a room that is already dead waits in vain: nothing is       *)
(* marked, the flush returns at once.                                       *)
PlayAndFlushDead ==
    /\ Admitted /\ dead
    /\ game # None /\ clock < MaxState
    /\ clock' = clock + 1
    /\ game' = clock'
    /\ UNCHANGED <<dirty, timer, writes, sent, dead, store, playing, op, opState,
                   phase, stops, history>>

\* Faulty: the room is 'playing' before the snapshot is stored.
FaultyStartGame ==
    /\ Admitted /\ game = None /\ ~playing /\ clock < MaxState
    /\ clock' = clock + 1
    /\ dead' = FALSE
    /\ markDirty(clock')
    /\ op' = "committing" /\ opState' = clock'
    /\ gone' = FALSE /\ doubt' = FALSE
    /\ UNCHANGED <<game, writes, sent, store, playing, phase, stops, acked>>

(* game:start deals a game and stores it before the room is 'playing'.      *)
StartGame ==
    /\ Admitted /\ game = None /\ ~playing /\ clock < MaxState
    /\ clock' = clock + 1
    /\ dead' = FALSE
    /\ MarkAndFlush(clock')
    /\ op' = "starting" /\ opState' = clock'
    /\ gone' = FALSE /\ doubt' = FALSE
    /\ UNCHANGED <<game, sent, store, playing, phase, stops, acked>>

CommitStart ==
    /\ op = "committing"
    /\ playing' = TRUE
    /\ game' = opState
    /\ op' = "idle"
    /\ UNCHANGED <<clock, dirty, timer, writes, sent, dead, store, opState,
                   phase, stops, history>>

CommitFails ==
    /\ op = "committing"
    /\ op' = "startFailed"
    /\ UNCHANGED <<clock, game, dirty, timer, writes, sent, dead, store, playing,
                   opState, phase, stops, history>>

(* The catch of game:start: stop the writes, delete what was stored if      *)
(* possible, and lift the tombstone.                                        *)
UndoStart ==
    /\ op = "startFailed"
    /\ cleanup
    /\ op' = "undoing"
    /\ UNCHANGED <<clock, game, writes, sent, store, playing, opState, phase,
                   stops, history>>

StartUndone ==
    /\ op = "undoing" /\ Barrier
    /\ store' \in {store, None}
    /\ dead' = FALSE
    /\ op' = "idle"
    /\ acked' = None
    /\ UNCHANGED <<clock, game, dirty, timer, writes, sent, playing, opState,
                   phase, stops, gone, doubt>>

(* dissolveRoomUnlocked and game:back_to_room.                              *)
Teardown ==
    /\ Admitted /\ game # None
    /\ cleanup
    /\ op' = "cleaning"
    /\ UNCHANGED <<clock, game, writes, sent, store, playing, opState, phase,
                   stops, history>>

(* Past the barrier; game:back_to_room marks the room 'waiting' first.      *)
Delete ==
    /\ op = "cleaning" /\ Barrier
    /\ playing' \in {playing, FALSE}
    /\ op' = "deleting"
    /\ UNCHANGED <<clock, game, dirty, timer, writes, sent, dead, store, opState,
                   phase, stops, history>>

DeleteSucceeds ==
    /\ op = "deleting"
    /\ store' = None /\ playing' = FALSE /\ game' = None
    /\ op' = "idle"
    /\ gone' = TRUE /\ doubt' = FALSE /\ acked' = None
    /\ UNCHANGED <<clock, dirty, timer, writes, sent, dead, opState, phase, stops>>

(* The snapshot is seen to survive, or will be written anew: the game goes  *)
(* on.                                                                      *)
DeleteFails ==
    /\ op = "deleting"
    /\ store' \in {store, None} /\ playing' = TRUE
    /\ dead' = FALSE
    /\ MarkAndFlush(game)
    /\ op' = "flushing" /\ opState' = game
    /\ acked' = None /\ doubt' = FALSE
    /\ UNCHANGED <<clock, game, sent, phase, stops, gone>>

(* Neither the deletion nor the look whether it happened was answered: the  *)
(* session stays, under its tombstone.                                      *)
DeleteUnknown ==
    /\ op = "deleting" /\ playing
    /\ \/ store' = None /\ playing' = FALSE
       \/ UNCHANGED <<store, playing>>
    /\ op' = "idle"
    /\ acked' = None /\ doubt' = TRUE
    /\ UNCHANGED <<clock, game, dirty, timer, writes, sent, dead, opState, phase,
                   stops, gone>>

(* room:rejoin or the startup reconciliation finds a game to resume.        *)
Restore ==
    /\ Admitted /\ game = None /\ playing /\ store # None
    /\ game' = store
    /\ doubt' = FALSE
    /\ UNCHANGED <<clock, dirty, timer, writes, sent, dead, store, playing, op,
                   opState, phase, stops, acked, gone>>

-----------------------------------------------------------------------------
(* The process ends and the next one begins with empty memory.              *)
Reset ==
    /\ game' = None /\ dirty' = None /\ timer' = FALSE /\ writes' = <<>>
    /\ sent' = FALSE /\ dead' = FALSE /\ op' = "idle" /\ opState' = None
    /\ phase' = "up" /\ stops' = stops + 1
    /\ UNCHANGED <<clock, playing, acked, gone, doubt>>

Crash ==
    /\ stops < MaxStops
    /\ store' \in IF sent THEN {store, writes[1].state} ELSE {store}
    /\ Reset

(* shutdownServer: the timers stop, everything is flushed, admitted work is *)
(* drained, everything is flushed again.                                    *)
BeginShutdown ==
    /\ phase = "up" /\ stops < MaxStops
    /\ phase' = "firstFlush"
    /\ timer' = FALSE
    /\ UNCHANGED <<clock, game, dirty, writes, sent, dead, store, playing, op,
                   opState, stops, history>>

\* Faulty: flushAll returns once nothing is dirty.
FaultyFlushed == dirty = None

Flushed == dirty = None /\ writes = <<>>

FlushAllPass ==
    /\ flushingAll /\ ~Flushed
    /\ \A i \in DOMAIN writes : "all" \notin writes[i].waiters
    /\ flushNow("all")
    /\ UNCHANGED <<clock, sent, dead, store, playing, process, history>>

Drain ==
    /\ phase = "firstFlush" /\ Flushed
    /\ phase' = "draining"
    /\ UNCHANGED <<clock, game, dirty, timer, writes, sent, dead, store, playing,
                   op, opState, stops, history>>

Drained ==
    /\ phase = "draining" /\ op = "idle"
    /\ phase' = "lastFlush"
    /\ timer' = FALSE
    /\ UNCHANGED <<clock, game, dirty, writes, sent, dead, store, playing, op,
                   opState, stops, history>>

Exit ==
    /\ phase = "lastFlush" /\ Flushed
    /\ UNCHANGED store
    /\ Reset

ExitFailed ==
    /\ phase = "failed"
    /\ store' \in IF sent THEN {store, writes[1].state} ELSE {store}
    /\ Reset

-----------------------------------------------------------------------------
Writes == flush \/ SendWrite \/ WriteSucceeds \/ WriteFails \/ TombstoneExpires

Lifecycle ==
    \/ StartGame \/ CommitStart \/ CommitFails \/ UndoStart \/ StartUndone
    \/ Teardown \/ Delete \/ DeleteSucceeds \/ DeleteFails \/ DeleteUnknown
    \/ Restore

Shutdown ==
    \/ Crash \/ BeginShutdown \/ FlushAllPass \/ Drain \/ Drained \/ Exit
    \/ ExitFailed

Next == Play \/ PlayAndFlush \/ PlayAndFlushDead \/ Writes \/ Lifecycle \/ Shutdown

Spec == Init /\ [][Next]_vars

(* Timers fire, a write's turn comes and it is answered, the lock holder    *)
(* goes on; a store that is tried again and again answers well in the end.  *)
Fairness ==
    /\ WF_vars(flush) /\ WF_vars(SendWrite) /\ WF_vars(WriteSucceeds \/ WriteFails)
    /\ SF_vars(WriteSucceeds)
    /\ WF_vars(CommitStart \/ CommitFails) /\ WF_vars(UndoStart)
    /\ WF_vars(StartUndone) /\ WF_vars(Delete)
    /\ WF_vars(DeleteSucceeds \/ DeleteFails \/ DeleteUnknown)
    /\ WF_vars(TombstoneExpires)
    /\ WF_vars(FlushAllPass) /\ WF_vars(Drain) /\ WF_vars(Drained)
    /\ WF_vars(Exit) /\ WF_vars(ExitFailed)

FairSpec == Spec /\ Fairness
-----------------------------------------------------------------------------
(* What a handler reported as stored is in the store, or something newer,   *)
(* until the game is torn down: no retry of an older write and no crash     *)
(* takes it back (flushNow, restoreFailedSnapshot).                         *)
AckedIsStored == acked # None => store >= acked

(* The snapshot of a game whose deletion was confirmed never comes back, by *)
(* a write still in flight or by a timer (cleanup, the tombstones).         *)
DeletedStaysDeleted == gone => store = None

(* shutdownServer ends well only with the newest state of a live game in    *)
(* the store.                                                               *)
ExitSavesAll == [][Exit /\ game # None /\ ~doubt => store = game]_vars

(* A state of a live game is stored, or a newer one is, if the store        *)
(* recovers from its failures, unless the game or the process ends first or *)
(* a deletion is left in doubt.                                             *)
EventuallySaved ==
    \A s \in State : game = s ~> (store >= s \/ game = None \/ doubt)

(* The persister is a correct keeper of a saved game.                       *)
Saved == INSTANCE SavedGame
SavesTheGame == Saved!Spec
=============================================================================
