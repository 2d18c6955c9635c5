--------------------------- MODULE PersisterProofs ---------------------------
(***************************************************************************)
(* Proofs about GameStatePersister, for any number of states and stops:    *)
(* what was acknowledged stays stored, what was deleted stays deleted, and *)
(* the persister implements SavedGame.                                     *)
(*                                                                         *)
(* The snapshots on their way to the store, from the store over the        *)
(* chained writes and the dirty one to the live state, never go backwards: *)
(* InOrder.  Its neighbours say what the holder of the room lock may rely  *)
(* on while it waits.                                                      *)
(***************************************************************************)
EXTENDS GameStatePersister, SequenceTheorems, TLAPS

(* No snapshot is newer than this.                                          *)
Newest == IF game # None THEN game ELSE clock

Rising == \A i, j \in DOMAIN writes : i < j => writes[i].state <= writes[j].state

InOrder ==
    /\ game <= clock /\ opState <= clock
    /\ store <= Newest /\ dirty <= Newest
    /\ \A i \in DOMAIN writes : store <= writes[i].state /\ writes[i].state <= Newest
    /\ Rising
    /\ dirty # None =>
        store <= dirty /\ \A i \in DOMAIN writes : writes[i].state <= dirty

(* One write at most is waited for by the lock holder, with the state it    *)
(* wants stored; of a game that starts it is the newest.                    *)
WaitsForItsState ==
    /\ \A i \in DOMAIN writes : "op" \in writes[i].waiters =>
        /\ op \in {"starting", "flushing"}
        /\ writes[i].state = opState
        /\ \A j \in DOMAIN writes : "op" \in writes[j].waiters => i = j
    /\ op = "starting" => writes # <<>> /\ "op" \in writes[Len(writes)].waiters

(* Nothing is on its way to the store.                                      *)
Quiet == writes = <<>> /\ dirty = None

Starting == {"starting", "committing", "startFailed", "undoing"}

LockHolderKnows ==
    /\ op \in Starting => game = None /\ ~playing
    /\ op = "starting" => dirty = None /\ ~dead
    /\ op = "committing" => Quiet /\ store = opState /\ opState # None
    /\ op \in {"undoing", "cleaning", "deleting"} => dead /\ dirty = None
    /\ op \in {"cleaning", "deleting"} => game # None
    /\ op = "deleting" => writes = <<>>

(* A game found in the store is resumed as it was found.                    *)
NothingBeforeRestore == game = None /\ playing => op = "idle" /\ Quiet

DeletedIsOver ==
    gone => store = None /\ game = None /\ ~playing /\ op = "idle" /\ Quiet

IInv ==
    /\ TypeOK
    /\ InOrder
    /\ WaitsForItsState
    /\ LockHolderKnows
    /\ NothingBeforeRestore
    /\ DeletedIsOver
    /\ AckedIsStored

(* The bound on stops is met: who flushes everything is about to stop.      *)
StopsLeft ==
    stops < MaxStops \/
        (phase = "up" /\ \A i \in DOMAIN writes : "all" \notin writes[i].waiters)

-----------------------------------------------------------------------------
Write == [state : State, waiters : SUBSET Waiter]

LEMMA WritesTyped ==
    ASSUME TypeOK
    PROVE  /\ writes \in Seq(Write)
           /\ Len(writes) \in Nat /\ DOMAIN writes = 1..Len(writes)
           /\ \A i \in DOMAIN writes : writes[i] \in Write
<1>1. writes \in Seq(Write)
  BY DEF TypeOK, Write
<1> QED
  BY <1>1

LEMMA Typed ==
    ASSUME TypeOK
    PROVE  /\ clock \in Nat /\ game \in Nat /\ dirty \in Nat /\ store \in Nat
           /\ opState \in Nat /\ acked \in Nat
           /\ Len(writes) \in Nat /\ DOMAIN writes = 1..Len(writes)
           /\ \A i \in DOMAIN writes : writes[i].state \in Nat /\ writes[i].state # None
<1>1. 0..MaxState \subseteq Nat /\ State \subseteq Nat \ {None}
  BY BoundsAssumption DEF State, None
<1>2. {game, dirty, store, opState, acked} \subseteq Nat /\ clock \in Nat
  BY <1>1 DEF TypeOK
<1>3. \A i \in DOMAIN writes : writes[i].state \in State
  BY WritesTyped DEF Write
<1> QED
  BY <1>1, <1>2, <1>3, WritesTyped

LEMMA TombstoneExpiresKeeps == IInv /\ TombstoneExpires => IInv'
<1> SUFFICES ASSUME IInv, TombstoneExpires PROVE IInv'
  OBVIOUS
<1> USE DEF IInv
<1>1. TypeOK'
  <2>1. {timer', sent', dead', playing', gone', doubt'} \subseteq BOOLEAN
    BY Zenon DEF TypeOK, TombstoneExpires, process, history
  <2>2. /\ clock' \in 0..MaxState
        /\ {game', dirty', store', opState', acked'} \subseteq 0..MaxState
        /\ writes' \in Seq([state : State, waiters : SUBSET Waiter])
        /\ op' \in Op /\ phase' \in Phase /\ stops' \in 0..MaxStops
    BY BoundsAssumption DEF TypeOK, Op, Phase, None, TombstoneExpires, process, history
  <2>3. (sent' => writes' # <<>>) /\ (timer' => dirty' # None /\ ~dead')
    BY DEF TypeOK, None, TombstoneExpires, process, history
  <2> QED
    BY <2>1, <2>2, <2>3 DEF TypeOK
<1>2. InOrder'
  BY Typed DEF InOrder, Rising, Newest, None, LockHolderKnows, NothingBeforeRestore, Quiet, DeletedIsOver, TombstoneExpires, process, history
<1>3. WaitsForItsState'
  BY DEF TypeOK, WaitsForItsState, LockHolderKnows, NothingBeforeRestore, Quiet, TombstoneExpires, process, history
<1>4. (LockHolderKnows /\ NothingBeforeRestore /\ DeletedIsOver /\ AckedIsStored)'
  BY DEF TypeOK, None, InOrder, Rising, Newest, State, LockHolderKnows, NothingBeforeRestore, DeletedIsOver, AckedIsStored, Quiet, Starting, TombstoneExpires, process, history
<1> QED
  BY <1>1, <1>2, <1>3, <1>4

LEMMA PlayKeeps == IInv /\ Play => IInv'
<1> SUFFICES ASSUME IInv, Play PROVE IInv'
  OBVIOUS
<1> USE DEF IInv
<1>1. TypeOK'
  <2>1. {timer', sent', dead', playing', gone', doubt'} \subseteq BOOLEAN
    BY Zenon DEF TypeOK, Play, markDirty, ScheduleFlush, process, history
  <2>2. /\ clock' \in 0..MaxState
        /\ {game', dirty', store', opState', acked'} \subseteq 0..MaxState
        /\ writes' \in Seq([state : State, waiters : SUBSET Waiter])
        /\ op' \in Op /\ phase' \in Phase /\ stops' \in 0..MaxStops
    BY BoundsAssumption DEF TypeOK, Op, Phase, None, Play, markDirty, ScheduleFlush, process, history
  <2>3. (sent' => writes' # <<>>) /\ (timer' => dirty' # None /\ ~dead')
    BY DEF TypeOK, None, Play, markDirty, ScheduleFlush, process, history
  <2> QED
    BY <2>1, <2>2, <2>3 DEF TypeOK
<1>2. InOrder'
  BY Typed DEF InOrder, Rising, Newest, None, LockHolderKnows, NothingBeforeRestore, Quiet, DeletedIsOver, Play, markDirty, ScheduleFlush, process, history
<1>3. WaitsForItsState'
  BY DEF TypeOK, WaitsForItsState, LockHolderKnows, NothingBeforeRestore, Quiet, Play, markDirty, ScheduleFlush, process, history
<1>4. (LockHolderKnows /\ NothingBeforeRestore /\ DeletedIsOver /\ AckedIsStored)'
  BY DEF TypeOK, None, InOrder, Rising, Newest, State, LockHolderKnows, NothingBeforeRestore, DeletedIsOver, AckedIsStored, Quiet, Starting, Play, markDirty, ScheduleFlush, process, history
<1> QED
  BY <1>1, <1>2, <1>3, <1>4

LEMMA PlayAndFlushDeadKeeps == IInv /\ PlayAndFlushDead => IInv'
<1> SUFFICES ASSUME IInv, PlayAndFlushDead PROVE IInv'
  OBVIOUS
<1> USE DEF IInv
<1>1. TypeOK'
  <2>1. {timer', sent', dead', playing', gone', doubt'} \subseteq BOOLEAN
    BY Zenon DEF TypeOK, PlayAndFlushDead, Admitted, process, history
  <2>2. /\ clock' \in 0..MaxState
        /\ {game', dirty', store', opState', acked'} \subseteq 0..MaxState
        /\ writes' \in Seq([state : State, waiters : SUBSET Waiter])
        /\ op' \in Op /\ phase' \in Phase /\ stops' \in 0..MaxStops
    BY BoundsAssumption DEF TypeOK, Op, Phase, None, PlayAndFlushDead, Admitted, process, history
  <2>3. (sent' => writes' # <<>>) /\ (timer' => dirty' # None /\ ~dead')
    BY DEF TypeOK, None, PlayAndFlushDead, Admitted, process, history
  <2> QED
    BY <2>1, <2>2, <2>3 DEF TypeOK
<1>2. InOrder'
  BY Typed DEF InOrder, Rising, Newest, None, LockHolderKnows, NothingBeforeRestore, Quiet, DeletedIsOver, PlayAndFlushDead, Admitted, process, history
<1>3. WaitsForItsState'
  BY DEF TypeOK, WaitsForItsState, LockHolderKnows, NothingBeforeRestore, Quiet, PlayAndFlushDead, Admitted, process, history
<1>4. (LockHolderKnows /\ NothingBeforeRestore /\ DeletedIsOver /\ AckedIsStored)'
  BY DEF TypeOK, None, InOrder, Rising, Newest, State, LockHolderKnows, NothingBeforeRestore, DeletedIsOver, AckedIsStored, Quiet, Starting, PlayAndFlushDead, Admitted, process, history
<1> QED
  BY <1>1, <1>2, <1>3, <1>4

LEMMA CommitStartKeeps == IInv /\ CommitStart => IInv'
<1> SUFFICES ASSUME IInv, CommitStart PROVE IInv'
  OBVIOUS
<1> USE DEF IInv
<1>1. TypeOK'
  <2>1. {timer', sent', dead', playing', gone', doubt'} \subseteq BOOLEAN
    BY Zenon DEF TypeOK, CommitStart, process, history
  <2>2. /\ clock' \in 0..MaxState
        /\ {game', dirty', store', opState', acked'} \subseteq 0..MaxState
        /\ writes' \in Seq([state : State, waiters : SUBSET Waiter])
        /\ op' \in Op /\ phase' \in Phase /\ stops' \in 0..MaxStops
    BY BoundsAssumption DEF TypeOK, Op, Phase, None, CommitStart, process, history
  <2>3. (sent' => writes' # <<>>) /\ (timer' => dirty' # None /\ ~dead')
    BY DEF TypeOK, None, CommitStart, process, history
  <2> QED
    BY <2>1, <2>2, <2>3 DEF TypeOK
<1>2. InOrder'
  BY Typed DEF InOrder, Rising, Newest, None, LockHolderKnows, NothingBeforeRestore, Quiet, DeletedIsOver, CommitStart, process, history
<1>3. WaitsForItsState'
  BY DEF TypeOK, WaitsForItsState, LockHolderKnows, NothingBeforeRestore, Quiet, CommitStart, process, history
<1>4. (LockHolderKnows /\ NothingBeforeRestore /\ DeletedIsOver /\ AckedIsStored)'
  BY DEF TypeOK, None, InOrder, Rising, Newest, State, LockHolderKnows, NothingBeforeRestore, DeletedIsOver, AckedIsStored, Quiet, Starting, CommitStart, process, history
<1> QED
  BY <1>1, <1>2, <1>3, <1>4

LEMMA CommitFailsKeeps == IInv /\ CommitFails => IInv'
<1> SUFFICES ASSUME IInv, CommitFails PROVE IInv'
  OBVIOUS
<1> USE DEF IInv
<1>1. TypeOK'
  <2>1. {timer', sent', dead', playing', gone', doubt'} \subseteq BOOLEAN
    BY Zenon DEF TypeOK, CommitFails, process, history
  <2>2. /\ clock' \in 0..MaxState
        /\ {game', dirty', store', opState', acked'} \subseteq 0..MaxState
        /\ writes' \in Seq([state : State, waiters : SUBSET Waiter])
        /\ op' \in Op /\ phase' \in Phase /\ stops' \in 0..MaxStops
    BY BoundsAssumption DEF TypeOK, Op, Phase, None, CommitFails, process, history
  <2>3. (sent' => writes' # <<>>) /\ (timer' => dirty' # None /\ ~dead')
    BY DEF TypeOK, None, CommitFails, process, history
  <2> QED
    BY <2>1, <2>2, <2>3 DEF TypeOK
<1>2. InOrder'
  BY Typed DEF InOrder, Rising, Newest, None, LockHolderKnows, NothingBeforeRestore, Quiet, DeletedIsOver, CommitFails, process, history
<1>3. WaitsForItsState'
  BY DEF TypeOK, WaitsForItsState, LockHolderKnows, NothingBeforeRestore, Quiet, CommitFails, process, history
<1>4. (LockHolderKnows /\ NothingBeforeRestore /\ DeletedIsOver /\ AckedIsStored)'
  BY DEF TypeOK, None, InOrder, Rising, Newest, State, LockHolderKnows, NothingBeforeRestore, DeletedIsOver, AckedIsStored, Quiet, Starting, CommitFails, process, history
<1> QED
  BY <1>1, <1>2, <1>3, <1>4

LEMMA UndoStartKeeps == IInv /\ UndoStart => IInv'
<1> SUFFICES ASSUME IInv, UndoStart PROVE IInv'
  OBVIOUS
<1> USE DEF IInv
<1>1. TypeOK'
  <2>1. {timer', sent', dead', playing', gone', doubt'} \subseteq BOOLEAN
    BY Zenon DEF TypeOK, UndoStart, cleanup, process, history
  <2>2. /\ clock' \in 0..MaxState
        /\ {game', dirty', store', opState', acked'} \subseteq 0..MaxState
        /\ writes' \in Seq([state : State, waiters : SUBSET Waiter])
        /\ op' \in Op /\ phase' \in Phase /\ stops' \in 0..MaxStops
    BY BoundsAssumption DEF TypeOK, Op, Phase, None, UndoStart, cleanup, process, history
  <2>3. (sent' => writes' # <<>>) /\ (timer' => dirty' # None /\ ~dead')
    BY DEF TypeOK, None, UndoStart, cleanup, process, history
  <2> QED
    BY <2>1, <2>2, <2>3 DEF TypeOK
<1>2. InOrder'
  BY Typed DEF InOrder, Rising, Newest, None, LockHolderKnows, NothingBeforeRestore, Quiet, DeletedIsOver, UndoStart, cleanup, process, history
<1>3. WaitsForItsState'
  BY DEF TypeOK, WaitsForItsState, LockHolderKnows, NothingBeforeRestore, Quiet, UndoStart, cleanup, process, history
<1>4. (LockHolderKnows /\ NothingBeforeRestore /\ DeletedIsOver /\ AckedIsStored)'
  BY DEF TypeOK, None, InOrder, Rising, Newest, State, LockHolderKnows, NothingBeforeRestore, DeletedIsOver, AckedIsStored, Quiet, Starting, UndoStart, cleanup, process, history
<1> QED
  BY <1>1, <1>2, <1>3, <1>4

LEMMA StartUndoneKeeps == IInv /\ StartUndone => IInv'
<1> SUFFICES ASSUME IInv, StartUndone PROVE IInv'
  OBVIOUS
<1> USE DEF IInv
<1>1. TypeOK'
  <2>1. {timer', sent', dead', playing', gone', doubt'} \subseteq BOOLEAN
    BY Zenon DEF TypeOK, StartUndone, Barrier, process, history
  <2>2. /\ clock' \in 0..MaxState
        /\ {game', dirty', store', opState', acked'} \subseteq 0..MaxState
        /\ writes' \in Seq([state : State, waiters : SUBSET Waiter])
        /\ op' \in Op /\ phase' \in Phase /\ stops' \in 0..MaxStops
    BY BoundsAssumption DEF TypeOK, Op, Phase, None, StartUndone, Barrier, process, history
  <2>3. (sent' => writes' # <<>>) /\ (timer' => dirty' # None /\ ~dead')
    BY DEF TypeOK, None, StartUndone, Barrier, process, history
  <2> QED
    BY <2>1, <2>2, <2>3 DEF TypeOK
<1>2. InOrder'
  BY Typed DEF InOrder, Rising, Newest, None, LockHolderKnows, NothingBeforeRestore, Quiet, DeletedIsOver, StartUndone, Barrier, process, history
<1>3. WaitsForItsState'
  BY DEF TypeOK, WaitsForItsState, LockHolderKnows, NothingBeforeRestore, Quiet, StartUndone, Barrier, process, history
<1>4. (LockHolderKnows /\ NothingBeforeRestore /\ DeletedIsOver /\ AckedIsStored)'
  BY DEF TypeOK, None, InOrder, Rising, Newest, State, LockHolderKnows, NothingBeforeRestore, DeletedIsOver, AckedIsStored, Quiet, Starting, StartUndone, Barrier, process, history
<1> QED
  BY <1>1, <1>2, <1>3, <1>4

LEMMA TeardownKeeps == IInv /\ Teardown => IInv'
<1> SUFFICES ASSUME IInv, Teardown PROVE IInv'
  OBVIOUS
<1> USE DEF IInv
<1>1. TypeOK'
  <2>1. {timer', sent', dead', playing', gone', doubt'} \subseteq BOOLEAN
    BY Zenon DEF TypeOK, Teardown, cleanup, Admitted, process, history
  <2>2. /\ clock' \in 0..MaxState
        /\ {game', dirty', store', opState', acked'} \subseteq 0..MaxState
        /\ writes' \in Seq([state : State, waiters : SUBSET Waiter])
        /\ op' \in Op /\ phase' \in Phase /\ stops' \in 0..MaxStops
    BY BoundsAssumption DEF TypeOK, Op, Phase, None, Teardown, cleanup, Admitted, process, history
  <2>3. (sent' => writes' # <<>>) /\ (timer' => dirty' # None /\ ~dead')
    BY DEF TypeOK, None, Teardown, cleanup, Admitted, process, history
  <2> QED
    BY <2>1, <2>2, <2>3 DEF TypeOK
<1>2. InOrder'
  BY Typed DEF InOrder, Rising, Newest, None, LockHolderKnows, NothingBeforeRestore, Quiet, DeletedIsOver, Teardown, cleanup, Admitted, process, history
<1>3. WaitsForItsState'
  BY DEF TypeOK, WaitsForItsState, LockHolderKnows, NothingBeforeRestore, Quiet, Teardown, cleanup, Admitted, process, history
<1>4. (LockHolderKnows /\ NothingBeforeRestore /\ DeletedIsOver /\ AckedIsStored)'
  BY DEF TypeOK, None, InOrder, Rising, Newest, State, LockHolderKnows, NothingBeforeRestore, DeletedIsOver, AckedIsStored, Quiet, Starting, Teardown, cleanup, Admitted, process, history
<1> QED
  BY <1>1, <1>2, <1>3, <1>4

LEMMA DeleteKeeps == IInv /\ Delete => IInv'
<1> SUFFICES ASSUME IInv, Delete PROVE IInv'
  OBVIOUS
<1> USE DEF IInv
<1>1. TypeOK'
  <2>1. {timer', sent', dead', playing', gone', doubt'} \subseteq BOOLEAN
    BY Zenon DEF TypeOK, Delete, Barrier, process, history
  <2>2. /\ clock' \in 0..MaxState
        /\ {game', dirty', store', opState', acked'} \subseteq 0..MaxState
        /\ writes' \in Seq([state : State, waiters : SUBSET Waiter])
        /\ op' \in Op /\ phase' \in Phase /\ stops' \in 0..MaxStops
    BY BoundsAssumption DEF TypeOK, Op, Phase, None, Delete, Barrier, process, history
  <2>3. (sent' => writes' # <<>>) /\ (timer' => dirty' # None /\ ~dead')
    BY DEF TypeOK, None, Delete, Barrier, process, history
  <2> QED
    BY <2>1, <2>2, <2>3 DEF TypeOK
<1>2. InOrder'
  BY Typed DEF InOrder, Rising, Newest, None, LockHolderKnows, NothingBeforeRestore, Quiet, DeletedIsOver, Delete, Barrier, process, history
<1>3. WaitsForItsState'
  BY DEF TypeOK, WaitsForItsState, LockHolderKnows, NothingBeforeRestore, Quiet, Delete, Barrier, process, history
<1>4. (LockHolderKnows /\ NothingBeforeRestore /\ DeletedIsOver /\ AckedIsStored)'
  BY DEF TypeOK, None, InOrder, Rising, Newest, State, LockHolderKnows, NothingBeforeRestore, DeletedIsOver, AckedIsStored, Quiet, Starting, Delete, Barrier, process, history
<1> QED
  BY <1>1, <1>2, <1>3, <1>4

LEMMA DeleteSucceedsKeeps == IInv /\ DeleteSucceeds => IInv'
<1> SUFFICES ASSUME IInv, DeleteSucceeds PROVE IInv'
  OBVIOUS
<1> USE DEF IInv
<1>1. TypeOK'
  <2>1. {timer', sent', dead', playing', gone', doubt'} \subseteq BOOLEAN
    BY Zenon DEF TypeOK, DeleteSucceeds, process, history
  <2>2. /\ clock' \in 0..MaxState
        /\ {game', dirty', store', opState', acked'} \subseteq 0..MaxState
        /\ writes' \in Seq([state : State, waiters : SUBSET Waiter])
        /\ op' \in Op /\ phase' \in Phase /\ stops' \in 0..MaxStops
    BY BoundsAssumption DEF TypeOK, Op, Phase, None, DeleteSucceeds, process, history
  <2>3. (sent' => writes' # <<>>) /\ (timer' => dirty' # None /\ ~dead')
    BY DEF TypeOK, None, DeleteSucceeds, process, history
  <2> QED
    BY <2>1, <2>2, <2>3 DEF TypeOK
<1>2. InOrder'
  BY Typed DEF InOrder, Rising, Newest, None, LockHolderKnows, NothingBeforeRestore, Quiet, DeletedIsOver, DeleteSucceeds, process, history
<1>3. WaitsForItsState'
  BY DEF TypeOK, WaitsForItsState, LockHolderKnows, NothingBeforeRestore, Quiet, DeleteSucceeds, process, history
<1>4. (LockHolderKnows /\ NothingBeforeRestore /\ DeletedIsOver /\ AckedIsStored)'
  BY DEF TypeOK, None, InOrder, Rising, Newest, State, LockHolderKnows, NothingBeforeRestore, DeletedIsOver, AckedIsStored, Quiet, Starting, DeleteSucceeds, process, history
<1> QED
  BY <1>1, <1>2, <1>3, <1>4

LEMMA DeleteUnknownKeeps == IInv /\ DeleteUnknown => IInv'
<1> SUFFICES ASSUME IInv, DeleteUnknown PROVE IInv'
  OBVIOUS
<1> USE DEF IInv
<1>0. store' = store \/ store' = None
  BY Zenon DEF DeleteUnknown
<1>1. TypeOK'
  <2>1. {timer', sent', dead', playing', gone', doubt'} \subseteq BOOLEAN
    BY Zenon DEF TypeOK, DeleteUnknown, process, history
  <2>2. /\ clock' \in 0..MaxState
        /\ {game', dirty', store', opState', acked'} \subseteq 0..MaxState
        /\ writes' \in Seq([state : State, waiters : SUBSET Waiter])
        /\ op' \in Op /\ phase' \in Phase /\ stops' \in 0..MaxStops
    BY <1>0, BoundsAssumption DEF TypeOK, Op, Phase, None, DeleteUnknown, process, history
  <2>3. (sent' => writes' # <<>>) /\ (timer' => dirty' # None /\ ~dead')
    BY DEF TypeOK, None, DeleteUnknown, process, history
  <2> QED
    BY <2>1, <2>2, <2>3 DEF TypeOK
<1>2. InOrder'
  BY <1>0, Typed DEF InOrder, Rising, Newest, None, LockHolderKnows, NothingBeforeRestore, Quiet, DeletedIsOver, DeleteUnknown, process, history
<1>3. WaitsForItsState'
  BY DEF TypeOK, WaitsForItsState, LockHolderKnows, NothingBeforeRestore, Quiet, DeleteUnknown, process, history
<1>4. (LockHolderKnows /\ NothingBeforeRestore /\ DeletedIsOver /\ AckedIsStored)'
  BY DEF TypeOK, None, InOrder, Rising, Newest, State, LockHolderKnows, NothingBeforeRestore, DeletedIsOver, AckedIsStored, Quiet, Starting, DeleteUnknown, process, history
<1> QED
  BY <1>1, <1>2, <1>3, <1>4

LEMMA RestoreKeeps == IInv /\ Restore => IInv'
<1> SUFFICES ASSUME IInv, Restore PROVE IInv'
  OBVIOUS
<1> USE DEF IInv
<1>1. TypeOK'
  <2>1. {timer', sent', dead', playing', gone', doubt'} \subseteq BOOLEAN
    BY Zenon DEF TypeOK, Restore, Admitted, process, history
  <2>2. /\ clock' \in 0..MaxState
        /\ {game', dirty', store', opState', acked'} \subseteq 0..MaxState
        /\ writes' \in Seq([state : State, waiters : SUBSET Waiter])
        /\ op' \in Op /\ phase' \in Phase /\ stops' \in 0..MaxStops
    BY BoundsAssumption DEF TypeOK, Op, Phase, None, Restore, Admitted, process, history
  <2>3. (sent' => writes' # <<>>) /\ (timer' => dirty' # None /\ ~dead')
    BY DEF TypeOK, None, Restore, Admitted, process, history
  <2> QED
    BY <2>1, <2>2, <2>3 DEF TypeOK
<1>2. InOrder'
  BY Typed DEF InOrder, Rising, Newest, None, LockHolderKnows, NothingBeforeRestore, Quiet, DeletedIsOver, Restore, Admitted, process, history
<1>3. WaitsForItsState'
  BY DEF TypeOK, WaitsForItsState, LockHolderKnows, NothingBeforeRestore, Quiet, Restore, Admitted, process, history
<1>4. (LockHolderKnows /\ NothingBeforeRestore /\ DeletedIsOver /\ AckedIsStored)'
  BY DEF TypeOK, None, InOrder, Rising, Newest, State, LockHolderKnows, NothingBeforeRestore, DeletedIsOver, AckedIsStored, Quiet, Starting, Restore, Admitted, process, history
<1> QED
  BY <1>1, <1>2, <1>3, <1>4

LEMMA BeginShutdownKeeps == IInv /\ BeginShutdown => IInv'
<1> SUFFICES ASSUME IInv, BeginShutdown PROVE IInv'
  OBVIOUS
<1> USE DEF IInv
<1>1. TypeOK'
  <2>1. {timer', sent', dead', playing', gone', doubt'} \subseteq BOOLEAN
    BY Zenon DEF TypeOK, BeginShutdown, process, history
  <2>2. /\ clock' \in 0..MaxState
        /\ {game', dirty', store', opState', acked'} \subseteq 0..MaxState
        /\ writes' \in Seq([state : State, waiters : SUBSET Waiter])
        /\ op' \in Op /\ phase' \in Phase /\ stops' \in 0..MaxStops
    BY BoundsAssumption DEF TypeOK, Op, Phase, None, BeginShutdown, process, history
  <2>3. (sent' => writes' # <<>>) /\ (timer' => dirty' # None /\ ~dead')
    BY DEF TypeOK, None, BeginShutdown, process, history
  <2> QED
    BY <2>1, <2>2, <2>3 DEF TypeOK
<1>2. InOrder'
  BY Typed DEF InOrder, Rising, Newest, None, LockHolderKnows, NothingBeforeRestore, Quiet, DeletedIsOver, BeginShutdown, process, history
<1>3. WaitsForItsState'
  BY DEF TypeOK, WaitsForItsState, LockHolderKnows, NothingBeforeRestore, Quiet, BeginShutdown, process, history
<1>4. (LockHolderKnows /\ NothingBeforeRestore /\ DeletedIsOver /\ AckedIsStored)'
  BY DEF TypeOK, None, InOrder, Rising, Newest, State, LockHolderKnows, NothingBeforeRestore, DeletedIsOver, AckedIsStored, Quiet, Starting, BeginShutdown, process, history
<1> QED
  BY <1>1, <1>2, <1>3, <1>4

LEMMA DrainKeeps == IInv /\ Drain => IInv'
<1> SUFFICES ASSUME IInv, Drain PROVE IInv'
  OBVIOUS
<1> USE DEF IInv
<1>1. TypeOK'
  <2>1. {timer', sent', dead', playing', gone', doubt'} \subseteq BOOLEAN
    BY Zenon DEF TypeOK, Drain, Flushed, process, history
  <2>2. /\ clock' \in 0..MaxState
        /\ {game', dirty', store', opState', acked'} \subseteq 0..MaxState
        /\ writes' \in Seq([state : State, waiters : SUBSET Waiter])
        /\ op' \in Op /\ phase' \in Phase /\ stops' \in 0..MaxStops
    BY BoundsAssumption DEF TypeOK, Op, Phase, None, Drain, Flushed, process, history
  <2>3. (sent' => writes' # <<>>) /\ (timer' => dirty' # None /\ ~dead')
    BY DEF TypeOK, None, Drain, Flushed, process, history
  <2> QED
    BY <2>1, <2>2, <2>3 DEF TypeOK
<1>2. InOrder'
  BY Typed DEF InOrder, Rising, Newest, None, LockHolderKnows, NothingBeforeRestore, Quiet, DeletedIsOver, Drain, Flushed, process, history
<1>3. WaitsForItsState'
  BY DEF TypeOK, WaitsForItsState, LockHolderKnows, NothingBeforeRestore, Quiet, Drain, Flushed, process, history
<1>4. (LockHolderKnows /\ NothingBeforeRestore /\ DeletedIsOver /\ AckedIsStored)'
  BY DEF TypeOK, None, InOrder, Rising, Newest, State, LockHolderKnows, NothingBeforeRestore, DeletedIsOver, AckedIsStored, Quiet, Starting, Drain, Flushed, process, history
<1> QED
  BY <1>1, <1>2, <1>3, <1>4

LEMMA DrainedKeeps == IInv /\ Drained => IInv'
<1> SUFFICES ASSUME IInv, Drained PROVE IInv'
  OBVIOUS
<1> USE DEF IInv
<1>1. TypeOK'
  <2>1. {timer', sent', dead', playing', gone', doubt'} \subseteq BOOLEAN
    BY Zenon DEF TypeOK, Drained, process, history
  <2>2. /\ clock' \in 0..MaxState
        /\ {game', dirty', store', opState', acked'} \subseteq 0..MaxState
        /\ writes' \in Seq([state : State, waiters : SUBSET Waiter])
        /\ op' \in Op /\ phase' \in Phase /\ stops' \in 0..MaxStops
    BY BoundsAssumption DEF TypeOK, Op, Phase, None, Drained, process, history
  <2>3. (sent' => writes' # <<>>) /\ (timer' => dirty' # None /\ ~dead')
    BY DEF TypeOK, None, Drained, process, history
  <2> QED
    BY <2>1, <2>2, <2>3 DEF TypeOK
<1>2. InOrder'
  BY Typed DEF InOrder, Rising, Newest, None, LockHolderKnows, NothingBeforeRestore, Quiet, DeletedIsOver, Drained, process, history
<1>3. WaitsForItsState'
  BY DEF TypeOK, WaitsForItsState, LockHolderKnows, NothingBeforeRestore, Quiet, Drained, process, history
<1>4. (LockHolderKnows /\ NothingBeforeRestore /\ DeletedIsOver /\ AckedIsStored)'
  BY DEF TypeOK, None, InOrder, Rising, Newest, State, LockHolderKnows, NothingBeforeRestore, DeletedIsOver, AckedIsStored, Quiet, Starting, Drained, process, history
<1> QED
  BY <1>1, <1>2, <1>3, <1>4

-----------------------------------------------------------------------------
LEMMA EnqueuedWrites ==
    ASSUME TypeOK, NEW s \in State, NEW w \in SUBSET Waiter
    PROVE  /\ Enqueued(s, w) \in Seq(Write) /\ Enqueued(s, w) # <<>>
           /\ Len(Enqueued(s, w)) = Len(writes) + 1
           /\ DOMAIN Enqueued(s, w) = 1..(Len(writes) + 1)
           /\ \A i \in 1..Len(writes) : Enqueued(s, w)[i] = writes[i]
           /\ Enqueued(s, w)[Len(writes) + 1].state = s
           /\ Enqueued(s, w)[Len(writes) + 1].waiters = w
BY DEF TypeOK, Enqueued, Write

LEMMA OtherWrites ==
    ASSUME TypeOK, writes # <<>>
    PROVE  /\ Tail(writes) \in Seq(Write)
           /\ Len(Tail(writes)) = Len(writes) - 1
           /\ DOMAIN Tail(writes) = 1..(Len(writes) - 1)
           /\ \A i \in 1..(Len(writes) - 1) : Tail(writes)[i] = writes[i + 1]
           /\ 1 \in DOMAIN writes /\ writes[1] \in Write /\ Len(writes) >= 1
<1>1. writes \in Seq(Write) /\ Len(writes) \in Nat /\ DOMAIN writes = 1..Len(writes)
  BY WritesTyped
<1>2. Len(writes) >= 1
  BY <1>1
<1> QED
  BY <1>1, <1>2, WritesTyped

Waited(w) ==
    [i \in DOMAIN writes |->
        IF i = Len(writes) THEN [writes[i] EXCEPT !.waiters = @ \cup {w}]
        ELSE writes[i]]

LEMMA WaitedWrites ==
    ASSUME TypeOK, NEW w \in Waiter
    PROVE  /\ Waited(w) \in Seq(Write)
           /\ Len(Waited(w)) = Len(writes)
           /\ DOMAIN Waited(w) = DOMAIN writes
           /\ \A i \in DOMAIN writes :
                /\ Waited(w)[i].state = writes[i].state
                /\ Waited(w)[i].waiters \subseteq writes[i].waiters \cup {w}
                /\ writes[i].waiters \subseteq Waited(w)[i].waiters
           /\ writes = <<>> => Waited(w) = <<>>
<1>1. writes \in Seq(Write) /\ DOMAIN writes = 1..Len(writes) /\ Len(writes) \in Nat
  BY WritesTyped
<1>2. \A i \in DOMAIN writes : Waited(w)[i] \in Write
  <2> TAKE i \in DOMAIN writes
  <2>1. writes[i] \in Write
    BY WritesTyped
  <2> QED
    BY <2>1 DEF Waited, Write
<1>3. Waited(w) \in Seq(Write)
  BY <1>1, <1>2 DEF Waited
<1>4. DOMAIN Waited(w) = DOMAIN writes
  BY DEF Waited
<1>5. Len(Waited(w)) = Len(writes)
  BY <1>1, <1>3, <1>4
<1>6. ASSUME NEW i \in DOMAIN writes
      PROVE  /\ Waited(w)[i].state = writes[i].state
             /\ Waited(w)[i].waiters \subseteq writes[i].waiters \cup {w}
             /\ writes[i].waiters \subseteq Waited(w)[i].waiters
  <2>1. writes[i] \in Write
    BY WritesTyped
  <2> QED
    BY <2>1 DEF Waited, Write
<1>7. writes = <<>> => Waited(w) = <<>>
  BY <1>1, <1>3, <1>5
<1> QED
  BY <1>3, <1>4, <1>5, <1>6, <1>7

LEMMA ChainedInOrder ==
    ASSUME TypeOK, Rising, NEW s \in State, NEW w \in SUBSET Waiter,
           writes' = Enqueued(s, w), NEW lo \in Nat, NEW hi \in Nat,
           \A i \in DOMAIN writes : lo <= writes[i].state /\ writes[i].state <= s,
           lo <= s, s <= hi
    PROVE  /\ Rising'
           /\ \A i \in DOMAIN writes' : lo <= writes'[i].state /\ writes'[i].state <= hi
<1>1. /\ DOMAIN writes' = 1..(Len(writes) + 1) /\ DOMAIN writes = 1..Len(writes)
      /\ \A i \in 1..Len(writes) : writes'[i] = writes[i]
      /\ writes'[Len(writes) + 1].state = s
      /\ Len(writes) \in Nat /\ s \in Nat
      /\ \A i \in DOMAIN writes : writes[i].state \in Nat
  BY EnqueuedWrites, Typed, BoundsAssumption DEF State
<1> QED
  BY <1>1 DEF Rising

LEMMA ChainedWaits ==
    ASSUME TypeOK, WaitsForItsState, NEW s \in State, NEW w \in SUBSET Waiter,
           writes' = Enqueued(s, w),
           \/ /\ op \notin {"starting", "flushing"}
              /\ "op" \in w /\ op' \in {"starting", "flushing"} /\ s = opState'
           \/ "op" \notin w /\ op # "starting" /\ UNCHANGED <<op, opState>>
    PROVE  WaitsForItsState'
<1>1. /\ DOMAIN writes' = 1..(Len(writes) + 1) /\ DOMAIN writes = 1..Len(writes)
      /\ Len(writes') = Len(writes) + 1
      /\ \A i \in 1..Len(writes) : writes'[i] = writes[i]
      /\ writes'[Len(writes) + 1].state = s /\ writes'[Len(writes) + 1].waiters = w
      /\ Len(writes) \in Nat /\ writes' # <<>>
  BY EnqueuedWrites, WritesTyped
<1> QED
  BY <1>1 DEF WaitsForItsState

LEMMA TailInOrder ==
    ASSUME TypeOK, Rising, writes # <<>>, writes' = Tail(writes)
    PROVE  /\ Rising'
           /\ \A i \in DOMAIN writes' :
                /\ \E j \in DOMAIN writes : writes'[i] = writes[j]
                /\ writes[1].state <= writes'[i].state
<1>1. /\ DOMAIN writes' = 1..(Len(writes) - 1) /\ DOMAIN writes = 1..Len(writes)
      /\ \A i \in 1..(Len(writes) - 1) : writes'[i] = writes[i + 1]
      /\ Len(writes) \in Nat /\ Len(writes) >= 1
      /\ \A i \in DOMAIN writes : writes[i].state \in Nat
  BY OtherWrites, Typed
<1> QED
  BY <1>1 DEF Rising

LEMMA TailWaits ==
    ASSUME TypeOK, WaitsForItsState, writes # <<>>, writes' = Tail(writes),
           UNCHANGED opState,
           IF "op" \in writes[1].waiters THEN op' # "starting" ELSE UNCHANGED op
    PROVE  WaitsForItsState'
<1>1. /\ DOMAIN writes' = 1..(Len(writes) - 1) /\ DOMAIN writes = 1..Len(writes)
      /\ Len(writes') = Len(writes) - 1
      /\ \A i \in 1..(Len(writes) - 1) : writes'[i] = writes[i + 1]
      /\ Len(writes) \in Nat /\ Len(writes) >= 1
      /\ writes' \in Seq(Write)
  BY OtherWrites, WritesTyped
<1>2. ASSUME NEW i \in DOMAIN writes', "op" \in writes'[i].waiters
      PROVE  /\ op' \in {"starting", "flushing"}
             /\ writes'[i].state = opState'
             /\ \A j \in DOMAIN writes' : "op" \in writes'[j].waiters => i = j
  BY <1>1, <1>2 DEF WaitsForItsState
<1>3. ASSUME op' = "starting"
      PROVE  writes' # <<>> /\ "op" \in writes'[Len(writes')].waiters
  <2>1. op = "starting" /\ "op" \notin writes[1].waiters
    BY <1>3
  <2>2. "op" \in writes[Len(writes)].waiters /\ Len(writes) > 1
    BY <1>1, <2>1 DEF WaitsForItsState
  <2>3. writes'[Len(writes')] = writes[Len(writes)]
    BY <1>1, <2>2
  <2>4. Len(writes') # 0
    BY <1>1, <2>2
  <2>5. writes' # <<>>
    BY <2>4
  <2> QED
    BY <2>2, <2>3, <2>5
<1> QED
  BY <1>2, <1>3 DEF WaitsForItsState

LEMMA flushKeeps == IInv /\ flush => IInv'
<1> SUFFICES ASSUME IInv, flush PROVE IInv'
  OBVIOUS
<1> USE DEF IInv
<1>1. writes' = Enqueued(dirty, {}) /\ dirty \in State /\ {} \in SUBSET Waiter
  BY BoundsAssumption DEF flush, TypeOK, State, Waiter, None
<1>d. dirty # None
  BY DEF flush, TypeOK
<1>2. store' \in {store, None}
  BY Zenon DEF flush, process, history
<1>3. TypeOK'
  <2>1. {timer', sent', dead', playing', gone', doubt'} \subseteq BOOLEAN
    BY Zenon DEF TypeOK, flush, process, history
  <2>2. writes' \in Seq([state : State, waiters : SUBSET Waiter]) /\ writes' # <<>>
    BY <1>1, EnqueuedWrites DEF Write
  <2>3. /\ clock' \in 0..MaxState
        /\ {game', dirty', store', opState', acked'} \subseteq 0..MaxState
        /\ op' \in Op /\ phase' \in Phase /\ stops' \in 0..MaxStops
    BY <1>2, BoundsAssumption DEF TypeOK, Op, Phase, None, flush, process, history
  <2>4. timer' = FALSE
    BY DEF flush
  <2> QED
    BY <2>1, <2>2, <2>3, <2>4 DEF TypeOK
<1>4. /\ Rising'
      /\ \A i \in DOMAIN writes' : store' <= writes'[i].state /\ writes'[i].state <= Newest'
  <2>1. /\ store' \in Nat /\ Newest' \in Nat /\ store' <= dirty /\ dirty <= Newest'
        /\ \A i \in DOMAIN writes : store' <= writes[i].state /\ writes[i].state <= dirty
    BY <1>2, <1>d, Typed DEF InOrder, Newest, None, flush, process, history
  <2>2. dirty \in State /\ {} \in SUBSET Waiter /\ TypeOK /\ Rising
    BY <1>1 DEF InOrder
  <2> QED
    BY <1>1, <2>1, <2>2, ChainedInOrder
<1>5. InOrder'
  BY <1>2, <1>4, Typed DEF InOrder, Newest, None, flush, process, history
<1>6. WaitsForItsState'
  BY <1>1, <1>d, ChainedWaits DEF flush, process, LockHolderKnows
<1>7. (LockHolderKnows /\ NothingBeforeRestore /\ DeletedIsOver /\ AckedIsStored)'
  BY <1>2, Typed DEF None, LockHolderKnows, NothingBeforeRestore, DeletedIsOver, AckedIsStored, Quiet, Starting, flush, process, history
<1> QED
  BY <1>3, <1>5, <1>6, <1>7

LEMMA PlayAndFlushKeeps == IInv /\ PlayAndFlush => IInv'
<1> SUFFICES ASSUME IInv, PlayAndFlush PROVE IInv'
  OBVIOUS
<1> USE DEF IInv
<1>1. writes' = Enqueued(clock', {"op"}) /\ clock' \in State /\ {"op"} \in SUBSET Waiter
  BY BoundsAssumption DEF PlayAndFlush, MarkAndFlush, Admitted, TypeOK, State, Waiter, None
<1>2. store' \in {store, None}
  BY Zenon DEF PlayAndFlush, MarkAndFlush, Admitted, process, history
<1>3. TypeOK'
  <2>1. {timer', sent', dead', playing', gone', doubt'} \subseteq BOOLEAN
    BY Zenon DEF TypeOK, PlayAndFlush, MarkAndFlush, Admitted, process, history
  <2>2. writes' \in Seq([state : State, waiters : SUBSET Waiter]) /\ writes' # <<>>
    BY <1>1, EnqueuedWrites DEF Write
  <2>3. /\ clock' \in 0..MaxState
        /\ {game', dirty', store', opState', acked'} \subseteq 0..MaxState
        /\ op' \in Op /\ phase' \in Phase /\ stops' \in 0..MaxStops
    BY <1>2, BoundsAssumption DEF TypeOK, Op, Phase, None, PlayAndFlush, MarkAndFlush, Admitted, process, history
  <2>4. timer' = FALSE
    BY DEF PlayAndFlush, MarkAndFlush, Admitted
  <2> QED
    BY <2>1, <2>2, <2>3, <2>4 DEF TypeOK
<1>4. /\ Rising'
      /\ \A i \in DOMAIN writes' : store' <= writes'[i].state /\ writes'[i].state <= Newest'
  <2>1. /\ store' \in Nat /\ Newest' \in Nat /\ store' <= clock' /\ clock' <= Newest'
        /\ \A i \in DOMAIN writes : store' <= writes[i].state /\ writes[i].state <= clock'
    BY <1>2, Typed DEF InOrder, Newest, None, PlayAndFlush, MarkAndFlush, Admitted, process, history
  <2>2. clock' \in State /\ {"op"} \in SUBSET Waiter /\ TypeOK /\ Rising
    BY <1>1 DEF InOrder
  <2> QED
    BY <1>1, <2>1, <2>2, ChainedInOrder
<1>5. InOrder'
  BY <1>2, <1>4, Typed DEF InOrder, Newest, None, PlayAndFlush, MarkAndFlush, Admitted, process, history
<1>6. WaitsForItsState'
  BY <1>1, ChainedWaits DEF PlayAndFlush, MarkAndFlush, Admitted, process, LockHolderKnows
<1>7. (LockHolderKnows /\ NothingBeforeRestore /\ DeletedIsOver /\ AckedIsStored)'
  BY <1>2, Typed DEF None, LockHolderKnows, NothingBeforeRestore, DeletedIsOver, AckedIsStored, Quiet, Starting, PlayAndFlush, MarkAndFlush, Admitted, process, history
<1> QED
  BY <1>3, <1>5, <1>6, <1>7

LEMMA StartGameKeeps == IInv /\ StartGame => IInv'
<1> SUFFICES ASSUME IInv, StartGame PROVE IInv'
  OBVIOUS
<1> USE DEF IInv
<1>1. writes' = Enqueued(clock', {"op"}) /\ clock' \in State /\ {"op"} \in SUBSET Waiter
  BY BoundsAssumption DEF StartGame, MarkAndFlush, Admitted, TypeOK, State, Waiter, None
<1>2. store' \in {store, None}
  BY Zenon DEF StartGame, MarkAndFlush, Admitted, process, history
<1>3. TypeOK'
  <2>1. {timer', sent', dead', playing', gone', doubt'} \subseteq BOOLEAN
    BY Zenon DEF TypeOK, StartGame, MarkAndFlush, Admitted, process, history
  <2>2. writes' \in Seq([state : State, waiters : SUBSET Waiter]) /\ writes' # <<>>
    BY <1>1, EnqueuedWrites DEF Write
  <2>3. /\ clock' \in 0..MaxState
        /\ {game', dirty', store', opState', acked'} \subseteq 0..MaxState
        /\ op' \in Op /\ phase' \in Phase /\ stops' \in 0..MaxStops
    BY <1>2, BoundsAssumption DEF TypeOK, Op, Phase, None, StartGame, MarkAndFlush, Admitted, process, history
  <2>4. timer' = FALSE
    BY DEF StartGame, MarkAndFlush, Admitted
  <2> QED
    BY <2>1, <2>2, <2>3, <2>4 DEF TypeOK
<1>4. /\ Rising'
      /\ \A i \in DOMAIN writes' : store' <= writes'[i].state /\ writes'[i].state <= Newest'
  <2>1. /\ store' \in Nat /\ Newest' \in Nat /\ store' <= clock' /\ clock' <= Newest'
        /\ \A i \in DOMAIN writes : store' <= writes[i].state /\ writes[i].state <= clock'
    BY <1>2, Typed DEF InOrder, Newest, None, StartGame, MarkAndFlush, Admitted, process, history
  <2>2. clock' \in State /\ {"op"} \in SUBSET Waiter /\ TypeOK /\ Rising
    BY <1>1 DEF InOrder
  <2> QED
    BY <1>1, <2>1, <2>2, ChainedInOrder
<1>5. InOrder'
  BY <1>2, <1>4, Typed DEF InOrder, Newest, None, StartGame, MarkAndFlush, Admitted, process, history
<1>6. WaitsForItsState'
  BY <1>1, ChainedWaits DEF StartGame, MarkAndFlush, Admitted, process, LockHolderKnows
<1>7. (LockHolderKnows /\ NothingBeforeRestore /\ DeletedIsOver /\ AckedIsStored)'
  BY <1>2, Typed DEF None, LockHolderKnows, NothingBeforeRestore, DeletedIsOver, AckedIsStored, Quiet, Starting, StartGame, MarkAndFlush, Admitted, process, history
<1> QED
  BY <1>3, <1>5, <1>6, <1>7

LEMMA DeleteFailsKeeps == IInv /\ DeleteFails => IInv'
<1> SUFFICES ASSUME IInv, DeleteFails PROVE IInv'
  OBVIOUS
<1> USE DEF IInv
<1>1. writes' = Enqueued(game, {"op"}) /\ game \in State /\ {"op"} \in SUBSET Waiter
  BY BoundsAssumption DEF DeleteFails, MarkAndFlush, TypeOK, State, Waiter, None, LockHolderKnows
<1>2. store' \in {store, None}
  BY Zenon DEF DeleteFails, MarkAndFlush, process, history
<1>3. TypeOK'
  <2>1. {timer', sent', dead', playing', gone', doubt'} \subseteq BOOLEAN
    BY Zenon DEF TypeOK, DeleteFails, MarkAndFlush, process, history
  <2>2. writes' \in Seq([state : State, waiters : SUBSET Waiter]) /\ writes' # <<>>
    BY <1>1, EnqueuedWrites DEF Write
  <2>3. /\ clock' \in 0..MaxState
        /\ {game', dirty', store', opState', acked'} \subseteq 0..MaxState
        /\ op' \in Op /\ phase' \in Phase /\ stops' \in 0..MaxStops
    BY <1>2, BoundsAssumption DEF TypeOK, Op, Phase, None, DeleteFails, MarkAndFlush, process, history
  <2>4. timer' = FALSE
    BY DEF DeleteFails, MarkAndFlush
  <2> QED
    BY <2>1, <2>2, <2>3, <2>4 DEF TypeOK
<1>4. /\ Rising'
      /\ \A i \in DOMAIN writes' : store' <= writes'[i].state /\ writes'[i].state <= Newest'
  <2>1. /\ store' \in Nat /\ Newest' \in Nat /\ store' <= game /\ game <= Newest'
        /\ \A i \in DOMAIN writes : store' <= writes[i].state /\ writes[i].state <= game
    BY <1>2, Typed DEF InOrder, Newest, None, DeleteFails, MarkAndFlush, process, history, LockHolderKnows
  <2>2. game \in State /\ {"op"} \in SUBSET Waiter /\ TypeOK /\ Rising
    BY <1>1 DEF InOrder
  <2> QED
    BY <1>1, <2>1, <2>2, ChainedInOrder
<1>5. InOrder'
  BY <1>2, <1>4, Typed DEF InOrder, Newest, None, DeleteFails, MarkAndFlush, process, history, LockHolderKnows
<1>6. WaitsForItsState'
  BY <1>1, ChainedWaits DEF DeleteFails, MarkAndFlush, process, LockHolderKnows
<1>7. (LockHolderKnows /\ NothingBeforeRestore /\ DeletedIsOver /\ AckedIsStored)'
  BY <1>2, Typed DEF None, LockHolderKnows, NothingBeforeRestore, DeletedIsOver, AckedIsStored, Quiet, Starting, DeleteFails, MarkAndFlush, process, history
<1> QED
  BY <1>3, <1>5, <1>6, <1>7

(* What a write that is over tells the lock holder.                         *)
LEMMA Told ==
    ASSUME IInv, NEW ok \in BOOLEAN, writes # <<>>, Tell(writes[1].waiters, ok)
    PROVE  /\ op' \in Op /\ phase' \in Phase
           /\ IF "op" \in writes[1].waiters
              THEN /\ op \in {"starting", "flushing"} /\ writes[1].state = opState
                   /\ op = "starting" => op' \in {"committing", "startFailed"}
                                          /\ writes = <<writes[1]>>
                   /\ op' = "committing" => op = "starting" /\ ok
                   /\ op = "flushing" => op' = "idle"
              ELSE op' = op
           /\ acked' = acked \/ (acked' = opState /\ "op" \in writes[1].waiters /\ ok /\ ~dead)
<1> USE DEF IInv
<1>1. 1 \in DOMAIN writes /\ DOMAIN writes = 1..Len(writes) /\ Len(writes) \in Nat
      /\ writes \in Seq(Write)
  BY OtherWrites, WritesTyped
<1>2. phase' \in Phase /\ op' \in Op
  BY Zenon DEF Tell, TypeOK, Phase, Op
<1>3. acked' = acked \/ (acked' = opState /\ "op" \in writes[1].waiters /\ ok /\ ~dead)
  BY Zenon DEF Tell
<1>4. CASE "op" \in writes[1].waiters
  <2>1. op \in {"starting", "flushing"} /\ writes[1].state = opState
    BY <1>1, <1>4 DEF WaitsForItsState
  <2>2. op = "starting" => Len(writes) = 1
    BY <1>1, <1>4 DEF WaitsForItsState
  <2>3. Len(writes) = 1 => writes = <<writes[1]>>
    BY <1>1
  <2>4. op' = CASE op = "starting" -> (IF ok THEN "committing" ELSE "startFailed")
                [] op = "flushing" -> "idle"
                [] OTHER -> op
    BY <1>4 DEF Tell
  <2>5. op = "starting" => op' = IF ok THEN "committing" ELSE "startFailed"
    BY <2>4
  <2>6. op = "flushing" => op' = "idle"
    BY <2>4
  <2> QED
    BY <1>2, <1>3, <1>4, <2>1, <2>2, <2>3, <2>5, <2>6
<1>5. CASE "op" \notin writes[1].waiters
  BY <1>2, <1>3, <1>5 DEF Tell
<1> QED
  BY <1>4, <1>5

LEMMA WriteSucceedsKeeps == IInv /\ WriteSucceeds => IInv'
<1> SUFFICES ASSUME IInv, WriteSucceeds PROVE IInv'
  OBVIOUS
<1> USE DEF IInv
<1>1. /\ writes # <<>> /\ writes' = Tail(writes) /\ Tell(writes[1].waiters, TRUE)
      /\ store' = writes[1].state
      /\ UNCHANGED <<clock, game, dirty, timer, dead, playing, opState, stops, gone, doubt>>
      /\ sent' = FALSE
  BY DEF WriteSucceeds, TypeOK
<1>2. /\ op' \in Op /\ phase' \in Phase
      /\ IF "op" \in writes[1].waiters
         THEN /\ op \in {"starting", "flushing"} /\ writes[1].state = opState
              /\ op = "starting" => op' \in {"committing", "startFailed"}
                                     /\ writes = <<writes[1]>>
              /\ op = "flushing" => op' = "idle"
         ELSE op' = op
      /\ acked' = acked \/ (acked' = opState /\ "op" \in writes[1].waiters)
  BY <1>1, Told
<1>3. /\ writes' \in Seq(Write) /\ 1 \in DOMAIN writes /\ writes[1] \in Write
      /\ writes[1].state \in State
  BY <1>1, OtherWrites DEF Write
<1>4. TypeOK'
  <2>1. {timer', sent', dead', playing', gone', doubt'} \subseteq BOOLEAN
    BY <1>1, Zenon DEF TypeOK
  <2>2. writes' \in Seq([state : State, waiters : SUBSET Waiter])
    BY <1>3 DEF Write
  <2>3. /\ clock' \in 0..MaxState
        /\ {game', dirty', store', opState', acked'} \subseteq 0..MaxState
        /\ stops' \in 0..MaxStops
    BY <1>1, <1>2, <1>3, BoundsAssumption DEF TypeOK, State
  <2>4. (sent' => writes' # <<>>) /\ (timer' => dirty' # None /\ ~dead')
    BY <1>1 DEF TypeOK
  <2> QED
    BY <1>2, <2>1, <2>2, <2>3, <2>4 DEF TypeOK
<1>5. /\ Rising'
      /\ \A i \in DOMAIN writes' :
           /\ \E j \in DOMAIN writes : writes'[i] = writes[j]
           /\ writes[1].state <= writes'[i].state
  BY <1>1, TailInOrder DEF InOrder
<1>6. InOrder'
  BY <1>1, <1>3, <1>5, Typed DEF InOrder, Newest
<1>7. WaitsForItsState'
  BY <1>1, <1>2, TailWaits
<1>8. writes = <<writes[1]>> => writes' = <<>>
  BY <1>1
<1>9. (LockHolderKnows /\ NothingBeforeRestore /\ DeletedIsOver /\ AckedIsStored)'
  BY <1>1, <1>2, <1>3, <1>8, Typed DEF LockHolderKnows, NothingBeforeRestore, DeletedIsOver, AckedIsStored, InOrder, Quiet, Starting
<1> QED
  BY <1>4, <1>6, <1>7, <1>9

LEMMA WriteFailsKeeps == IInv /\ WriteFails => IInv'
<1> SUFFICES ASSUME IInv, WriteFails PROVE IInv'
  OBVIOUS
<1> USE DEF IInv
<1>1. /\ writes # <<>> /\ writes' = Tail(writes) /\ Tell(writes[1].waiters, FALSE)
      /\ store' \in {store, writes[1].state}
      /\ UNCHANGED <<clock, game, dead, playing, opState, stops, gone, doubt>>
      /\ sent' = FALSE
  BY DEF WriteFails, TypeOK
<1>2. /\ op' \in Op /\ phase' \in Phase
      /\ IF "op" \in writes[1].waiters
         THEN /\ op \in {"starting", "flushing"} /\ writes[1].state = opState
              /\ op = "starting" => op' = "startFailed"
              /\ op = "flushing" => op' = "idle"
         ELSE op' = op
      /\ acked' = acked
  BY <1>1, Told
<1>3. /\ writes' \in Seq(Write) /\ 1 \in DOMAIN writes /\ writes[1] \in Write
      /\ writes[1].state \in State
      /\ Len(writes') = Len(writes) - 1 /\ DOMAIN writes = 1..Len(writes)
      /\ Len(writes) \in Nat
  BY <1>1, OtherWrites, WritesTyped DEF Write
<1>4. \/ dirty' = dirty
      \/ dirty = None /\ dirty' = writes[1].state /\ writes' = <<>> /\ ~dead
  BY <1>1 DEF WriteFails, restoreFailedSnapshot
<1>5. dead => UNCHANGED <<dirty, timer>>
  BY DEF WriteFails, restoreFailedSnapshot
<1>6. TypeOK'
  <2>1. {sent', dead', playing', gone', doubt'} \subseteq BOOLEAN
    BY <1>1, Zenon DEF TypeOK
  <2>2. timer' \in BOOLEAN
    BY Zenon DEF WriteFails, restoreFailedSnapshot, ScheduleFlush, TypeOK
  <2>3. writes' \in Seq([state : State, waiters : SUBSET Waiter])
    BY <1>3 DEF Write
  <2>4. /\ clock' \in 0..MaxState
        /\ {game', dirty', store', opState', acked'} \subseteq 0..MaxState
        /\ stops' \in 0..MaxStops
    BY <1>1, <1>2, <1>3, <1>4, BoundsAssumption DEF TypeOK, State
  <2>5. timer' => dirty' # None /\ ~dead'
    <3>1. CASE dead
      BY <1>1, <1>5, <3>1 DEF TypeOK
    <3>2. CASE ~dead
      <4>1. timer' => timer \/ dirty' # None
        BY <3>2, Zenon DEF WriteFails, restoreFailedSnapshot, ScheduleFlush
      <4>2. timer => dirty # None
        BY DEF TypeOK
      <4>3. dirty # None => dirty' # None
        BY <1>4
      <4>4. ~dead'
        BY <1>1, <3>2
      <4> QED
        BY <4>1, <4>2, <4>3, <4>4
    <3> QED
      BY <3>1, <3>2
  <2> QED
    BY <1>1, <1>2, <2>1, <2>2, <2>3, <2>4, <2>5 DEF TypeOK
<1>7. /\ Rising'
      /\ \A i \in DOMAIN writes' :
           /\ \E j \in DOMAIN writes : writes'[i] = writes[j]
           /\ writes[1].state <= writes'[i].state
  BY <1>1, TailInOrder DEF InOrder
<1>8. InOrder'
  BY <1>1, <1>3, <1>4, <1>7, Typed DEF InOrder, Newest
<1>9. WaitsForItsState'
  BY <1>1, <1>2, TailWaits
<1>10. op = "starting" /\ "op" \notin writes[1].waiters => writes' # <<>>
  <2> SUFFICES ASSUME op = "starting", "op" \notin writes[1].waiters PROVE Len(writes') # 0
    OBVIOUS
  <2>1. Len(writes) # 1
    BY <1>3 DEF WaitsForItsState
  <2> QED
    BY <1>3, <2>1
<1>11. (LockHolderKnows /\ NothingBeforeRestore /\ DeletedIsOver /\ AckedIsStored)'
  BY <1>1, <1>2, <1>3, <1>4, <1>10, Typed DEF LockHolderKnows, NothingBeforeRestore, DeletedIsOver, AckedIsStored, InOrder, Quiet, Starting
<1> QED
  BY <1>6, <1>8, <1>9, <1>11

LEMMA SendWriteKeeps == IInv /\ SendWrite => IInv'
<1> SUFFICES ASSUME IInv, SendWrite PROVE IInv'
  OBVIOUS
<1> USE DEF IInv
<1>1. /\ writes # <<>>
      /\ UNCHANGED <<clock, game, dirty, timer, dead, store, playing, opState, stops, gone, doubt>>
  BY DEF SendWrite
<1>2. CASE ~dead
  <2>1. sent' = TRUE /\ UNCHANGED <<writes, op, phase, acked>>
    BY <1>2 DEF SendWrite
  <2>2. TypeOK'
    <3>1. {timer', sent', dead', playing', gone', doubt'} \subseteq BOOLEAN
      BY <1>1, <2>1, Zenon DEF TypeOK
    <3> QED
      BY <1>1, <2>1, <3>1 DEF TypeOK
  <2>3. InOrder' /\ WaitsForItsState'
    BY <1>1, <2>1 DEF InOrder, Rising, Newest, WaitsForItsState
  <2>4. (LockHolderKnows /\ NothingBeforeRestore /\ DeletedIsOver /\ AckedIsStored)'
    BY <1>1, <2>1 DEF LockHolderKnows, NothingBeforeRestore, DeletedIsOver, AckedIsStored, Quiet
  <2> QED
    BY <2>2, <2>3, <2>4
<1>3. CASE dead
  <2>1. writes' = Tail(writes) /\ sent' = FALSE /\ Tell(writes[1].waiters, TRUE)
    BY <1>3 DEF SendWrite
  <2>2. /\ op' \in Op /\ phase' \in Phase
        /\ IF "op" \in writes[1].waiters
           THEN op = "flushing" /\ op' = "idle"
           ELSE op' = op
        /\ acked' = acked
    BY <1>1, <1>3, <2>1, Told DEF LockHolderKnows
  <2>3. writes' \in Seq(Write)
    BY <1>1, <2>1, OtherWrites
  <2>4. TypeOK'
    <3>1. {timer', sent', dead', playing', gone', doubt'} \subseteq BOOLEAN
      BY <1>1, <2>1, Zenon DEF TypeOK
    <3> QED
      BY <1>1, <2>1, <2>2, <2>3, <3>1 DEF TypeOK, Write
  <2>5. /\ Rising'
        /\ \A i \in DOMAIN writes' : \E j \in DOMAIN writes : writes'[i] = writes[j]
    BY <1>1, <2>1, TailInOrder DEF InOrder
  <2>6. InOrder'
    BY <1>1, <2>1, <2>5, Typed DEF InOrder, Newest
  <2>7. WaitsForItsState'
    BY <1>1, <2>1, <2>2, TailWaits
  <2>8. (LockHolderKnows /\ NothingBeforeRestore /\ DeletedIsOver /\ AckedIsStored)'
    BY <1>1, <1>3, <2>1, <2>2 DEF LockHolderKnows, NothingBeforeRestore, DeletedIsOver, AckedIsStored, Quiet, Starting
  <2> QED
    BY <2>4, <2>6, <2>7, <2>8
<1> QED
  BY <1>2, <1>3

LEMMA FlushAllPassKeeps == IInv /\ FlushAllPass => IInv'
<1> SUFFICES ASSUME IInv, FlushAllPass PROVE IInv'
  OBVIOUS
<1> USE DEF IInv
<1>1. /\ timer' = FALSE /\ dirty' = None
      /\ writes' = IF dirty # None THEN Enqueued(dirty, {"all"}) ELSE Waited("all")
      /\ UNCHANGED <<clock, sent, dead, store, playing, process, history>>
  BY DEF FlushAllPass, flushNow, Waited
<1>2. {timer', sent', dead', playing', gone', doubt'} \subseteq BOOLEAN
  BY <1>1, Zenon DEF TypeOK, process, history
<1>5. /\ clock' \in 0..MaxState
      /\ {game', dirty', store', opState', acked'} \subseteq 0..MaxState
  BY <1>1, BoundsAssumption DEF TypeOK, process, history, None
<1>3. CASE dirty # None
  <2>1. /\ writes' = Enqueued(dirty, {"all"}) /\ dirty \in State
        /\ {"all"} \in SUBSET Waiter
    BY <1>1, <1>3, BoundsAssumption DEF TypeOK, State, Waiter, None
  <2>2. writes' \in Seq([state : State, waiters : SUBSET Waiter]) /\ writes' # <<>>
    BY <2>1, EnqueuedWrites DEF Write
  <2>3. TypeOK'
    BY <1>1, <1>2, <1>5, <2>2 DEF TypeOK, process
  <2>4. /\ Rising'
        /\ \A i \in DOMAIN writes' : store' <= writes'[i].state /\ writes'[i].state <= Newest'
    <3>1. /\ store' \in Nat /\ Newest' \in Nat /\ store' <= dirty /\ dirty <= Newest'
          /\ \A i \in DOMAIN writes : store' <= writes[i].state /\ writes[i].state <= dirty
      BY <1>1, <1>3, Typed DEF InOrder, Newest, process
    <3> QED
      BY <2>1, <3>1, ChainedInOrder DEF InOrder
  <2>5. InOrder'
    BY <1>1, <2>4, Typed DEF InOrder, Newest, None, process
  <2>6. WaitsForItsState'
    BY <1>1, <1>3, <2>1, ChainedWaits DEF LockHolderKnows, process
  <2>7. (LockHolderKnows /\ NothingBeforeRestore /\ DeletedIsOver /\ AckedIsStored)'
    BY <1>1, <1>3 DEF LockHolderKnows, NothingBeforeRestore, DeletedIsOver, AckedIsStored, Quiet, process, history
  <2> QED
    BY <2>3, <2>5, <2>6, <2>7
<1>4. CASE dirty = None
  <2>1. /\ writes' = Waited("all")
        /\ writes' \in Seq(Write) /\ Len(writes') = Len(writes) /\ DOMAIN writes' = DOMAIN writes
        /\ \A i \in DOMAIN writes :
             /\ writes'[i].state = writes[i].state
             /\ "op" \in writes'[i].waiters <=> "op" \in writes[i].waiters
        /\ writes = <<>> <=> writes' = <<>>
        /\ writes # <<>> => Len(writes) \in DOMAIN writes
    <3>1. "all" \in Waiter
      BY DEF Waiter
    <3>2. writes' = Waited("all")
      BY <1>1, <1>4
    <3>3. writes \in Seq(Write) /\ Len(writes) \in Nat /\ DOMAIN writes = 1..Len(writes)
      BY WritesTyped
    <3>4. writes = <<>> <=> writes' = <<>>
      BY <3>1, <3>2, <3>3, WaitedWrites
    <3> QED
      BY <3>1, <3>2, <3>3, <3>4, WaitedWrites
  <2>2. TypeOK'
    <3>1. writes' \in Seq([state : State, waiters : SUBSET Waiter])
      BY <2>1 DEF Write
    <3>2. sent' => writes' # <<>>
      BY <1>1, <2>1 DEF TypeOK
    <3> QED
      BY <1>1, <1>2, <1>5, <3>1, <3>2 DEF TypeOK, process
  <2>3. InOrder'
    BY <1>1, <1>4, <2>1 DEF InOrder, Rising, Newest, process
  <2>4. WaitsForItsState'
    BY <1>1, <2>1 DEF WaitsForItsState, process
  <2>5. (LockHolderKnows /\ NothingBeforeRestore /\ DeletedIsOver /\ AckedIsStored)'
    BY <1>1, <1>4, <2>1 DEF LockHolderKnows, NothingBeforeRestore, DeletedIsOver, AckedIsStored, Quiet, process, history
  <2> QED
    BY <2>2, <2>3, <2>4, <2>5
<1> QED
  BY <1>3, <1>4

(* The process is over: of the store only what was on its way is news.      *)
LEMMA ResetKeeps ==
    ASSUME IInv, Reset, stops' \in 0..MaxStops,
           store' = store \/ (writes # <<>> /\ store' = writes[1].state)
    PROVE  IInv'
<1> USE DEF IInv
<1>1. /\ game' = None /\ dirty' = None /\ timer' = FALSE /\ writes' = <<>>
      /\ sent' = FALSE /\ dead' = FALSE /\ op' = "idle" /\ opState' = None
      /\ phase' = "up" /\ UNCHANGED <<clock, playing, acked, gone, doubt>>
  BY DEF Reset
<1>2. /\ store' \in 0..MaxState /\ store <= store' /\ store' <= clock
  <2>1. writes # <<>> => 1 \in DOMAIN writes /\ writes[1] \in Write
    BY OtherWrites
  <2> QED
    BY <2>1, Typed, BoundsAssumption DEF TypeOK, State, Write, InOrder, Newest
<1>3. acked # None => acked <= store'
  BY <1>2, Typed, BoundsAssumption DEF AckedIsStored
<1>4. gone => store' = None
  BY DEF DeletedIsOver, Quiet
<1>5. {timer', sent', dead', playing', gone', doubt'} \subseteq BOOLEAN
  BY <1>1, Zenon DEF TypeOK
<1>6. TypeOK'
  <2>1. writes' \in Seq([state : State, waiters : SUBSET Waiter])
    BY <1>1
  <2>2. op' \in Op /\ phase' \in Phase
    BY <1>1 DEF Op, Phase
  <2>3. /\ clock' \in 0..MaxState
        /\ {game', dirty', store', opState', acked'} \subseteq 0..MaxState
    BY <1>1, <1>2, BoundsAssumption DEF TypeOK, None
  <2> QED
    BY <1>1, <1>5, <2>1, <2>2, <2>3 DEF TypeOK
<1>7. InOrder'
  BY <1>1, <1>2, Typed DEF InOrder, Rising, Newest, None
<1>8. WaitsForItsState'
  BY <1>1 DEF WaitsForItsState
<1>9. (LockHolderKnows /\ NothingBeforeRestore /\ DeletedIsOver /\ AckedIsStored)'
  BY <1>1, <1>3, <1>4 DEF LockHolderKnows, NothingBeforeRestore, DeletedIsOver, AckedIsStored, Quiet, Starting
<1> QED
  BY <1>6, <1>7, <1>8, <1>9

LEMMA CrashKeeps == IInv /\ Crash => IInv'
<1> SUFFICES ASSUME IInv, Crash PROVE IInv'
  OBVIOUS
<1>1. stops' \in 0..MaxStops
  BY BoundsAssumption DEF Crash, Reset, IInv, TypeOK
<1>2. store' = store \/ (writes # <<>> /\ store' = writes[1].state)
  BY DEF Crash, IInv, TypeOK
<1> QED
  BY <1>1, <1>2, ResetKeeps DEF Crash

LEMMA ExitKeeps == IInv /\ StopsLeft /\ (Exit \/ ExitFailed) => IInv'
<1> SUFFICES ASSUME IInv, StopsLeft, Exit \/ ExitFailed PROVE IInv'
  OBVIOUS
<1>1. phase # "up" /\ Reset
  BY DEF Exit, ExitFailed
<1>2. stops' \in 0..MaxStops
  BY <1>1, BoundsAssumption DEF Reset, StopsLeft, IInv, TypeOK
<1>3. store' = store \/ (writes # <<>> /\ store' = writes[1].state)
  BY DEF Exit, ExitFailed, IInv, TypeOK
<1> QED
  BY <1>1, <1>2, <1>3, ResetKeeps

LEMMA StopsLeftKept == IInv /\ StopsLeft /\ Next => StopsLeft'
<1> SUFFICES ASSUME IInv, StopsLeft, Next PROVE StopsLeft'
  OBVIOUS
<1> USE DEF IInv
<1>1. CASE Crash \/ Exit \/ ExitFailed
  BY <1>1 DEF Crash, Exit, ExitFailed, Reset, StopsLeft
<1>2. CASE BeginShutdown
  BY <1>2 DEF BeginShutdown, StopsLeft
<1>3. CASE FlushAllPass \/ Drain \/ Drained
  BY <1>3 DEF FlushAllPass, flushingAll, Drain, Drained, StopsLeft, process
<1>4. CASE flush \/ PlayAndFlush \/ StartGame \/ DeleteFails
  <2>1. UNCHANGED <<phase, stops>>
    BY <1>4 DEF flush, PlayAndFlush, StartGame, DeleteFails, process
  <2>2. PICK s \in State, w \in SUBSET {"op"} :
            writes' = Enqueued(s, w) \/ writes' = writes
    <3>1. CASE flush
      <4>1. dirty # None => dirty \in State
        BY BoundsAssumption DEF TypeOK, State, None
      <4> QED
        BY <3>1, <4>1 DEF flush, TypeOK
    <3>2. CASE PlayAndFlush \/ StartGame
      <4>1. clock' \in State
        BY <3>2, BoundsAssumption DEF PlayAndFlush, StartGame, TypeOK, State
      <4> QED
        BY <3>2, <4>1 DEF PlayAndFlush, StartGame, MarkAndFlush
    <3>3. CASE DeleteFails
      <4>1. game \in State
        BY <3>3, BoundsAssumption DEF DeleteFails, TypeOK, State, None, LockHolderKnows
      <4> QED
        BY <3>3, <4>1 DEF DeleteFails, MarkAndFlush
    <3> QED
      BY <1>4, <3>1, <3>2, <3>3
  <2>3. CASE writes' = writes
    BY <2>1, <2>3 DEF StopsLeft
  <2>4. CASE writes' = Enqueued(s, w)
    <3>1. w \in SUBSET Waiter /\ "all" \notin w
      BY DEF Waiter
    <3>2. /\ DOMAIN writes' = 1..(Len(writes) + 1) /\ DOMAIN writes = 1..Len(writes)
          /\ \A i \in 1..Len(writes) : writes'[i] = writes[i]
          /\ writes'[Len(writes) + 1].waiters = w /\ Len(writes) \in Nat
      BY <2>4, <3>1, EnqueuedWrites, WritesTyped
    <3> QED
      BY <2>1, <3>1, <3>2 DEF StopsLeft
  <2> QED
    BY <2>2, <2>3, <2>4
<1>5. CASE SendWrite \/ WriteSucceeds \/ WriteFails
  <2>1. stops' = stops
    BY <1>5 DEF SendWrite, WriteSucceeds, WriteFails
  <2>2. CASE stops < MaxStops
    BY <2>1, <2>2 DEF StopsLeft
  <2>3. CASE phase = "up" /\ \A i \in DOMAIN writes : "all" \notin writes[i].waiters
    <3>1. writes # <<>>
      BY <1>5 DEF SendWrite, WriteSucceeds, WriteFails, TypeOK
    <3>2. "all" \notin writes[1].waiters
      BY <2>3, <3>1, OtherWrites
    <3>3. phase' = "up"
      BY <1>5, <2>3, <3>2 DEF SendWrite, WriteSucceeds, WriteFails, Tell
    <3>4. CASE writes' = writes
      BY <2>3, <3>3, <3>4 DEF StopsLeft
    <3>5. CASE writes' = Tail(writes)
      BY <2>3, <3>1, <3>3, <3>5, TailInOrder DEF StopsLeft, InOrder
    <3> QED
      BY <1>5, <3>4, <3>5 DEF SendWrite, WriteSucceeds, WriteFails
  <2> QED
    BY <2>2, <2>3 DEF StopsLeft
<1>6. CASE \/ TombstoneExpires \/ Play \/ PlayAndFlushDead \/ CommitStart
           \/ CommitFails \/ UndoStart \/ StartUndone \/ Teardown \/ Delete
           \/ DeleteSucceeds \/ DeleteUnknown \/ Restore
  <2>1. UNCHANGED <<writes, phase, stops>>
    BY <1>6 DEF TombstoneExpires, Play, PlayAndFlushDead, CommitStart, CommitFails,
       UndoStart, StartUndone, Teardown, Delete, DeleteSucceeds, DeleteUnknown,
       Restore, process
  <2> QED
    BY <2>1 DEF StopsLeft
<1> QED
  BY <1>1, <1>2, <1>3, <1>4, <1>5, <1>6 DEF Next, Writes, Lifecycle, Shutdown

LEMMA InitInv == Init => IInv /\ StopsLeft
<1> SUFFICES ASSUME Init PROVE IInv /\ StopsLeft
  OBVIOUS
<1>1. TypeOK
  <2>1. {timer, sent, dead, playing, gone, doubt} \subseteq BOOLEAN
    BY Zenon DEF Init
  <2>2. writes = <<>> /\ <<>> \in Seq([state : State, waiters : SUBSET Waiter])
    BY DEF Init
  <2>3. /\ clock \in 0..MaxState
        /\ {game, dirty, store, opState, acked} \subseteq 0..MaxState
        /\ stops \in 0..MaxStops
    BY BoundsAssumption DEF Init, None
  <2>4. op \in Op /\ phase \in Phase
    BY DEF Init, Op, Phase
  <2>5. (sent => writes # <<>>) /\ (timer => dirty # None /\ ~dead)
    BY DEF Init
  <2> QED
    BY <2>1, <2>2, <2>3, <2>4, <2>5 DEF TypeOK
<1>2. DOMAIN writes = {}
  BY DEF Init
<1>3. InOrder /\ WaitsForItsState
  BY <1>2 DEF Init, InOrder, Rising, Newest, WaitsForItsState, None
<1>4. LockHolderKnows /\ NothingBeforeRestore /\ DeletedIsOver /\ AckedIsStored
  BY DEF Init, LockHolderKnows, NothingBeforeRestore, DeletedIsOver, AckedIsStored,
     Quiet, Starting, None
<1>5. StopsLeft
  BY <1>2 DEF Init, StopsLeft
<1> QED
  BY <1>1, <1>3, <1>4, <1>5 DEF IInv

LEMMA NextInv == IInv /\ StopsLeft /\ [Next]_vars => IInv' /\ StopsLeft'
<1> SUFFICES ASSUME IInv, StopsLeft, [Next]_vars PROVE IInv' /\ StopsLeft'
  OBVIOUS
<1>1. CASE UNCHANGED vars
  <2>1. TypeOK'
    BY <1>1 DEF vars, IInv, TypeOK
  <2> QED
    BY <1>1, <2>1 DEF vars, IInv, InOrder, Rising, Newest, WaitsForItsState,
       LockHolderKnows, NothingBeforeRestore, DeletedIsOver, AckedIsStored, Quiet,
       StopsLeft
<1>2. CASE Next
  <2>1. StopsLeft'
    BY <1>2, StopsLeftKept
  <2>2. Play \/ PlayAndFlush \/ PlayAndFlushDead => IInv'
    BY PlayKeeps, PlayAndFlushKeeps, PlayAndFlushDeadKeeps
  <2>3. Writes => IInv'
    BY flushKeeps, SendWriteKeeps, WriteSucceedsKeeps, WriteFailsKeeps,
       TombstoneExpiresKeeps DEF Writes
  <2>4. Lifecycle => IInv'
    BY StartGameKeeps, CommitStartKeeps, CommitFailsKeeps, UndoStartKeeps,
       StartUndoneKeeps, TeardownKeeps, DeleteKeeps, DeleteSucceedsKeeps,
       DeleteFailsKeeps, DeleteUnknownKeeps, RestoreKeeps DEF Lifecycle
  <2>5. Shutdown => IInv'
    BY CrashKeeps, BeginShutdownKeeps, FlushAllPassKeeps, DrainKeeps,
       DrainedKeeps, ExitKeeps DEF Shutdown
  <2> QED
    BY <1>2, <2>1, <2>2, <2>3, <2>4, <2>5 DEF Next
<1> QED
  BY <1>1, <1>2

LEMMA AlwaysInv == Spec => [](IInv /\ StopsLeft)
<1> QED
  BY InitInv, NextInv, PTL DEF Spec

-----------------------------------------------------------------------------
(* The persister's variables keep their types: a timer runs only over a     *)
(* snapshot that is dirty in a room that is not dead (scheduleFlush,        *)
(* flushNow, cleanup).                                                      *)
THEOREM TypeCorrect == Spec => []TypeOK
<1>1. IInv /\ StopsLeft => TypeOK
  BY DEF IInv
<1> QED
  BY <1>1, AlwaysInv, PTL

(* What a handler awaited with flushNow stays in the store, or something    *)
(* newer does: no retry of a failed write, no write still in flight at a    *)
(* crash and no restart puts an older snapshot in its place.                *)
THEOREM AckedStaysStored == Spec => []AckedIsStored
<1>1. IInv /\ StopsLeft => AckedIsStored
  BY DEF IInv
<1> QED
  BY <1>1, AlwaysInv, PTL

(* After cleanup, its barrier and a confirmed deletion no write that was    *)
(* chained, retried or in flight brings the snapshot back.                  *)
THEOREM DeletedStaysAway == Spec => []DeletedStaysDeleted
<1>1. IInv /\ StopsLeft => DeletedStaysDeleted
  BY DEF IInv, DeletedIsOver, DeletedStaysDeleted
<1> QED
  BY <1>1, AlwaysInv, PTL

-----------------------------------------------------------------------------
(* What the store will hold when nothing is on its way any more.            *)
Tip ==
    IF dirty # None THEN dirty
    ELSE IF writes # <<>> THEN writes[Len(writes)].state ELSE store

Live == game # None /\ ~doubt /\ op \notin {"cleaning", "deleting"}

(* The newest state of a live game is on its way, and whoever flushes last  *)
(* is alone.                                                                *)
NewestOnItsWay ==
    /\ Live => ~dead /\ Tip = game
    /\ op = "committing" \/ (game = None /\ playing) => ~dead
    /\ phase = "lastFlush" => op = "idle"

LEMMA MarkedIsTip ==
    ASSUME TypeOK, NEW s \in State, MarkAndFlush(s)
    PROVE  Tip' = s
<1>1. writes' = Enqueued(s, {"op"}) /\ dirty' = None
  BY DEF MarkAndFlush
<1>2. {"op"} \in SUBSET Waiter
  BY DEF Waiter
<1>3. writes' # <<>> /\ writes'[Len(writes')].state = s
  BY <1>1, <1>2, EnqueuedWrites, WritesTyped
<1> QED
  BY <1>1, <1>3 DEF Tip

LEMMA FlushedTip ==
    ASSUME TypeOK, flush \/ FlushAllPass
    PROVE  Tip' = Tip
<1>1. CASE dirty # None
  <2>1. dirty \in State
    BY <1>1, BoundsAssumption DEF TypeOK, State, None
  <2>2. PICK w \in SUBSET Waiter : writes' = Enqueued(dirty, w)
    BY <1>1 DEF flush, FlushAllPass, flushNow, Waiter
  <2>3. writes' # <<>> /\ writes'[Len(writes')].state = dirty
    BY <2>1, <2>2, EnqueuedWrites, WritesTyped
  <2>4. dirty' = None
    BY DEF flush, FlushAllPass, flushNow
  <2> QED
    BY <1>1, <2>3, <2>4 DEF Tip
<1>2. CASE dirty = None
  <2>1. dirty' = None /\ store' = store
    BY DEF flush, FlushAllPass, flushNow
  <2>2. CASE flush
    BY <1>2, <2>1, <2>2 DEF flush, Tip
  <2>3. CASE FlushAllPass
    <3>1. writes' = Waited("all") /\ "all" \in Waiter
      BY <1>2, <2>3 DEF FlushAllPass, flushNow, Waited, Waiter
    <3>2. /\ Len(writes') = Len(writes) /\ (writes = <<>> => writes' = <<>>)
          /\ writes' \in Seq(Write)
          /\ \A i \in DOMAIN writes : writes'[i].state = writes[i].state
      BY <3>1, WaitedWrites
    <3>3. writes # <<>> => Len(writes) \in Nat \ {0}
      BY WritesTyped, EmptySeq
    <3>4. writes # <<>> => writes' # <<>> /\ Len(writes) \in DOMAIN writes
      <4>1. Len(<<>>) = 0
        BY EmptySeq
      <4> QED
        BY <3>2, <3>3, <4>1, WritesTyped
    <3>5. CASE writes = <<>>
      BY <1>2, <2>1, <3>2, <3>5 DEF Tip
    <3>6. CASE writes # <<>>
      <4>1. writes'[Len(writes')].state = writes[Len(writes)].state
        BY <3>2, <3>4, <3>6
      <4> QED
        BY <1>2, <2>1, <3>4, <3>6, <4>1 DEF Tip
    <3> QED
      BY <3>5, <3>6
  <2> QED
    BY <2>2, <2>3
<1> QED
  BY <1>1, <1>2

LEMMA OverTip ==
    ASSUME IInv, ~dead, WriteSucceeds \/ WriteFails
    PROVE  Tip' = Tip
<1> USE DEF IInv
<1>1. writes # <<>> /\ writes' = Tail(writes)
  BY DEF WriteSucceeds, WriteFails, TypeOK
<1>2. /\ Len(writes') = Len(writes) - 1 /\ Len(writes) \in Nat /\ Len(writes) >= 1
      /\ \A i \in 1..(Len(writes) - 1) : writes'[i] = writes[i + 1]
      /\ writes' \in Seq(Write) /\ writes[1].state \in Nat \ {None}
  BY <1>1, OtherWrites, Typed
<1>3. CASE Len(writes) = 1
  <2>1. writes' = <<>>
    BY <1>2, <1>3, EmptySeq
  <2>2. CASE WriteSucceeds
    BY <1>1, <1>3, <2>1, <2>2 DEF WriteSucceeds, Tip
  <2>3. CASE WriteFails
    <3>1. dirty' = IF dirty = None THEN writes[1].state ELSE dirty
      BY <1>1, <2>1, <2>3 DEF WriteFails, restoreFailedSnapshot
    <3> QED
      BY <1>1, <1>2, <1>3, <3>1 DEF Tip
  <2> QED
    BY <2>2, <2>3
<1>4. CASE Len(writes) > 1
  <2>1. writes' # <<>>
    <3>1. Len(writes') # 0 /\ Len(<<>>) = 0
      BY <1>2, <1>4, EmptySeq
    <3> QED
      BY <3>1
  <2>2. writes'[Len(writes')] = writes[Len(writes)]
    BY <1>2, <1>4
  <2>3. dirty' = dirty
    BY <1>1, <2>1 DEF WriteSucceeds, WriteFails, restoreFailedSnapshot
  <2> QED
    BY <1>1, <2>1, <2>2, <2>3 DEF Tip
<1> QED
  BY <1>2, <1>3, <1>4

LEMMA NewestKept ==
    ASSUME IInv, NewestOnItsWay, [Next]_vars
    PROVE  NewestOnItsWay'
<1> USE DEF IInv, NewestOnItsWay
<1>1. CASE UNCHANGED vars
  BY <1>1 DEF vars, Live, Tip
<1>2. CASE CommitFails \/ BeginShutdown \/ Drain \/ Drained
  BY <1>2 DEF CommitFails, BeginShutdown, Drain, Drained, Live, Tip, history,
     LockHolderKnows, Starting
<1>3. CASE flush \/ FlushAllPass
  <2>1. Tip' = Tip
    BY <1>3, FlushedTip
  <2> QED
    BY <1>3, <2>1 DEF flush, FlushAllPass, Live, process, history
<1>4. CASE Play
  <2>1. clock' \in Nat /\ clock' # None
    BY <1>4, Typed DEF Play, None
  <2>2. Live' => Live
    BY <1>4 DEF Play, Live, history
  <2>3. Live => Tip' = game'
    BY <1>4, <2>1 DEF Play, markDirty, Tip
  <2> QED
    BY <1>4, <2>1, <2>2, <2>3 DEF Play
<1>5. CASE PlayAndFlush \/ StartGame \/ DeleteFails
  <2>1. CASE PlayAndFlush \/ StartGame
    <3>1. clock' \in State /\ MarkAndFlush(clock')
      BY <2>1, BoundsAssumption DEF PlayAndFlush, StartGame, TypeOK, State
    <3>2. Tip' = clock'
      BY <3>1, MarkedIsTip
    <3> QED
      BY <2>1, <3>2 DEF PlayAndFlush, StartGame, Live, Admitted, history
  <2>2. CASE DeleteFails
    <3>1. game \in State
      BY <2>2, BoundsAssumption DEF DeleteFails, TypeOK, State, None, LockHolderKnows
    <3>2. Tip' = game
      BY <2>2, <3>1, MarkedIsTip DEF DeleteFails
    <3> QED
      BY <2>2, <3>1, <3>2 DEF DeleteFails
  <2> QED
    BY <1>5, <2>1, <2>2
<1>6. CASE SendWrite \/ WriteSucceeds \/ WriteFails
  <2>1. writes # <<>> /\ \E ok \in BOOLEAN : Tell(writes[1].waiters, ok) \/ UNCHANGED <<op, phase>>
    BY <1>6 DEF SendWrite, WriteSucceeds, WriteFails, TypeOK
  <2>2. /\ op' \in {"cleaning", "deleting"} <=> op \in {"cleaning", "deleting"}
        /\ phase' = "lastFlush" => phase = "lastFlush"
        /\ op = "idle" => op' = "idle"
        /\ op' = "committing" => op \in {"starting", "committing"}
    BY <2>1 DEF Tell
  <2>3. UNCHANGED <<game, dead, playing, doubt>>
    BY <1>6 DEF SendWrite, WriteSucceeds, WriteFails
  <2>4. ~dead => Tip' = Tip
    <3>1. SendWrite /\ ~dead => Tip' = Tip
      BY DEF SendWrite, Tip
    <3> QED
      BY <1>6, <3>1, OverTip
  <2> QED
    BY <2>2, <2>3, <2>4 DEF Live, LockHolderKnows
<1>7. CASE Crash \/ Exit \/ ExitFailed
  BY <1>7 DEF Crash, Exit, ExitFailed, Reset, Live
<1>8. CASE TombstoneExpires \/ PlayAndFlushDead
  <2>1. ~Live
    BY <1>8 DEF TombstoneExpires, PlayAndFlushDead
  <2>2. CASE TombstoneExpires
    BY <2>1, <2>2 DEF TombstoneExpires, Live, process, history
  <2>3. CASE PlayAndFlushDead
    <3>1. doubt'
      BY <2>1, <2>3 DEF PlayAndFlushDead, Admitted, Live, history
    <3>2. game' # None
      BY <2>3, Typed DEF PlayAndFlushDead, None
    <3>3. op' = op /\ op = "idle"
      BY <2>3 DEF PlayAndFlushDead, Admitted
    <3> QED
      BY <3>1, <3>2, <3>3 DEF Live
  <2> QED
    BY <1>8, <2>2, <2>3
<1>9. CASE CommitStart
  <2>1. writes = <<>> /\ dirty = None /\ store = opState /\ ~dead
    BY <1>9 DEF CommitStart, LockHolderKnows, Quiet
  <2>2. Tip' = game'
    BY <1>9, <2>1 DEF CommitStart, Tip
  <2> QED
    BY <1>9, <2>1, <2>2 DEF CommitStart
<1>10. CASE Restore
  <2>1. writes = <<>> /\ dirty = None /\ ~dead
    BY <1>10 DEF Restore, NothingBeforeRestore, Quiet
  <2>2. Tip' = game'
    BY <1>10, <2>1 DEF Restore, Tip
  <2> QED
    BY <1>10, <2>1, <2>2 DEF Restore, Admitted
<1>11. CASE UndoStart \/ StartUndone
  BY <1>11 DEF UndoStart, StartUndone, LockHolderKnows, Starting, Live
<1>12. CASE Teardown \/ Delete \/ DeleteSucceeds \/ DeleteUnknown
  BY <1>12 DEF Teardown, Delete, DeleteSucceeds, DeleteUnknown, Admitted, Live,
     LockHolderKnows
<1> QED
  BY <1>1, <1>2, <1>3, <1>4, <1>5, <1>6, <1>7, <1>8, <1>9, <1>10, <1>11, <1>12
     DEF Next, Writes, Lifecycle, Shutdown

(* A graceful shutdown that reports success has stored the newest state of  *)
(* a live game: flushAll's second pass meets no write it does not wait for  *)
(* and no handler that could still play.                                    *)
THEOREM ExitIsSaved == Spec => ExitSavesAll
<1>1. Init => NewestOnItsWay
  BY DEF Init, NewestOnItsWay, Live
<1>2. IInv /\ NewestOnItsWay /\ [Next]_vars => NewestOnItsWay'
  BY NewestKept
<1>3. NewestOnItsWay /\ [Next]_vars =>
          [Exit /\ game # None /\ ~doubt => store = game]_vars
  BY DEF NewestOnItsWay, Exit, Flushed, Live, Tip
<1> QED
  BY <1>1, <1>2, <1>3, AlwaysInv, PTL DEF Spec, ExitSavesAll

-----------------------------------------------------------------------------
LEMMA SnapshotsAreNewer ==
    ASSUME IInv
    PROVE  writes # <<>> => writes[1].state \in Saved!Newer
<1>1. 1 \in DOMAIN writes \/ writes = <<>>
  BY OtherWrites DEF IInv
<1>2. Newest <= clock
  BY Typed DEF IInv, InOrder, Newest
<1>3. ASSUME writes # <<>>
      PROVE  writes[1].state \in Saved!Newer
  <2>1. writes[1].state \in Nat /\ writes[1].state # None /\ clock \in Nat
    BY <1>1, <1>3, Typed DEF IInv
  <2>2. store <= writes[1].state /\ writes[1].state <= Newest
    BY <1>1, <1>3 DEF IInv, InOrder
  <2>3. Newest \in Nat
    BY Typed DEF IInv, Newest
  <2> QED
    BY <1>2, <2>1, <2>2, <2>3 DEF Saved!Newer, None
<1> QED
  BY <1>3

(* Every step of the persister is one of SavedGame's, or none.              *)
LEMMA StepRefines ==
    ASSUME IInv, [Next]_vars
    PROVE  [Saved!Next]_(Saved!savedVars)
<1> USE DEF IInv, None, Saved!None
<1>1. gone => store = None /\ game = None /\ op = "idle" /\ ~playing /\ writes = <<>>
  BY DEF DeletedIsOver, Quiet
<1>2. gone \in BOOLEAN
  BY DEF TypeOK
<1>3. CASE \/ UNCHANGED vars \/ flush \/ SendWrite \/ TombstoneExpires \/ CommitFails
           \/ UndoStart \/ Teardown \/ Delete \/ BeginShutdown \/ FlushAllPass
           \/ Drain \/ Drained
  BY <1>3 DEF vars, flush, SendWrite, TombstoneExpires, CommitFails, UndoStart,
     Teardown, Delete, BeginShutdown, FlushAllPass, Drain, Drained, process, history,
     Saved!savedVars
<1>4. CASE Play \/ PlayAndFlush \/ PlayAndFlushDead
  <2>1. gone = FALSE
    BY <1>1, <1>2, <1>4 DEF Play, PlayAndFlush, PlayAndFlushDead
  <2> QED
    BY <1>4, <2>1 DEF Play, PlayAndFlush, PlayAndFlushDead, history, Saved!Change,
       Saved!Next
<1>5. CASE StartGame
  BY <1>5 DEF StartGame, Saved!Change, Saved!Next
<1>6. CASE CommitStart
  BY <1>6 DEF CommitStart, LockHolderKnows, Starting, history, Saved!Open, Saved!Next
<1>7. CASE Restore
  BY <1>7 DEF Restore, Saved!Open, Saved!Next
<1>8. CASE WriteSucceeds \/ WriteFails
  <2>1. writes # <<>> /\ gone = FALSE
    BY <1>1, <1>2, <1>8 DEF WriteSucceeds, WriteFails, TypeOK
  <2>2. store' = store \/ store' \in Saved!Newer
    BY <1>8, <2>1, SnapshotsAreNewer DEF WriteSucceeds, WriteFails
  <2>3. UNCHANGED <<clock, game, gone>>
    BY <1>8 DEF WriteSucceeds, WriteFails
  <2> QED
    BY <2>1, <2>2, <2>3 DEF Saved!Save, Saved!Next, Saved!savedVars
<1>9. CASE StartUndone
  BY <1>9 DEF StartUndone, Saved!Delete, Saved!Next, Saved!savedVars
<1>10. CASE DeleteSucceeds \/ DeleteFails \/ DeleteUnknown
  BY <1>10 DEF DeleteSucceeds, DeleteFails, DeleteUnknown, Saved!Delete, Saved!Next,
     Saved!savedVars
<1>11. CASE Crash \/ Exit \/ ExitFailed
  <2>1. store' = store \/ (sent /\ store' = writes[1].state)
    BY <1>11 DEF Crash, Exit, ExitFailed
  <2>2. store' = store \/ (gone = FALSE /\ store' \in Saved!Newer)
    BY <1>1, <1>2, <2>1, SnapshotsAreNewer DEF TypeOK
  <2>3. game' = None /\ UNCHANGED <<clock, gone>>
    BY <1>11 DEF Crash, Exit, ExitFailed, Reset
  <2> QED
    BY <2>2, <2>3 DEF Saved!Stop, Saved!Next
<1> QED
  BY <1>3, <1>4, <1>5, <1>6, <1>7, <1>8, <1>9, <1>10, <1>11
     DEF Next, Writes, Lifecycle, Shutdown

(* The persister implements SavedGame: whatever timers, retries, failed     *)
(* deletions, shutdowns and crashes do, the store moves forward through     *)
(* states the game was in, and a restart resumes what it holds.             *)
THEOREM SavesGames == Spec => SavesTheGame
<1>1. Init => Saved!Init
  BY DEF Init, Saved!Init, None, Saved!None
<1>2. IInv /\ StopsLeft /\ [Next]_vars => [Saved!Next]_(Saved!savedVars)
  BY StepRefines
<1> QED
  BY <1>1, <1>2, AlwaysInv, PTL DEF Spec, SavesTheGame, Saved!Spec
=============================================================================
