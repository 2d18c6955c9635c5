----------------------------- MODULE RoundTerminal -----------------------------
(***************************************************************************)
(* From the end of a round to the next one: the announcement and what it   *)
(* leaves to retries, the votes, the cooldown, the queue of spectators who *)
(* want to play, the players moved out of the next round, the deal with    *)
(* its rollback, the blitz deadline, the way back to the waiting room, and *)
(* the restoration of a room in the middle of any of it.                   *)
(*                                                                         *)
(* One room, one socket a user.  A handler is one step, it holds the room  *)
(* lock over its awaits; what runs without the lock comes between steps,   *)
(* and a crash may come between a handler's writes to the store.           *)
(***************************************************************************)
EXTENDS Naturals, FiniteSets

CONSTANTS
    Human, Bot, None,
    MinPlayers, MaxPlayers,
    Tables,                                     \* who may sit at the first round
    Blitz,                                      \* blitzTimeLimit is set
    Faults,                                     \* the calls that may fail
    MaxRounds, MaxFails, MaxDrops, MaxCrashes   \* bounds

FaultKinds == {"snapshot", "queue", "status", "governance", "commit", "rollback"}

ASSUME MemberAssumption ==
    /\ IsFiniteSet(Human) /\ IsFiniteSet(Bot)
    /\ Human \cap Bot = {} /\ None \notin Human \cup Bot
    /\ Tables \subseteq SUBSET (Human \cup Bot)
ASSUME BoundAssumption ==
    /\ Blitz \in BOOLEAN /\ Faults \subseteq FaultKinds
    /\ {MinPlayers, MaxPlayers, MaxRounds, MaxFails, MaxDrops, MaxCrashes}
         \subseteq Nat

VARIABLES
    memory,    \* what the process knows of the room
    store,     \* what the store keeps of it
    live,      \* the users whose socket is in the room
    watching,  \* those whose socket is marked isSpectator
    closing,   \* the users with a disconnect handler to come
    late,      \* the blitz deadline has passed
    shown,     \* ghost: the terminal phase the clients were told of
    clicked,   \* ghost: who asked for the next round since the announcement
    kicked,    \* ghost: who was told to sit out, until the next deal
    happened   \* ghost: the failures, the lost sockets and the crashes

vars == <<memory, store, live, watching, closing, late, shown, clicked, kicked,
          happened>>

Phase == {"none", "playing", "round_end", "game_over"}
TerminalRetryKind == {"spectator-owner", "room-status", "owner-transfer"}
Terminal(m) == m.phase \in {"round_end", "game_over"}

NoSnapshot == [phase |-> "none", players |-> {}, out |-> {}, round |-> 0,
               queue |-> {}, excluded |-> {}]

(* The process without a session of the room.                               *)
Down == [phase |-> "none", players |-> {}, connected |-> {}, out |-> {},
         round |-> 0, queue |-> {}, excluded |-> {}, votes |-> {},
         anchor |-> "none", dirty |-> NoSnapshot, retries |-> {},
         transfer |-> None, blitz |-> {}]

Member == Human \cup Bot
SnapshotType == [phase : Phase, players : SUBSET Member, out : SUBSET Member,
                 round : Nat, queue : SUBSET Human, excluded : SUBSET Human]
MemoryType ==
    [phase : Phase, players : SUBSET Member, connected : SUBSET Member,
     out : SUBSET Member, round : Nat, queue : SUBSET Human,
     excluded : SUBSET Human, votes : SUBSET Member,
     anchor : {"none", "hot", "cooled"}, dirty : SnapshotType,
     retries : SUBSET TerminalRetryKind,
     transfer : Human \cup {None}, blitz : SUBSET {"deadline", "timer"}]
StoreType ==
    [game : SnapshotType, seats : SUBSET Member, watchers : SUBSET Human,
     owner : Human, status : {"playing", "finished", "waiting"}]

TypeOK ==
    /\ memory \in MemoryType /\ store \in StoreType
    /\ live \subseteq Human /\ watching \subseteq live /\ closing \subseteq Human
    /\ late \in BOOLEAN /\ shown \in Phase
    /\ clicked \subseteq Human /\ kicked \subseteq Human
    /\ happened \in [fails : 0..MaxFails, drops : 0..MaxDrops,
                     crashes : 0..MaxCrashes]

Fails(kind) == kind \in Faults /\ happened.fails < MaxFails
Failed(n) == happened' = [happened EXCEPT !.fails = @ + n]

-----------------------------------------------------------------------------
(* Snapshots.  A write that fails is tried again by the persister.          *)

createSnapshot(m) ==
    [phase |-> m.phase, players |-> m.players, out |-> m.out, round |-> m.round,
     queue |-> m.queue, excluded |-> m.excluded]

markDirty(m) == [m EXCEPT !.dirty = createSnapshot(m)]
Clean(m) == [m EXCEPT !.dirty = NoSnapshot]
Written(s, m) == [s EXCEPT !.game = createSnapshot(m)]

(* markDirty and flushNow, m being the memory after the change.             *)
Flushed(m) == memory' = Clean(m) /\ store' = Written(store, m)
FlushedOrLeft(m) ==
    \/ Flushed(m) /\ UNCHANGED happened
    \/ Fails("snapshot") /\ Failed(1)
       /\ memory' = markDirty(m) /\ UNCHANGED store

(* The persister's own write, outside the room lock.                        *)
Persist ==
    /\ memory.dirty # NoSnapshot
    /\ memory' = Clean(memory)
    /\ store' = [store EXCEPT !.game = memory.dirty]
    /\ UNCHANGED <<live, watching, closing, late, shown, clicked, kicked, happened>>

-----------------------------------------------------------------------------
(* Votes and the owner.                                                     *)

(* The humans whose click is waited for.                                    *)
Voters(m) == (m.players \cap Human) \ m.out

autoVoteIds(m) ==
    {p \in m.players : p \in Bot \/ p \notin m.connected \/ p \in m.out}

addAutopilotVote(m, u) ==
    IF m.phase = "round_end" THEN [m EXCEPT !.votes = @ \cup {u}] ELSE m

\* Faulty: the vote that was cast for the absent stays his when he is back.
FaultyremovePlayerVote(m, u) == m

removePlayerVote(m, u) == [m EXCEPT !.votes = @ \ {u}]

scheduleOwnerTransfer(m, u) == [m EXCEPT !.transfer = u]

(* Where an absent owner is replaced: at a scoreboard and in a waiting room.*)
Governed(m) == IF m.phase = "none" THEN store.status = "waiting" ELSE Terminal(m)

checkOwnerDisconnectedAtTerminal(m, present) ==
    IF store.owner \in present THEN m ELSE scheduleOwnerTransfer(m, store.owner)

(* The next owner: the first of the seats, else of the spectators.          *)
getEligibleLiveOwner(m, present) ==
    LET able == present \ ({store.owner} \cup m.excluded)
        seated == able \cap store.seats
    IN  IF seated # {} THEN seated ELSE able

(* transferOwnerToLiveMemberUnlocked, after u has left with m in memory and *)
(* s in the store; unable is the memory when nobody can take over.          *)
HandOver(m, unable, s, u) ==
    LET next == getEligibleLiveOwner(m, live \ {u})
    IN  IF s.owner # u THEN memory' = m /\ store' = s
        ELSE IF next = {} THEN memory' = unable /\ store' = s
        ELSE memory' = m /\ \E o \in next : store' = [s EXCEPT !.owner = o]

OwnerTransferTimer ==
    /\ memory.transfer # None
    /\ LET m == [memory EXCEPT !.transfer = None]
           next == getEligibleLiveOwner(memory, live)
       IN  /\ memory' = m
           /\ IF memory.transfer # store.owner \/ store.owner \in live \/ next = {}
              THEN UNCHANGED store
              ELSE \E o \in next : store' = [store EXCEPT !.owner = o]
    /\ UNCHANGED <<live, watching, closing, late, shown, clicked, kicked, happened>>

(* room:transfer_owner                                                      *)
TransferOwner(u) ==
    /\ memory.phase # "none"
    /\ store.owner \in live
    /\ u \in (live \cap store.seats) \ ({store.owner} \cup memory.excluded)
    /\ store' = [store EXCEPT !.owner = u]
    /\ memory' = [memory EXCEPT !.transfer = None]
    /\ UNCHANGED <<live, watching, closing, late, shown, clicked, kicked, happened>>

-----------------------------------------------------------------------------
(* The end of a round.                                                      *)

(* An action ends the round, and maybe the game; with elimination one       *)
(* player is out.                                                           *)
EndRound ==
    /\ memory.phase = "playing"
    /\ \E loser \in SUBSET (memory.players \ memory.out), over \in BOOLEAN :
         LET out == memory.out \cup loser
         IN  /\ Cardinality(loser) <= 1
             /\ Cardinality(memory.players \ out) < 2 \/ memory.round = MaxRounds
                  => over
             /\ memory' = markDirty([memory EXCEPT
                   !.phase = IF over THEN "game_over" ELSE "round_end",
                   !.out = out])
    /\ UNCHANGED <<store, live, watching, closing, late, shown, clicked, kicked,
                   happened>>

(* The owner who watches and may play in the next round.                    *)
OwnerToQueue(m) ==
    /\ m.phase = "round_end"
    /\ store.owner \notin m.players \cup m.excluded \cup m.queue
    /\ Cardinality(m.players) + Cardinality(m.queue) < MaxPlayers
    /\ store.owner \in live \cap watching

autoQueueSpectatorOwnerUnlocked(m) ==
    IF OwnerToQueue(m) THEN [m EXCEPT !.queue = @ \cup {store.owner}] ELSE m

(* The memory after the announcement, fault being the call that fails.      *)
Announced(m, fault) ==
    LET over == m.phase = "game_over"
        m1 == [m EXCEPT !.anchor = "hot",
                        !.votes = IF over THEN @ ELSE autoVoteIds(m),
                        !.blitz = IF over THEN {} ELSE @]
        m2 == CASE fault = "queue" ->
                     [m1 EXCEPT !.retries = @ \cup {"spectator-owner"}]
                [] fault = "status" ->
                     [m1 EXCEPT !.retries = @ \cup {"room-status"}]
                [] OTHER -> m1
        m3 == IF fault = "queue" THEN m2 ELSE autoQueueSpectatorOwnerUnlocked(m2)
        m4 == IF fault = "governance"
              THEN [m3 EXCEPT !.retries = @ \cup {"owner-transfer"}]
              ELSE checkOwnerDisconnectedAtTerminal(m3, live)
    IN  IF fault = "snapshot" THEN markDirty(m4) ELSE Clean(m4)

emitTerminalStateIfNeededUnlocked(m, fault) ==
    IF ~Terminal(m) \/ m.anchor # "none"
    THEN memory' = m /\ UNCHANGED <<store, shown, clicked>>
    ELSE /\ memory' = Announced(m, fault)
         /\ store' = LET s == IF m.phase = "game_over" /\ fault # "status"
                              THEN [store EXCEPT !.status = "finished"] ELSE store
                     IN  IF fault = "snapshot" THEN s
                         ELSE Written(s, Announced(m, fault))
         /\ shown' = m.phase
         /\ clicked' = {}

(* What may go wrong as the announcement is made.                           *)
MayFail(fault) ==
    /\ Fails(fault)
    /\ fault \in {"snapshot", "queue", "status", "governance"}
    /\ fault = "queue" => OwnerToQueue(memory)
    /\ fault = "status" => memory.phase = "game_over"

Announce ==
    /\ Terminal(memory) /\ memory.anchor = "none"
    /\ \/ /\ emitTerminalStateIfNeededUnlocked(memory, "none")
          /\ UNCHANGED happened
       \/ \E fault \in Faults :
             /\ MayFail(fault) /\ Failed(1)
             /\ emitTerminalStateIfNeededUnlocked(memory, fault)
    /\ UNCHANGED <<live, watching, closing, late, kicked>>

(* What the announcement left to be tried again.                            *)
RetryTerminalTask(kind) ==
    /\ kind \in memory.retries
    /\ LET m == [memory EXCEPT !.retries = @ \ {kind}]
       IN  IF ~Terminal(m) THEN memory' = m /\ UNCHANGED store
           ELSE CASE kind = "room-status" ->
                       memory' = m /\ store' = [store EXCEPT !.status = "finished"]
                  [] kind = "spectator-owner" ->
                       IF OwnerToQueue(m)
                       THEN Flushed(autoQueueSpectatorOwnerUnlocked(m))
                       ELSE memory' = m /\ UNCHANGED store
                  [] kind = "owner-transfer" ->
                       memory' = checkOwnerDisconnectedAtTerminal(m, live)
                         /\ UNCHANGED store
    /\ UNCHANGED <<live, watching, closing, late, shown, clicked, kicked, happened>>

CoolDown ==
    /\ memory.anchor = "hot"
    /\ memory' = [memory EXCEPT !.anchor = "cooled"]
    /\ UNCHANGED <<store, live, watching, closing, late, shown, clicked, kicked,
                   happened>>

-----------------------------------------------------------------------------
(* The blitz deadline.                                                      *)

rearmBlitzAfterRestore(m) ==
    IF Blitz /\ m.phase # "game_over"
    THEN [m EXCEPT !.blitz = {"deadline", "timer"}] ELSE m

(* endGameByBlitz                                                           *)
endGameByBlitz(m) ==
    emitTerminalStateIfNeededUnlocked(markDirty([m EXCEPT !.phase = "game_over"]),
                                      "none")

DeadlinePasses ==
    /\ Blitz /\ ~late
    /\ late' = TRUE
    /\ UNCHANGED <<memory, store, live, watching, closing, shown, clicked, kicked,
                   happened>>

BlitzTimer ==
    /\ late /\ "timer" \in memory.blitz
    /\ LET m == [memory EXCEPT !.blitz = @ \ {"timer"}]
       IN  IF store.status # "playing" \/ m.phase \in {"none", "game_over"}
           THEN /\ memory' = [m EXCEPT !.blitz = {}]
                /\ UNCHANGED <<store, shown, clicked>>
           ELSE IF m.phase = "round_end"
                THEN memory' = m /\ UNCHANGED <<store, shown, clicked>>
                ELSE endGameByBlitz(m)
    /\ UNCHANGED <<live, watching, closing, late, kicked, happened>>

-----------------------------------------------------------------------------
(* The scoreboard's events.  Each changes the roster in the store, then the *)
(* session, and writes the snapshot; when one of these fails the session is *)
(* restored from before, and the roster written back.                       *)

Open == memory.phase = "round_end" /\ memory.anchor # "none"

(* The session from before: it is another object, so that retries of the    *)
(* announcement no longer take it for theirs.                               *)
Restored(m) == [rearmBlitzAfterRestore(m) EXCEPT !.retries = {}]

(* How such an event ends: m and s are the memory and the store after it,   *)
(* w the sockets marked as spectators' and back those marked when it is     *)
(* rolled back, before the memory it restores.                              *)
Committed(m, s, w) ==
    memory' = Clean(m) /\ store' = Written(s, m) /\ watching' = w

RolledBack(before, back) ==
    /\ Fails("commit") /\ Failed(1)
    /\ memory' = Clean(Restored(before))
    /\ store' = Written(store, before)
    /\ watching' = back

(* The roster cannot be written back either.                                *)
RollbackFailed(before, m, s, w) ==
    /\ {"commit", "rollback"} \subseteq Faults /\ happened.fails + 2 <= MaxFails
    /\ Failed(2)
    /\ memory' = [Restored(before) EXCEPT !.dirty = createSnapshot(m)]
    /\ store' = s
    /\ watching' = w

(* The process is lost, with s in the store.                                *)
Lost(s) ==
    /\ happened.crashes < MaxCrashes
    /\ happened' = [happened EXCEPT !.crashes = @ + 1]
    /\ memory' = Down
    /\ store' = s
    /\ live' = {} /\ watching' = {} /\ closing' = {}
    /\ UNCHANGED <<late, shown, clicked, kicked>>

Crash == memory.phase # "none" /\ Lost(store)

(* The session without u, as removePlayer and the votes leave it.           *)
removePlayer(m, u) ==
    [removePlayerVote(m, u) EXCEPT !.players = @ \ {u}, !.connected = @ \ {u},
                                   !.out = @ \ {u}]

moveSeatToSpectator(s, u) ==
    [s EXCEPT !.seats = @ \ {u}, !.watchers = @ \cup ({u} \cap Human)]

EnoughWithout(u) ==
    Cardinality(memory.players \ (memory.out \cup {u})) >= MinPlayers

(* game:kick_player: a bot leaves the room, a human watches and sits out.   *)
kickPlayer(u) ==
    /\ Open /\ store.owner \in live
    /\ u \in memory.players \ {store.owner} /\ EnoughWithout(u)
    /\ LET m == [removePlayer(memory, u) EXCEPT
                    !.queue = @ \ {u},
                    !.excluded = @ \cup ({u} \cap Human)]
           s == moveSeatToSpectator(store, u)
       IN  \/ /\ Committed(m, s, watching \cup ({u} \cap live))
              /\ kicked' = kicked \cup ({u} \cap Human)
              /\ UNCHANGED <<live, closing, late, shown, clicked, happened>>
           \/ /\ \/ RolledBack(memory, watching)
                 \/ RollbackFailed(memory, m, s, watching)
              /\ UNCHANGED <<live, closing, late, shown, clicked, kicked>>
           \/ Lost(s)

(* game:leave_to_spectate                                                   *)
leaveToSpectate(u) ==
    /\ Open
    /\ u \in (live \cap memory.players) \ (watching \cup {store.owner})
    /\ EnoughWithout(u)
    /\ LET m == removePlayer(memory, u)
           s == moveSeatToSpectator(store, u)
       IN  \/ /\ Committed(m, s, watching \cup {u})
              /\ UNCHANGED <<live, closing, late, shown, clicked, kicked, happened>>
           \/ /\ \/ RolledBack(memory, watching)
                 \/ RollbackFailed(memory, m, s, watching)
              /\ UNCHANGED <<live, closing, late, shown, clicked, kicked>>
           \/ Lost(s)

(* game:spectator_join: in and out of the queue.                            *)
spectatorJoin(u) ==
    /\ memory.phase # "none" /\ u \in watching
    /\ u \notin memory.players \cup memory.excluded
    /\ IF u \in memory.queue THEN u # store.owner
       ELSE Cardinality(memory.players) + Cardinality(memory.queue) < MaxPlayers
    /\ Flushed([memory EXCEPT
          !.queue = IF u \in @ THEN @ \ {u} ELSE @ \cup {u}])
    /\ UNCHANGED <<live, watching, closing, late, shown, clicked, kicked, happened>>

-----------------------------------------------------------------------------
(* The next round.                                                          *)

(* The owner who watches asks for a place in the next round.                *)
OwnerQueues == store.owner \notin memory.queue /\ spectatorJoin(store.owner)

(* Those of the queue who get a seat; the order of the queue tells who does *)
(* when it does not fit.                                                    *)
Newcomers(m) == m.queue \ (m.excluded \cup m.players)
Joining(m) ==
    LET free == MaxPlayers - Cardinality(m.players)
    IN  IF Cardinality(Newcomers(m)) <= free THEN {Newcomers(m)}
        ELSE {j \in SUBSET Newcomers(m) : Cardinality(j) = free}

processPendingSpectatorJoins(m, joined) ==
    [m EXCEPT !.players = @ \cup joined,
              !.connected = @ \cup (joined \cap live),
              !.queue = Newcomers(m) \ joined]

moveSpectatorToSeat(s, joined) ==
    [s EXCEPT !.seats = @ \cup joined, !.watchers = @ \ joined]

Dealt(m, joined) ==
    [processPendingSpectatorJoins(m, joined) EXCEPT
        !.phase = "playing", !.round = @ + 1, !.votes = {}, !.anchor = "none",
        !.excluded = {}]

startNextRound(m) ==
    IF late /\ "deadline" \in m.blitz
    THEN /\ endGameByBlitz(m)
         /\ UNCHANGED <<live, watching, closing, late, kicked, happened>>
    ELSE \E joined \in Joining(m) :
         LET next == Dealt(m, joined)
             s == moveSpectatorToSeat(store, joined)
             unmarked == live \cap store.watchers
         IN  IF \E u \in joined : u \notin store.watchers
             THEN \* moveSpectatorToSeat throws
                  /\ memory' = Clean(Restored(m)) /\ store' = Written(store, m)
                  /\ watching' = unmarked
                  /\ UNCHANGED <<live, closing, late, shown, clicked, kicked, happened>>
             ELSE \/ /\ Committed(next, s, watching \ joined)
                     /\ clicked' = {} /\ kicked' = {}
                     /\ UNCHANGED <<live, closing, late, shown, happened>>
                  \/ /\ \/ RolledBack(m, unmarked)
                        \/ RollbackFailed(m, next, s, watching \ joined)
                     /\ UNCHANGED <<live, closing, late, shown, clicked, kicked>>
                  \/ Lost(s)

(* game:next_round: a vote; the owner's, when he has voted already and all  *)
(* others have, starts the round.                                           *)
nextRound(u) ==
    /\ Open /\ u \in live
    /\ \/ u \in memory.players
       \/ u = store.owner /\ u \in memory.queue
    /\ LET m == [memory EXCEPT !.votes = @ \cup {u}]
           starts == /\ u = store.owner
                     /\ u \in memory.votes \/ Voters(m) = {}
                     /\ Voters(m) \subseteq m.votes
                     /\ m.anchor = "cooled"
       IN  IF starts THEN startNextRound(m)
           ELSE /\ memory' = m
                /\ clicked' = clicked \cup {u}
                /\ UNCHANGED <<store, live, watching, closing, late, shown, kicked,
                               happened>>

-----------------------------------------------------------------------------
(* game:back_to_room.  The status is written last: waiting, whatever is     *)
(* left of the snapshot.                                                    *)

backToRoom ==
    /\ memory.phase = "game_over" /\ memory.anchor = "cooled"
    /\ store.owner \in live
    /\ LET everyone == [store EXCEPT !.seats = {},
                           !.watchers = @ \cup (memory.players \cap Human)]
           waiting == [everyone EXCEPT !.status = "waiting"]
       IN  \/ /\ memory' = [Down EXCEPT !.transfer = memory.transfer]
              /\ store' = [waiting EXCEPT !.game = NoSnapshot]
              /\ watching' = live
              /\ UNCHANGED <<live, closing, late, shown, clicked, kicked, happened>>
           \/ /\ Fails("commit") /\ Failed(1)
              /\ memory' = Clean([memory EXCEPT !.blitz = {}])
              /\ store' = Written([store EXCEPT !.status = "finished"], memory)
              /\ UNCHANGED <<live, watching, closing, late, shown, clicked, kicked>>
           \/ \E s \in {everyone, waiting} : Lost(s)

-----------------------------------------------------------------------------
(* Sockets come and go.                                                     *)

Drop(u) ==
    /\ u \in live /\ happened.drops < MaxDrops
    /\ happened' = [happened EXCEPT !.drops = @ + 1]
    /\ live' = live \ {u} /\ watching' = watching \ {u}
    /\ closing' = closing \cup {u}
    /\ UNCHANGED <<memory, store, late, shown, clicked, kicked>>

(* disconnect: nothing when the user is back already.                       *)
Disconnect(u) ==
    /\ u \in closing
    /\ closing' = closing \ {u}
    /\ LET m == IF u = store.owner /\ Governed(memory)
                THEN scheduleOwnerTransfer(memory, u) ELSE memory
       IN  IF u \in live
           THEN UNCHANGED <<memory, store, happened>>
           ELSE IF memory.phase = "none" \/ u \in store.watchers \ memory.players
           THEN memory' = m /\ UNCHANGED <<store, happened>>
           ELSE FlushedOrLeft(addAutopilotVote([m EXCEPT !.connected = @ \ {u}], u))
    /\ UNCHANGED <<live, watching, late, shown, clicked, kicked>>

(* room:leave, when somebody else is there: a player is suspended, a        *)
(* spectator leaves the room.                                               *)
Leave(u) ==
    /\ memory.phase # "none" /\ u \in live /\ live # {u}
    /\ happened.drops < MaxDrops
    /\ happened' = [happened EXCEPT !.drops = @ + 1]
    /\ live' = live \ {u} /\ watching' = watching \ {u}
    /\ IF u \in watching \cup store.watchers
       THEN LET m == [memory EXCEPT !.queue = @ \ {u}]
                s == [store EXCEPT !.watchers = @ \ {u}]
            IN  IF u \in memory.queue
                THEN HandOver(Clean(m), Clean(m), Written(s, m), u)
                ELSE HandOver(m, m, s, u)
       ELSE LET m == addAutopilotVote([memory EXCEPT !.connected = @ \ {u}], u)
            IN  /\ u \in memory.players
                /\ HandOver(Clean(m), scheduleOwnerTransfer(Clean(m), u),
                            Written(store, m), u)
    /\ UNCHANGED <<closing, late, shown, clicked, kicked>>

(* room:rejoin restores the room when the process has no session of it:     *)
(* nobody is connected, the votes of the absent are cast.                   *)
\* Faulty: who sits out is not kept in the snapshot.
FaultyloadGameStateForRestore(g) ==
    rearmBlitzAfterRestore(
      [Down EXCEPT !.phase = g.phase, !.players = g.players, !.out = g.out,
                   !.round = g.round, !.queue = g.queue])

loadGameStateForRestore(g) ==
    LET m == [Down EXCEPT !.phase = g.phase, !.players = g.players,
                 !.out = g.out, !.round = g.round, !.queue = g.queue,
                 !.excluded = g.excluded]
    IN  rearmBlitzAfterRestore(m)

reseedTerminalVotes(m) ==
    IF ~Terminal(m) THEN m
    ELSE [m EXCEPT !.anchor = "hot",
             !.votes = IF m.phase = "round_end" THEN autoVoteIds(m) ELSE {}]

\* Faulty: the roster is left as the crash left it.
FaultyreconcileRoomRosterFromGameState(s, m) == s

reconcileRoomRosterFromGameState(s, m) ==
    [s EXCEPT !.seats = m.players,
              !.watchers = (@ \cup (s.seats \cap Human)) \ m.players]

restores == memory.phase = "none" /\ store.status # "waiting"

RestoredRoom ==
    IF ~restores THEN [m |-> memory, s |-> store]
    ELSE LET m == reseedTerminalVotes(loadGameStateForRestore(store.game))
         IN  [m |-> IF Terminal(m) THEN checkOwnerDisconnectedAtTerminal(m, live) ELSE m,
              s |-> reconcileRoomRosterFromGameState(store, m)]

(* The owner's transfer is off when he is back, and due when another member *)
(* is back at a scoreboard he is away from.                                 *)
\* Faulty: the return of somebody else does not ask where the owner is.
FaultyreconcileOwnerAfterRejoin(m, u) ==
    IF u = store.owner THEN [m EXCEPT !.transfer = None] ELSE m

reconcileOwnerAfterRejoin(m, u) ==
    IF u = store.owner THEN [m EXCEPT !.transfer = None]
    ELSE IF Governed(m) /\ u \notin m.excluded
         THEN checkOwnerDisconnectedAtTerminal(m, live) ELSE m

Rejoin(u) ==
    /\ u \notin live
    /\ LET r == RestoredRoom
           playing == u \in r.m.players
           back == IF playing
                   THEN removePlayerVote([r.m EXCEPT !.connected = @ \cup {u}], u)
                   ELSE r.m
           m == reconcileOwnerAfterRejoin(back, u)
           s == IF playing THEN r.s
                ELSE [r.s EXCEPT !.watchers = @ \cup {u}]
       IN  \/ /\ playing => u \in r.s.seats
              /\ memory' = IF playing THEN Clean(m) ELSE m
              /\ store' = IF playing THEN Written(s, m) ELSE s
              /\ live' = live \cup {u}
              /\ watching' = IF playing THEN watching ELSE watching \cup {u}
              /\ UNCHANGED happened
           \/ /\ Fails("commit") /\ Failed(1)
              /\ memory' = IF playing THEN Clean(r.m) ELSE r.m
              /\ store' = IF playing THEN Written(r.s, r.m) ELSE r.s
              /\ UNCHANGED <<live, watching>>
    /\ shown' = IF restores THEN store.game.phase ELSE shown
    /\ clicked' = IF restores THEN {}
                  ELSE IF u \in live' THEN clicked \ {u} ELSE clicked
    /\ UNCHANGED <<closing, late, kicked>>

-----------------------------------------------------------------------------
Init ==
    /\ \E players \in Tables, o \in Human :
         /\ Cardinality(players) \in MinPlayers..MaxPlayers
         /\ memory = rearmBlitzAfterRestore(
               [Down EXCEPT !.phase = "playing", !.players = players,
                            !.connected = players, !.round = 1])
         /\ store = [game |-> createSnapshot(memory), seats |-> players,
                     watchers |-> Human \ players, owner |-> o,
                     status |-> "playing"]
         /\ watching = Human \ players
    /\ live = Human
    /\ closing = {}
    /\ late = FALSE
    /\ shown = "none"
    /\ clicked = {} /\ kicked = {}
    /\ happened = [fails |-> 0, drops |-> 0, crashes |-> 0]

Next ==
    \/ Persist \/ EndRound \/ Announce \/ CoolDown \/ OwnerTransferTimer
    \/ \E kind \in TerminalRetryKind : RetryTerminalTask(kind)
    \/ DeadlinePasses \/ BlitzTimer
    \/ \E u \in Human : \/ TransferOwner(u) \/ nextRound(u) \/ spectatorJoin(u)
                        \/ leaveToSpectate(u)
                        \/ Drop(u) \/ Disconnect(u) \/ Leave(u) \/ Rejoin(u)
    \/ \E p \in Member : kickPlayer(p)
    \/ backToRoom
    \/ Crash

Spec == Init /\ [][Next]_vars

(* Timers and handlers run; who is present and is waited for clicks, and an *)
(* owner who watches enters the queue.                                      *)
FairSpec ==
    /\ Spec
    /\ WF_vars(Announce) /\ WF_vars(CoolDown) /\ WF_vars(OwnerTransferTimer)
    /\ \A u \in Human : WF_vars(Disconnect(u)) /\ WF_vars(nextRound(u))
    /\ WF_vars(\E u \in Human : nextRound(u))
    /\ \A kind \in TerminalRetryKind : WF_vars(RetryTerminalTask(kind))
    /\ WF_vars(OwnerQueues)

-----------------------------------------------------------------------------
(* The roster in the store and the marks on the sockets agree with the      *)
(* session, whatever was rolled back or restored: who plays has a seat, the *)
(* others who are present watch.                                            *)
SeatsMatchGame ==
    memory.phase # "none" =>
        /\ store.seats = memory.players
        /\ store.watchers \cap memory.players = {}
        /\ watching = live \ memory.players

(* At the scoreboard the vote of a present player is a click of his own,    *)
(* made since he is there, and nobody waits for one who is away: across     *)
(* disconnections before and after the announcement, returns, moves to the  *)
(* spectators, rollbacks and restorations.                                  *)
VotesAreEarned ==
    Open => \A u \in Voters(memory) :
                IF u \in memory.connected
                THEN u \in memory.votes => u \in clicked
                ELSE u \in memory.votes

(* A round is dealt to those who played on and those in the queue, and to   *)
(* nobody who was told that he sits out, though the process may have been   *)
(* lost in between.                                                         *)
DealKeepsPromises ==
    [][memory.phase # "none" /\ memory'.round > memory.round
         => memory'.players = (memory.players \cup memory.queue) \ kicked]_vars

(* The owner watches, and every place in the next round is taken.           *)
OwnerShutOut ==
    /\ store.owner \in live \ (memory.players \cup memory.queue \cup memory.excluded)
    /\ Cardinality(memory.players) + Cardinality(memory.queue) >= MaxPlayers

(* From a scoreboard the room gets to the next round, or the game ends, as  *)
(* long as somebody who may own the room is present and the owner is not    *)
(* shut out by a full table: no vote, no absent owner and no failure that   *)
(* was rolled back holds it up.  README, "Exceptions built into the         *)
(* properties".                                                             *)
NextRoundComes ==
    memory.phase = "round_end"
      ~> \/ memory.phase # "round_end"
         \/ live \subseteq memory.excluded
         \/ OwnerShutOut

(* A game that is over, at its scoreboard, was announced as over.           *)
GameOverIsAnnounced ==
    memory.phase = "game_over" /\ memory.anchor # "none" => shown = "game_over"
=============================================================================
