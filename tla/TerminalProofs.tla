---------------------------- MODULE TerminalProofs ----------------------------
EXTENDS RoundTerminal, FiniteSetTheorems, TLAPS

-----------------------------------------------------------------------------
(* Operators on the memory.                                                 *)

(* n differs from m in nothing the properties are about.                    *)
Same(m, n) ==
    /\ n.phase = m.phase /\ n.players = m.players /\ n.connected = m.connected
    /\ n.out = m.out /\ n.round = m.round /\ n.queue = m.queue
    /\ n.excluded = m.excluded /\ n.votes = m.votes /\ n.anchor = m.anchor

LEMMA SnapshotTyped ==
    ASSUME NEW m \in MemoryType
    PROVE  createSnapshot(m) \in SnapshotType
BY DEF MemoryType, SnapshotType, createSnapshot

LEMMA NoSnapshotTyped == NoSnapshot \in SnapshotType
BY DEF NoSnapshot, SnapshotType, Phase

LEMMA DownTyped == Down \in MemoryType
BY NoSnapshotTyped DEF Down, MemoryType, Phase

LEMMA Marked ==
    ASSUME NEW m \in MemoryType
    PROVE  /\ markDirty(m) \in MemoryType /\ Clean(m) \in MemoryType
           /\ Same(m, markDirty(m)) /\ Same(m, Clean(m))
           /\ markDirty(m).dirty = createSnapshot(m) /\ Clean(m).dirty = NoSnapshot
<1>1. markDirty(m) \in MemoryType
  BY SnapshotTyped DEF MemoryType, markDirty
<1>2. Clean(m) \in MemoryType
  BY NoSnapshotTyped DEF MemoryType, Clean
<1>3. Same(m, markDirty(m)) /\ Same(m, Clean(m))
  BY DEF MemoryType, markDirty, Clean, Same
<1>4. markDirty(m).dirty = createSnapshot(m) /\ Clean(m).dirty = NoSnapshot
  BY DEF MemoryType, markDirty, Clean
<1> QED
  BY <1>1, <1>2, <1>3, <1>4

LEMMA Scheduled ==
    ASSUME NEW m \in MemoryType, NEW u \in Human \cup {None}
    PROVE  /\ [m EXCEPT !.transfer = u] \in MemoryType
           /\ Same(m, [m EXCEPT !.transfer = u])
           /\ [m EXCEPT !.transfer = u].dirty = m.dirty
BY DEF MemoryType, Same

LEMMA OwnerChecked ==
    ASSUME TypeOK, NEW m \in MemoryType, NEW present
    PROVE  /\ checkOwnerDisconnectedAtTerminal(m, present) \in MemoryType
           /\ Same(m, checkOwnerDisconnectedAtTerminal(m, present))
           /\ checkOwnerDisconnectedAtTerminal(m, present).dirty = m.dirty
<1>1. store.owner \in Human /\ Same(m, m)
  BY DEF TypeOK, StoreType, Same
<1> QED
  BY <1>1, Scheduled DEF checkOwnerDisconnectedAtTerminal, scheduleOwnerTransfer

LEMMA RetriesSame ==
    ASSUME NEW m \in MemoryType, NEW rs \in SUBSET TerminalRetryKind
    PROVE  /\ [m EXCEPT !.retries = rs] \in MemoryType
           /\ Same(m, [m EXCEPT !.retries = rs])
           /\ [m EXCEPT !.retries = rs].dirty = m.dirty
BY DEF MemoryType, Same

LEMMA BlitzSame ==
    ASSUME NEW m \in MemoryType, NEW b \in SUBSET {"deadline", "timer"}
    PROVE  /\ [m EXCEPT !.blitz = b] \in MemoryType
           /\ Same(m, [m EXCEPT !.blitz = b])
           /\ [m EXCEPT !.blitz = b].dirty = m.dirty
BY DEF MemoryType, Same

LEMMA RearmSame ==
    ASSUME NEW m \in MemoryType
    PROVE  /\ rearmBlitzAfterRestore(m) \in MemoryType
           /\ Same(m, rearmBlitzAfterRestore(m))
           /\ rearmBlitzAfterRestore(m).dirty = m.dirty
BY BlitzSame DEF rearmBlitzAfterRestore, Same

LEMMA RestoredSame ==
    ASSUME NEW m \in MemoryType
    PROVE  /\ Restored(m) \in MemoryType
           /\ Same(m, Restored(m))
<1> DEFINE n == rearmBlitzAfterRestore(m)
<1>1. n \in MemoryType /\ Same(m, n)
  BY RearmSame
<1>2. /\ [n EXCEPT !.retries = {}] \in MemoryType
      /\ Same(n, [n EXCEPT !.retries = {}])
  <2> HIDE DEF n
  <2> QED
    BY <1>1, RetriesSame
<1> QED
  BY <1>1, <1>2 DEF Restored, Same

(* The queue changes, and nothing else that matters.                        *)
Queued(m, n, q) ==
    /\ n \in MemoryType /\ n.dirty = m.dirty
    /\ n.phase = m.phase /\ n.players = m.players /\ n.connected = m.connected
    /\ n.out = m.out /\ n.round = m.round /\ n.queue = q
    /\ n.excluded = m.excluded /\ n.votes = m.votes /\ n.anchor = m.anchor

LEMMA QueueSet ==
    ASSUME NEW m \in MemoryType, NEW q \in SUBSET Human
    PROVE  Queued(m, [m EXCEPT !.queue = q], q)
BY DEF MemoryType, Queued

LEMMA OwnerQueued ==
    ASSUME TypeOK, NEW m \in MemoryType
    PROVE  Queued(m, autoQueueSpectatorOwnerUnlocked(m),
                  IF OwnerToQueue(m) THEN m.queue \cup {store.owner} ELSE m.queue)
<1>1. store.owner \in Human /\ m.queue \in SUBSET Human
  BY DEF TypeOK, StoreType, MemoryType
<1>2. CASE OwnerToQueue(m)
  BY <1>1, <1>2, QueueSet DEF autoQueueSpectatorOwnerUnlocked
<1>3. CASE ~OwnerToQueue(m)
  BY <1>3 DEF autoQueueSpectatorOwnerUnlocked, Queued
<1> QED
  BY <1>2, <1>3

(* The memory after an announcement of m.                                   *)
AnnouncementOf(m, n) ==
    /\ n \in MemoryType
    /\ n.phase = m.phase /\ n.players = m.players /\ n.connected = m.connected
    /\ n.out = m.out /\ n.round = m.round /\ n.excluded = m.excluded
    /\ n.queue = m.queue \/ (OwnerToQueue(m) /\ n.queue = m.queue \cup {store.owner})
    /\ n.votes = IF m.phase = "game_over" THEN m.votes ELSE autoVoteIds(m)
    /\ n.anchor = "hot"
    /\ n.dirty \in {NoSnapshot, createSnapshot(n)}

LEMMA AnnouncedKnown ==
    ASSUME TypeOK, NEW m \in MemoryType, NEW fault
    PROVE  AnnouncementOf(m, Announced(m, fault))
<1> DEFINE over == m.phase = "game_over"
           m1 == [m EXCEPT !.anchor = "hot",
                           !.votes = IF over THEN @ ELSE autoVoteIds(m),
                           !.blitz = IF over THEN {} ELSE @]
           m2 == CASE fault = "queue" ->
                        [m1 EXCEPT !.retries = @ \cup {"spectator-owner"}]
                   [] fault = "status" ->
                        [m1 EXCEPT !.retries = @ \cup {"room-status"}]
                   [] OTHER -> m1
           m3 == IF fault = "queue" THEN m2 ELSE autoQueueSpectatorOwnerUnlocked(m2)
           m4 == IF fault = "governance"
                 THEN [m3 EXCEPT !.retries = @ \cup {"owner-transfer"}]
                 ELSE checkOwnerDisconnectedAtTerminal(m3, live)
           votes == IF over THEN m.votes ELSE autoVoteIds(m)
<1>1. /\ m1 \in MemoryType /\ m1.anchor = "hot" /\ m1.votes = votes
      /\ m1.phase = m.phase /\ m1.players = m.players /\ m1.connected = m.connected
      /\ m1.out = m.out /\ m1.round = m.round /\ m1.excluded = m.excluded
      /\ m1.queue = m.queue
  BY DEF MemoryType, autoVoteIds
<1> HIDE DEF m1
<1>2. m2 \in MemoryType /\ Same(m1, m2)
  <2>1. /\ m1.retries \in SUBSET TerminalRetryKind
        /\ {"spectator-owner", "room-status"} \subseteq TerminalRetryKind
    BY <1>1 DEF MemoryType, TerminalRetryKind
  <2>2. Same(m1, m1)
    BY DEF Same
  <2>3. CASE fault = "queue"
    BY <1>1, <2>1, <2>3, RetriesSame
  <2>4. CASE fault = "status"
    BY <1>1, <2>1, <2>4, RetriesSame
  <2> QED
    BY <1>1, <2>2, <2>3, <2>4
<1> HIDE DEF m2
<1>3. m2.queue = m.queue /\ (OwnerToQueue(m2) => OwnerToQueue(m))
  BY <1>1, <1>2 DEF Same, OwnerToQueue
<1>4. \/ Queued(m2, m3, m.queue)
      \/ OwnerToQueue(m) /\ Queued(m2, m3, m.queue \cup {store.owner})
  <2>1. Queued(m2, m2, m2.queue)
    BY <1>2 DEF Queued
  <2> QED
    BY <1>2, <1>3, <2>1, OwnerQueued
<1> HIDE DEF m3
<1>5. m4 \in MemoryType /\ Same(m3, m4)
  <2>1. m3 \in MemoryType
    BY <1>4 DEF Queued
  <2>2. /\ m3.retries \in SUBSET TerminalRetryKind
        /\ "owner-transfer" \in TerminalRetryKind
    BY <2>1 DEF MemoryType, TerminalRetryKind
  <2> QED
    BY <2>1, <2>2, RetriesSame, OwnerChecked
<1> HIDE DEF m4
<1>6. Announced(m, fault) = IF fault = "snapshot" THEN markDirty(m4) ELSE Clean(m4)
  BY DEF Announced, m1, m2, m3, m4
<1>7. /\ Announced(m, fault) \in MemoryType /\ Same(m4, Announced(m, fault))
      /\ Announced(m, fault).dirty \in {NoSnapshot, createSnapshot(m4)}
  BY <1>5, <1>6, Marked
<1>8. createSnapshot(m4) = createSnapshot(Announced(m, fault))
  BY <1>7 DEF Same, createSnapshot
<1> QED
  BY <1>1, <1>2, <1>4, <1>5, <1>7, <1>8 DEF Same, Queued, AnnouncementOf

LEMMA VoteAdded ==
    ASSUME NEW m \in MemoryType, NEW u \in Human
    PROVE  LET n == addAutopilotVote(m, u)
           IN  /\ n \in MemoryType /\ n.dirty = m.dirty
               /\ n.phase = m.phase /\ n.players = m.players
               /\ n.connected = m.connected /\ n.out = m.out /\ n.round = m.round
               /\ n.queue = m.queue /\ n.excluded = m.excluded
               /\ n.anchor = m.anchor
               /\ n.votes = IF m.phase = "round_end" THEN m.votes \cup {u} ELSE m.votes
BY DEF MemoryType, addAutopilotVote, Member

(* The memory m once u has no connection.                                   *)
Away(m, n, u) ==
    /\ n \in MemoryType /\ n.dirty = m.dirty
    /\ n.phase = m.phase /\ n.players = m.players
    /\ n.connected = m.connected \ {u} /\ n.out = m.out /\ n.round = m.round
    /\ n.queue = m.queue /\ n.excluded = m.excluded
    /\ n.anchor = m.anchor
    /\ n.votes = IF m.phase = "round_end" THEN m.votes \cup {u} ELSE m.votes

LEMMA GoneAway ==
    ASSUME NEW m \in MemoryType, NEW u \in Human
    PROVE  Away(m, addAutopilotVote([m EXCEPT !.connected = @ \ {u}], u), u)
<1> DEFINE n == [m EXCEPT !.connected = @ \ {u}]
<1>1. /\ n \in MemoryType /\ n.dirty = m.dirty
      /\ n.phase = m.phase /\ n.players = m.players
      /\ n.connected = m.connected \ {u} /\ n.out = m.out /\ n.round = m.round
      /\ n.queue = m.queue /\ n.excluded = m.excluded
      /\ n.anchor = m.anchor /\ n.votes = m.votes
  BY DEF MemoryType
<1> HIDE DEF n
<1> QED
  BY <1>1, VoteAdded DEF Away, n

(* The memory m without the player u.                                       *)
Without(m, n, u) ==
    /\ n \in MemoryType
    /\ n.phase = m.phase /\ n.players = m.players \ {u}
    /\ n.connected = m.connected \ {u} /\ n.out = m.out \ {u}
    /\ n.round = m.round /\ n.queue = m.queue /\ n.excluded = m.excluded
    /\ n.votes = m.votes \ {u} /\ n.anchor = m.anchor

LEMMA Removed ==
    ASSUME NEW m \in MemoryType, NEW u \in Member
    PROVE  Without(m, removePlayer(m, u), u)
BY DEF MemoryType, removePlayer, removePlayerVote, Without

-----------------------------------------------------------------------------
(* The invariant.                                                           *)

(* Votes need no anchor before the announcement, and are clicks after it.   *)
VotesFair(m, c) ==
    /\ ~Terminal(m) => m.anchor = "none"
    /\ m.phase = "round_end" /\ m.anchor # "none" =>
         \A u \in Voters(m) : IF u \in m.connected
                              THEN u \in m.votes => u \in c
                              ELSE u \in m.votes

(* The roster is that of the session.                                       *)
Seated(m, s, l, w) ==
    m.phase # "none" =>
      /\ s.seats = m.players /\ s.watchers \cap m.players = {}
      /\ w = l \ m.players /\ w \subseteq s.watchers

(* A room that is not waiting has a snapshot, and nobody is in it before it *)
(* is restored.                                                             *)
InStore(m, s, l) ==
    /\ s.status # "waiting" => s.game.phase # "none"
    /\ m.dirty = NoSnapshot \/ m.dirty.phase # "none"
    /\ m.phase = "none" => /\ m.dirty = NoSnapshot /\ m.players = {}
                           /\ s.status # "waiting" => l = {}
    /\ m.phase # "none" => s.status # "waiting"

(* A session or a snapshot of it keeps the promises made: it knows who sits *)
(* out, and has a seat for everybody in the queue.                          *)
Promised(g, k) ==
    g.phase # "none" =>
      /\ g.excluded = k /\ g.players \cap k = {}
      /\ Cardinality(g.players) + Cardinality(g.queue) <= MaxPlayers

Agreed ==
    /\ Seated(memory, store, live, watching)
    /\ InStore(memory, store, live)
    /\ Promised(memory, kicked) /\ Promised(store.game, kicked)
    /\ Promised(memory.dirty, kicked)

(* The roster can always be written back.                                   *)
RollsBack == "rollback" \notin Faults

IInv ==
    /\ TypeOK
    /\ VotesFair(memory, clicked)
    /\ RollsBack => Agreed

-----------------------------------------------------------------------------
(* What does not disturb it.                                                *)

LEMMA SameVotesFair ==
    ASSUME NEW m, NEW n, NEW c, Same(m, n), VotesFair(m, c)
    PROVE  VotesFair(n, c)
BY DEF Same, VotesFair, Terminal, Voters

LEMMA SameSnapshot ==
    ASSUME NEW m, NEW n, Same(m, n)
    PROVE  createSnapshot(m) = createSnapshot(n)
BY DEF Same, createSnapshot

LEMMA SnapshotPromised ==
    ASSUME NEW m, NEW k
    PROVE  /\ Promised(createSnapshot(m), k) <=> Promised(m, k)
           /\ createSnapshot(m).phase = m.phase
BY DEF Promised, createSnapshot

LEMMA NothingPromised ==
    /\ \A k : Promised(NoSnapshot, k)
    /\ NoSnapshot.phase = "none"
BY DEF Promised, NoSnapshot

LEMMA WrittenTyped ==
    ASSUME NEW s \in StoreType, NEW m \in MemoryType
    PROVE  /\ Written(s, m) \in StoreType
           /\ Written(s, m).game = createSnapshot(m)
           /\ Written(s, m).seats = s.seats /\ Written(s, m).watchers = s.watchers
           /\ Written(s, m).owner = s.owner /\ Written(s, m).status = s.status
BY SnapshotTyped DEF StoreType, Written

(* The snapshots that may be written or wait to be.                         *)
Snapshots(m) == {createSnapshot(m), NoSnapshot}

(* The roster in the store stays, and the status may become "finished".     *)
SameRoster(m, s, t) ==
    /\ t.seats = s.seats /\ t.watchers = s.watchers
    /\ t.status = s.status \/ (m.phase # "none" /\ t.status = "finished")

LEMMA QuietStep ==
    ASSUME IInv, TypeOK',
           Same(memory, memory'),
           memory'.dirty \in {memory.dirty, createSnapshot(memory), NoSnapshot},
           memory.phase = "none" => memory'.dirty \in {memory.dirty, NoSnapshot},
           SameRoster(memory, store, store'),
           store'.game = store.game \/
             (store'.game = memory.dirty /\ memory.dirty # NoSnapshot),
           UNCHANGED <<live, watching, clicked, kicked>>
    PROVE  IInv'
<1>1. VotesFair(memory, clicked)'
  BY SameVotesFair DEF IInv
<1>2. ASSUME RollsBack, Agreed PROVE Agreed'
  <2>1. Seated(memory, store, live, watching)'
    BY <1>2 DEF Agreed, Seated, Same, SameRoster
  <2>2. InStore(memory, store, live)'
    BY <1>2, SnapshotPromised, NothingPromised DEF Agreed, InStore, Same, SameRoster
  <2>3. Promised(memory, kicked)'
    BY <1>2 DEF Agreed, Promised, Same
  <2>4. Promised(store.game, kicked)' /\ Promised(memory.dirty, kicked)'
    BY <1>2, SnapshotPromised, NothingPromised DEF Agreed
  <2> QED
    BY <2>1, <2>2, <2>3, <2>4 DEF Agreed
<1> QED
  BY <1>1, <1>2 DEF IInv, RollsBack

-----------------------------------------------------------------------------
(* The shapes a step may have.                                              *)

(* The types of what is neither memory nor store.                           *)
OthersOK ==
    /\ live \subseteq Human /\ watching \subseteq live /\ closing \subseteq Human
    /\ late \in BOOLEAN /\ shown \in Phase
    /\ clicked \subseteq Human /\ kicked \subseteq Human
    /\ happened \in [fails : 0..MaxFails, drops : 0..MaxDrops,
                     crashes : 0..MaxCrashes]

LEMMA Typed ==
    /\ TypeOK <=> memory \in MemoryType /\ store \in StoreType /\ OthersOK
    /\ TypeOK' <=> memory' \in MemoryType /\ store' \in StoreType /\ OthersOK'
BY DEF TypeOK, OthersOK

LEMMA FailureCounted ==
    ASSUME TypeOK, NEW n \in {1, 2}, happened.fails + n <= MaxFails, Failed(n)
    PROVE  happened' \in [fails : 0..MaxFails, drops : 0..MaxDrops,
                          crashes : 0..MaxCrashes]
BY BoundAssumption DEF TypeOK, Failed

LEMMA OneFailureCounted ==
    ASSUME TypeOK, NEW kind, Fails(kind), Failed(1)
    PROVE  happened' \in [fails : 0..MaxFails, drops : 0..MaxDrops,
                          crashes : 0..MaxCrashes]
BY BoundAssumption DEF TypeOK, Failed, Fails

(* The snapshot of the new memory, which differs from m in nothing that     *)
(* matters, is written.                                                     *)
LEMMA SavedStep ==
    ASSUME IInv, TypeOK', NEW m \in MemoryType,
           Same(m, memory'), memory'.dirty = NoSnapshot,
           store'.game = createSnapshot(m),
           VotesFair(m, clicked'),
           RollsBack /\ Agreed =>
             /\ m.phase # "none" /\ store'.status # "waiting"
             /\ Seated(m, store', live', watching') /\ Promised(m, kicked')
    PROVE  IInv'
<1>1. VotesFair(memory, clicked)'
  BY SameVotesFair
<1>2. ASSUME RollsBack, Agreed PROVE Agreed'
  <2>1. Seated(memory, store, live, watching)'
    BY <1>2 DEF Seated, Same
  <2>2. InStore(memory, store, live)'
    BY <1>2, SnapshotPromised DEF InStore, Same
  <2>3. Promised(memory, kicked)'
    BY <1>2 DEF Promised, Same
  <2>4. Promised(store.game, kicked)' /\ Promised(memory.dirty, kicked)'
    BY <1>2, SnapshotPromised, NothingPromised
  <2> QED
    BY <2>1, <2>2, <2>3, <2>4 DEF Agreed
<1> QED
  BY <1>1, <1>2 DEF IInv, RollsBack

LEMMA WrittenStep ==
    ASSUME IInv, OthersOK', NEW m \in MemoryType, NEW s \in StoreType,
           memory' = Clean(m), store' = Written(s, m),
           VotesFair(m, clicked'),
           RollsBack /\ Agreed =>
             /\ m.phase # "none" /\ s.status # "waiting"
             /\ Seated(m, s, live', watching') /\ Promised(m, kicked')
    PROVE  IInv'
<1>1. memory' \in MemoryType /\ Same(m, memory') /\ memory'.dirty = NoSnapshot
  BY Marked
<1>2. /\ store' \in StoreType /\ store'.game = createSnapshot(m)
      /\ store'.seats = s.seats /\ store'.watchers = s.watchers
      /\ store'.status = s.status
  BY WrittenTyped
<1>3. RollsBack /\ Agreed => Seated(m, store', live', watching')
  BY <1>2 DEF Seated
<1>4. TypeOK'
  BY <1>1, <1>2, Typed
<1> QED
  BY <1>1, <1>2, <1>3, <1>4, SavedStep

(* The process is lost.                                                     *)
LEMMA LostStep ==
    ASSUME IInv, NEW s \in StoreType, Lost(s),
           RollsBack /\ Agreed =>
             /\ s.status # "waiting" => s.game.phase # "none"
             /\ Promised(s.game, kicked)
    PROVE  IInv'
<1>1. TypeOK'
  <2>1. OthersOK'
    BY BoundAssumption DEF IInv, TypeOK, OthersOK, Lost
  <2> QED
    BY <2>1, DownTyped, Typed DEF Lost
<1>2. /\ memory'.phase = "none" /\ memory'.anchor = "none"
      /\ memory'.dirty = NoSnapshot /\ memory'.players = {}
  BY DEF Lost, Down
<1>3. VotesFair(memory, clicked)'
  BY <1>2 DEF VotesFair, Terminal
<1>4. ASSUME RollsBack, Agreed PROVE Agreed'
  <2>1. store' = s /\ live' = {} /\ kicked' = kicked
    BY DEF Lost
  <2> QED
    BY <1>2, <1>4, <2>1, NothingPromised DEF Agreed, Seated, InStore, Promised
<1> QED
  BY <1>1, <1>3, <1>4 DEF IInv, RollsBack

(* A scoreboard's event is rolled back, or its rollback fails.              *)
LEMMA RolledBackStep ==
    ASSUME IInv, NEW before \in MemoryType, NEW m \in MemoryType,
           NEW s \in StoreType, NEW w, NEW back,
           RolledBack(before, back) \/ RollbackFailed(before, m, s, w),
           UNCHANGED <<live, closing, late, shown, clicked, kicked>>,
           before.phase # "none", VotesFair(before, clicked),
           w \subseteq live, back \subseteq live,
           RollsBack /\ Agreed =>
             /\ store.status # "waiting"
             /\ Seated(before, store, live, back) /\ Promised(before, kicked)
    PROVE  IInv'
<1>1. /\ Restored(before) \in MemoryType /\ Same(before, Restored(before))
      /\ VotesFair(Restored(before), clicked)
  BY RestoredSame, SameVotesFair
<1>2. TypeOK
  BY DEF IInv
<1>3. CASE RolledBack(before, back)
  <2>1. OthersOK'
    BY <1>2, <1>3, OneFailureCounted DEF RolledBack, TypeOK, OthersOK
  <2>2. /\ memory' = Clean(Restored(before)) /\ watching' = back
        /\ store' = Written(store, Restored(before))
    BY <1>1, <1>3, SameSnapshot DEF RolledBack, Written
  <2>3. RollsBack /\ Agreed =>
          /\ store.status # "waiting"
          /\ Seated(Restored(before), store, live', watching')
          /\ Promised(Restored(before), kicked')
    BY <1>1, <2>2 DEF Same, Seated, Promised
  <2>4. Restored(before).phase # "none" /\ store \in StoreType
    BY <1>1, <1>2 DEF Same, TypeOK
  <2> QED
    BY <1>1, <2>1, <2>2, <2>3, <2>4, WrittenStep
<1>4. CASE RollbackFailed(before, m, s, w)
  <2> DEFINE n == Restored(before)
  <2>1. OthersOK'
    BY <1>2, <1>4, FailureCounted DEF RollbackFailed, TypeOK, OthersOK
  <2>2. /\ memory' \in MemoryType /\ Same(before, memory')
    <3>1. /\ [n EXCEPT !.dirty = createSnapshot(m)] \in MemoryType
          /\ Same(n, [n EXCEPT !.dirty = createSnapshot(m)])
      <4>1. n \in MemoryType /\ createSnapshot(m) \in SnapshotType
        BY <1>1, SnapshotTyped
      <4> HIDE DEF n
      <4> QED
        BY <4>1 DEF MemoryType, Same
    <3> QED
      BY <1>1, <1>4, <3>1 DEF RollbackFailed, Same
  <2>3. store' = s /\ ~RollsBack
    BY <1>4 DEF RollbackFailed, RollsBack
  <2>4. TypeOK'
    BY <2>1, <2>2, <2>3, Typed
  <2> QED
    BY <2>2, <2>3, <2>4, SameVotesFair DEF IInv, RollsBack
<1> QED
  BY <1>3, <1>4

-----------------------------------------------------------------------------
(* Room for one more.                                                       *)
LEMMA MembersFinite ==
    /\ \A S \in SUBSET Member : IsFiniteSet(S) /\ Cardinality(S) \in Nat
    /\ \A S \in SUBSET Human : IsFiniteSet(S) /\ Cardinality(S) \in Nat
<1>1. IsFiniteSet(Member)
  BY MemberAssumption, FS_Union DEF Member
<1> QED
  BY <1>1, MemberAssumption, FS_Subset, FS_CardinalityType

LEMMA OneMore ==
    ASSUME NEW m \in MemoryType, NEW u \in Human,
           Cardinality(m.players) + Cardinality(m.queue) < MaxPlayers
    PROVE  Cardinality(m.players) + Cardinality(m.queue \cup {u}) <= MaxPlayers
<1>1. m.players \in SUBSET Member /\ m.queue \in SUBSET Human
  BY DEF MemoryType
<1>2. /\ IsFiniteSet(m.queue) /\ Cardinality(m.queue) \in Nat
      /\ Cardinality(m.players) \in Nat /\ MaxPlayers \in Nat
  BY <1>1, MembersFinite, BoundAssumption
<1>3. Cardinality(m.queue \cup {u}) \in {Cardinality(m.queue), Cardinality(m.queue) + 1}
  BY <1>2, FS_AddElement
<1> QED
  BY <1>2, <1>3

LEMMA FewerFit ==
    ASSUME NEW m \in MemoryType, NEW P, NEW Q,
           P \subseteq m.players, Q \subseteq m.queue,
           Cardinality(m.players) + Cardinality(m.queue) <= MaxPlayers
    PROVE  Cardinality(P) + Cardinality(Q) <= MaxPlayers
<1>1. m.players \in SUBSET Member /\ m.queue \in SUBSET Human
  BY DEF MemoryType
<1>2. /\ IsFiniteSet(m.queue) /\ IsFiniteSet(m.players)
      /\ Cardinality(m.queue) \in Nat /\ Cardinality(m.players) \in Nat
      /\ Cardinality(Q) \in Nat /\ Cardinality(P) \in Nat /\ MaxPlayers \in Nat
  BY <1>1, MembersFinite, BoundAssumption
<1>3. /\ Cardinality(P) <= Cardinality(m.players)
      /\ Cardinality(Q) <= Cardinality(m.queue)
  BY <1>2, FS_Subset
<1> QED
  BY <1>2, <1>3

(* The announcement, if there is one to make, of the state m.               *)
LEMMA EmitStep ==
    ASSUME IInv, OthersOK', NEW m \in MemoryType, NEW fault,
           emitTerminalStateIfNeededUnlocked(m, fault),
           m.phase # "none", VotesFair(m, clicked),
           RollsBack /\ Agreed =>
             /\ Seated(m, store, live, watching) /\ InStore(m, store, live)
             /\ Promised(m, kicked) /\ Promised(m.dirty, kicked),
           UNCHANGED <<live, watching, kicked>>
    PROVE  IInv'
<1>1. CASE ~Terminal(m) \/ m.anchor # "none"
  <2>1. memory' = m /\ UNCHANGED <<store, shown, clicked>>
    BY <1>1 DEF emitTerminalStateIfNeededUnlocked
  <2>2. TypeOK'
    BY <2>1, Typed DEF IInv
  <2>3. VotesFair(memory, clicked)'
    BY <2>1
  <2> QED
    BY <2>1, <2>2, <2>3 DEF IInv, RollsBack, Agreed
<1>2. CASE Terminal(m) /\ m.anchor = "none"
  <2> DEFINE n == Announced(m, fault)
             s == IF m.phase = "game_over" /\ fault # "status"
                  THEN [store EXCEPT !.status = "finished"] ELSE store
  <2>1. /\ memory' = n /\ clicked' = {}
        /\ store' = IF fault = "snapshot" THEN s ELSE Written(s, n)
    BY <1>2 DEF emitTerminalStateIfNeededUnlocked
  <2>2. AnnouncementOf(m, n)
    BY AnnouncedKnown DEF IInv
  <2>3. /\ s \in StoreType /\ s.game = store.game
        /\ s.seats = store.seats /\ s.watchers = store.watchers
        /\ s.status \in {store.status, "finished"}
    BY DEF IInv, TypeOK, StoreType
  <2> HIDE DEF n, s
  <2>4. /\ store' \in StoreType /\ store'.game \in {store.game, createSnapshot(n)}
        /\ store'.seats = store.seats /\ store'.watchers = store.watchers
        /\ store'.status \in {store.status, "finished"}
    BY <2>1, <2>2, <2>3, WrittenTyped DEF AnnouncementOf
  <2>5. TypeOK'
    BY <2>1, <2>2, <2>4, Typed DEF AnnouncementOf
  <2>6. VotesFair(memory, clicked)'
    <3>1. n.phase = m.phase /\ n.anchor # "none" /\ Terminal(n)
      BY <1>2, <2>2 DEF AnnouncementOf, Terminal
    <3>2. ASSUME m.phase = "round_end", NEW u \in Voters(n)
          PROVE  IF u \in n.connected THEN u \notin n.votes ELSE u \in n.votes
      <4>1. /\ n.votes = autoVoteIds(m) /\ n.connected = m.connected
            /\ n.out = m.out /\ n.players = m.players
        BY <2>2, <3>2 DEF AnnouncementOf
      <4>2. u \in m.players /\ u \in Human /\ u \notin m.out /\ u \notin Bot
        BY <3>2, <4>1, MemberAssumption DEF Voters
      <4> QED
        BY <4>1, <4>2 DEF autoVoteIds
    <3> QED
      BY <2>1, <3>1, <3>2 DEF VotesFair
  <2>7. ASSUME RollsBack, Agreed PROVE Agreed'
    <3>1. Seated(memory, store, live, watching)'
      BY <2>1, <2>2, <2>4, <2>7 DEF AnnouncementOf, Seated
    <3>2. createSnapshot(n).phase # "none"
      BY <2>2, SnapshotPromised DEF AnnouncementOf
    <3>3. InStore(memory, store, live)'
      BY <2>1, <2>2, <2>4, <2>7, <3>2 DEF AnnouncementOf, InStore
    <3>4. Promised(n, kicked)
      <4>1. CASE n.queue = m.queue
        BY <2>2, <2>7, <4>1 DEF AnnouncementOf, Promised
      <4>2. CASE OwnerToQueue(m) /\ n.queue = m.queue \cup {store.owner}
        <5>1. Cardinality(m.players) + Cardinality(n.queue) <= MaxPlayers
          BY <4>2, OneMore DEF OwnerToQueue, IInv, TypeOK, StoreType
        <5> QED
          BY <2>2, <2>7, <5>1 DEF AnnouncementOf, Promised
      <4> QED
        BY <2>2, <4>1, <4>2 DEF AnnouncementOf
    <3>5. Promised(memory, kicked)' /\ Promised(createSnapshot(n), kicked')
      BY <2>1, <3>4, SnapshotPromised
    <3>6. Promised(store.game, kicked)'
      BY <2>4, <2>7, <3>5 DEF Agreed
    <3>7. Promised(memory.dirty, kicked)'
      BY <2>1, <2>2, <3>5, NothingPromised DEF AnnouncementOf
    <3> QED
      BY <3>1, <3>3, <3>5, <3>6, <3>7 DEF Agreed
  <2> QED
    BY <2>5, <2>6, <2>7 DEF IInv, RollsBack
<1> QED
  BY <1>1, <1>2

-----------------------------------------------------------------------------
(* The actions that leave the essentials alone, and those of the timers.    *)

LEMMA OwnerChanged ==
    ASSUME NEW s \in StoreType, NEW o \in Human
    PROVE  /\ [s EXCEPT !.owner = o] \in StoreType
           /\ [s EXCEPT !.owner = o].game = s.game
           /\ [s EXCEPT !.owner = o].seats = s.seats
           /\ [s EXCEPT !.owner = o].watchers = s.watchers
           /\ [s EXCEPT !.owner = o].status = s.status
BY DEF StoreType

LEMMA PersistKeeps == ASSUME IInv, Persist PROVE IInv'
<1>1. /\ memory \in MemoryType /\ memory.dirty # NoSnapshot /\ memory' = Clean(memory)
      /\ store' = [store EXCEPT !.game = memory.dirty]
      /\ UNCHANGED <<live, watching, closing, late, shown, clicked, kicked, happened>>
  BY DEF IInv, TypeOK, Persist
<1>2. memory' \in MemoryType /\ Same(memory, memory') /\ memory'.dirty = NoSnapshot
  BY <1>1, Marked
<1>3. /\ store' \in StoreType /\ store'.game = memory.dirty
      /\ SameRoster(memory, store, store')
  BY <1>1 DEF IInv, TypeOK, StoreType, MemoryType, SameRoster
<1>4. TypeOK'
  BY <1>1, <1>2, <1>3, Typed DEF IInv, TypeOK, OthersOK
<1> QED
  BY <1>1, <1>2, <1>3, <1>4, QuietStep

LEMMA TransferKeeps ==
    ASSUME IInv, OwnerTransferTimer \/ \E u \in Human : TransferOwner(u)
    PROVE  IInv'
<1>1. /\ memory \in MemoryType /\ store \in StoreType /\ live \subseteq Human
      /\ None \in Human \cup {None}
  BY DEF IInv, TypeOK
<1>2. /\ memory' = [memory EXCEPT !.transfer = None]
      /\ store' = store \/ \E o \in Human : store' = [store EXCEPT !.owner = o]
      /\ UNCHANGED <<live, watching, closing, late, shown, clicked, kicked, happened>>
  BY <1>1 DEF OwnerTransferTimer, TransferOwner, getEligibleLiveOwner
<1>3. /\ memory' \in MemoryType /\ Same(memory, memory')
      /\ memory'.dirty = memory.dirty
  BY <1>1, <1>2, Scheduled
<1>4. /\ store' \in StoreType /\ store'.game = store.game
      /\ SameRoster(memory, store, store')
  BY <1>1, <1>2, OwnerChanged DEF SameRoster
<1>5. TypeOK'
  BY <1>2, <1>3, <1>4, Typed DEF IInv, TypeOK, OthersOK
<1> QED
  BY <1>2, <1>3, <1>4, <1>5, QuietStep

LEMMA EndRoundKeeps == ASSUME IInv, EndRound PROVE IInv'
<1>1. PICK loser \in SUBSET (memory.players \ memory.out), over \in BOOLEAN :
        memory' = markDirty([memory EXCEPT
                     !.phase = IF over THEN "game_over" ELSE "round_end",
                     !.out = memory.out \cup loser])
  BY DEF EndRound
<1> DEFINE m == [memory EXCEPT !.phase = IF over THEN "game_over" ELSE "round_end",
                               !.out = memory.out \cup loser]
<1>2. /\ m \in MemoryType /\ Terminal(m) /\ m.anchor = memory.anchor
      /\ m.players = memory.players /\ m.queue = memory.queue
      /\ m.excluded = memory.excluded
  BY DEF IInv, TypeOK, MemoryType, Phase, Terminal
<1> HIDE DEF m
<1>3. /\ memory.phase = "playing" /\ memory' = markDirty(m)
      /\ UNCHANGED <<store, live, watching, closing, late, shown, clicked, kicked,
                     happened>>
  BY <1>1 DEF EndRound, m
<1>4. /\ memory' \in MemoryType /\ Same(m, memory')
      /\ memory'.dirty = createSnapshot(m)
  BY <1>2, <1>3, Marked
<1>5. TypeOK'
  BY <1>3, <1>4, Typed DEF IInv, TypeOK, OthersOK
<1>6. VotesFair(memory, clicked)'
  BY <1>2, <1>3, <1>4 DEF IInv, VotesFair, Same, Terminal
<1>7. ASSUME RollsBack, Agreed PROVE Agreed'
  <2>1. Promised(m, kicked) /\ m.phase # "none"
    BY <1>2, <1>3, <1>7 DEF Agreed, Promised, Terminal
  <2>2. Promised(memory, kicked)' /\ Promised(memory.dirty, kicked)'
    <3>1. Promised(memory, kicked)'
      BY <1>3, <1>4, <2>1 DEF Same, Promised
    <3>2. Promised(createSnapshot(m), kicked)
      BY <2>1, SnapshotPromised
    <3> QED
      BY <1>3, <1>4, <3>1, <3>2
  <2> QED
    BY <1>2, <1>3, <1>4, <1>7, <2>1, <2>2, SnapshotPromised
    DEF Agreed, Seated, InStore, Same
<1> QED
  BY <1>5, <1>6, <1>7 DEF IInv, RollsBack

LEMMA AnnounceKeeps == ASSUME IInv, Announce PROVE IInv'
<1>1. PICK fault : emitTerminalStateIfNeededUnlocked(memory, fault)
  BY DEF Announce
<1>2. /\ UNCHANGED <<live, watching, closing, late, kicked>>
      /\ Terminal(memory) /\ memory.anchor = "none"
      /\ happened' = happened \/ \E kind : Fails(kind) /\ Failed(1)
  BY DEF Announce, MayFail
<1>3. /\ memory \in MemoryType /\ memory.phase # "none"
      /\ shown' = memory.phase /\ clicked' = {}
  BY <1>1, <1>2 DEF IInv, TypeOK, Terminal, emitTerminalStateIfNeededUnlocked
<1>4. OthersOK'
  BY <1>2, <1>3, OneFailureCounted DEF IInv, TypeOK, OthersOK, MemoryType
<1> QED
  BY <1>1, <1>2, <1>3, <1>4, EmitStep DEF IInv, Agreed

LEMMA QuietMemory ==
    ASSUME IInv, memory' \in MemoryType, Same(memory, memory'),
           memory'.dirty = memory.dirty,
           UNCHANGED <<store, live, watching, clicked, kicked>>, OthersOK'
    PROVE  IInv'
<1>1. TypeOK' /\ SameRoster(memory, store, store')
  BY Typed DEF IInv, TypeOK, SameRoster
<1> QED
  BY <1>1, QuietStep

LEMMA QueuedFits ==
    ASSUME IInv, NEW m \in MemoryType, Same(memory, m)
    PROVE  LET n == autoQueueSpectatorOwnerUnlocked(m)
           IN  /\ n \in MemoryType /\ n.phase = memory.phase
               /\ VotesFair(n, clicked)
               /\ RollsBack /\ Agreed =>
                    Seated(n, store, live, watching) /\ Promised(n, kicked)
<1> DEFINE n == autoQueueSpectatorOwnerUnlocked(m)
           q == IF OwnerToQueue(m) THEN m.queue \cup {store.owner} ELSE m.queue
<1>1. Queued(m, n, q) /\ m.players = memory.players /\ m.queue = memory.queue
  BY OwnerQueued DEF IInv, Same
<1>2. OwnerToQueue(m) => Cardinality(m.players) + Cardinality(q) <= MaxPlayers
  BY OneMore DEF OwnerToQueue, IInv, TypeOK, StoreType
<1>3. ~OwnerToQueue(m) => q = m.queue
  OBVIOUS
<1> HIDE DEF n, q
<1>4. VotesFair(n, clicked)
  <2>1. VotesFair(m, clicked)
    BY SameVotesFair DEF IInv
  <2> QED
    BY <1>1, <2>1 DEF Queued, VotesFair, Terminal, Voters
<1>5. ASSUME RollsBack, Agreed PROVE Promised(n, kicked)
  <2>1. Promised(m, kicked)
    BY <1>5 DEF Agreed, Promised, Same
  <2> QED
    BY <1>1, <1>2, <1>3, <2>1 DEF Promised, Queued
<1>6. ASSUME RollsBack, Agreed PROVE Seated(n, store, live, watching)
  BY <1>1, <1>6 DEF Agreed, Seated, Same, Queued
<1> QED
  BY <1>1, <1>4, <1>5, <1>6 DEF Queued, Same, n

LEMMA RetryKeeps ==
    ASSUME IInv, NEW kind \in TerminalRetryKind, RetryTerminalTask(kind)
    PROVE  IInv'
<1> DEFINE m == [memory EXCEPT !.retries = @ \ {kind}]
<1>1. /\ m \in MemoryType /\ Same(memory, m) /\ m.dirty = memory.dirty
  BY RetriesSame DEF IInv, TypeOK, MemoryType
<1>2. OthersOK' /\ UNCHANGED <<live, watching, closing, late, shown, clicked, kicked, happened>>
  BY DEF RetryTerminalTask, IInv, TypeOK, OthersOK
<1>3. \/ memory' = m /\ UNCHANGED store
      \/ /\ Terminal(m) /\ memory' = m
         /\ store' = [store EXCEPT !.status = "finished"]
      \/ OwnerToQueue(m) /\ Flushed(autoQueueSpectatorOwnerUnlocked(m))
      \/ memory' = checkOwnerDisconnectedAtTerminal(m, live) /\ UNCHANGED store
  BY DEF RetryTerminalTask, TerminalRetryKind
<1> HIDE DEF m
<1>4. CASE memory' = m /\ UNCHANGED store
  BY <1>1, <1>2, <1>4, QuietMemory
<1>5. CASE /\ Terminal(m) /\ memory' = m
           /\ store' = [store EXCEPT !.status = "finished"]
  <2>1. /\ store' \in StoreType /\ store'.game = store.game
        /\ SameRoster(memory, store, store')
    BY <1>1, <1>5 DEF IInv, TypeOK, StoreType, SameRoster, Terminal, Same
  <2>2. TypeOK'
    BY <1>1, <1>2, <1>5, <2>1, Typed
  <2> QED
    BY <1>1, <1>2, <1>5, <2>1, <2>2, QuietStep
<1>6. CASE OwnerToQueue(m) /\ Flushed(autoQueueSpectatorOwnerUnlocked(m))
  <2> DEFINE n == autoQueueSpectatorOwnerUnlocked(m)
  <2>1. /\ n \in MemoryType /\ n.phase = memory.phase /\ VotesFair(n, clicked)
        /\ RollsBack /\ Agreed =>
             Seated(n, store, live, watching) /\ Promised(n, kicked)
    BY <1>1, QueuedFits
  <2>2. memory.phase # "none"
    BY <1>1, <1>6 DEF OwnerToQueue, Same
  <2>3. memory' = Clean(n) /\ store' = Written(store, n)
    BY <1>6 DEF Flushed
  <2>4. RollsBack /\ Agreed => store.status # "waiting"
    BY <2>2 DEF Agreed, InStore
  <2> HIDE DEF n
  <2> QED
    BY <1>2, <2>1, <2>2, <2>3, <2>4, WrittenStep DEF IInv, TypeOK
<1>7. CASE memory' = checkOwnerDisconnectedAtTerminal(m, live) /\ UNCHANGED store
  <2>1. /\ memory' \in MemoryType /\ Same(m, memory') /\ memory'.dirty = m.dirty
    BY <1>1, <1>7, OwnerChecked DEF IInv
  <2> QED
    BY <1>1, <1>2, <1>7, <2>1, QuietMemory DEF Same
<1> QED
  BY <1>3, <1>4, <1>5, <1>6, <1>7

LEMMA CoolDownKeeps == ASSUME IInv, CoolDown PROVE IInv'
<1>1. /\ memory.anchor = "hot" /\ memory' = [memory EXCEPT !.anchor = "cooled"]
      /\ UNCHANGED <<store, live, watching, closing, late, shown, clicked, kicked,
                     happened>>
  BY DEF CoolDown
<1>2. /\ memory' \in MemoryType /\ memory'.anchor = "cooled"
      /\ memory'.phase = memory.phase /\ memory'.players = memory.players
      /\ memory'.connected = memory.connected /\ memory'.out = memory.out
      /\ memory'.queue = memory.queue /\ memory'.excluded = memory.excluded
      /\ memory'.votes = memory.votes /\ memory'.dirty = memory.dirty
  BY <1>1 DEF IInv, TypeOK, MemoryType
<1>3. TypeOK'
  BY <1>1, <1>2, Typed DEF IInv, TypeOK, OthersOK
<1>4. VotesFair(memory, clicked)'
  BY <1>1, <1>2 DEF IInv, VotesFair, Terminal, Voters
<1>5. ASSUME RollsBack, Agreed PROVE Agreed'
  BY <1>1, <1>2, <1>5 DEF Agreed, Seated, InStore, Promised
<1> QED
  BY <1>3, <1>4, <1>5 DEF IInv, RollsBack

LEMMA DeadlineKeeps == ASSUME IInv, DeadlinePasses PROVE IInv'
<1>1. OthersOK' /\ UNCHANGED <<memory, store, live, watching, clicked, kicked>>
  BY DEF DeadlinePasses, IInv, TypeOK, OthersOK
<1> QED
  BY <1>1, QuietMemory DEF IInv, TypeOK, Same

(* The blitz deadline ends the game in the state m, which is memory but for *)
(* a vote or a timer.                                                       *)
LEMMA BlitzEnds ==
    ASSUME IInv, OthersOK', NEW m \in MemoryType,
           m.phase = memory.phase /\ m.players = memory.players,
           m.queue = memory.queue /\ m.excluded = memory.excluded,
           m.anchor = memory.anchor,
           m.phase \in {"playing", "round_end"}, endGameByBlitz(m),
           UNCHANGED <<live, watching, kicked>>
    PROVE  IInv'
<1> DEFINE over == [m EXCEPT !.phase = "game_over"]
           n == markDirty(over)
<1>1. /\ over \in MemoryType /\ over.phase = "game_over"
      /\ over.players = memory.players /\ over.queue = memory.queue
      /\ over.excluded = memory.excluded /\ over.anchor = memory.anchor
  BY DEF MemoryType, Phase
<1> HIDE DEF over
<1>2. n \in MemoryType /\ Same(over, n) /\ n.dirty = createSnapshot(over)
  BY <1>1, Marked
<1>3. emitTerminalStateIfNeededUnlocked(n, "none")
  BY DEF endGameByBlitz, over
<1> HIDE DEF n
<1>4. VotesFair(n, clicked)
  BY <1>1, <1>2 DEF VotesFair, Same, Terminal
<1>5. ASSUME RollsBack, Agreed
      PROVE  /\ Seated(n, store, live, watching) /\ InStore(n, store, live)
             /\ Promised(n, kicked) /\ Promised(n.dirty, kicked)
  <2>1. Promised(over, kicked)
    BY <1>1, <1>5 DEF Agreed, Promised
  <2>2. Promised(n, kicked)
    BY <1>2, <2>1 DEF Promised, Same
  <2>3. Promised(n.dirty, kicked) /\ n.dirty.phase # "none"
    BY <1>1, <1>2, <2>1, SnapshotPromised
  <2> QED
    BY <1>1, <1>2, <1>5, <2>2, <2>3 DEF Agreed, Seated, InStore, Same
<1> QED
  BY <1>1, <1>2, <1>3, <1>4, <1>5, EmitStep DEF Same

(* Where the announcement leaves what is neither memory nor store.          *)
LEMMA EmitTyped ==
    ASSUME TypeOK, NEW m \in MemoryType, NEW fault,
           emitTerminalStateIfNeededUnlocked(m, fault),
           UNCHANGED <<live, watching, closing, late, kicked, happened>>
    PROVE  OthersOK'
<1>1. shown' \in Phase /\ clicked' \subseteq Human
  BY DEF emitTerminalStateIfNeededUnlocked, MemoryType, TypeOK
<1> QED
  BY <1>1 DEF TypeOK, OthersOK

LEMMA BlitzTyped ==
    ASSUME TypeOK, NEW m \in MemoryType, endGameByBlitz(m),
           UNCHANGED <<live, watching, closing, late, kicked, happened>>
    PROVE  OthersOK'
<1> DEFINE over == [m EXCEPT !.phase = "game_over"]
<1>1. over \in MemoryType
  BY DEF MemoryType, Phase
<1>2. emitTerminalStateIfNeededUnlocked(markDirty(over), "none")
  BY DEF endGameByBlitz
<1> QED
  BY <1>1, <1>2, Marked, EmitTyped

LEMMA BlitzKeeps == ASSUME IInv, BlitzTimer PROVE IInv'
<1> DEFINE m == [memory EXCEPT !.blitz = @ \ {"timer"}]
<1>1. m \in MemoryType /\ Same(memory, m) /\ m.dirty = memory.dirty
  BY BlitzSame DEF IInv, TypeOK, MemoryType
<1>2. UNCHANGED <<live, watching, closing, late, kicked, happened>>
  BY DEF BlitzTimer
<1>3. \/ memory' = [m EXCEPT !.blitz = {}] /\ UNCHANGED <<store, shown, clicked>>
      \/ memory' = m /\ UNCHANGED <<store, shown, clicked>>
      \/ m.phase = "playing" /\ endGameByBlitz(m)
  <2>1. m.phase \in Phase
    BY <1>1 DEF MemoryType
  <2> QED
    BY <2>1 DEF BlitzTimer, Phase
<1> HIDE DEF m
<1>4. CASE memory' = [m EXCEPT !.blitz = {}] /\ UNCHANGED <<store, shown, clicked>>
  <2>1. OthersOK'
    BY <1>2, <1>4 DEF IInv, TypeOK, OthersOK
  <2>2. memory' \in MemoryType /\ Same(memory, memory') /\ memory'.dirty = memory.dirty
    BY <1>1, <1>4, BlitzSame DEF Same
  <2> QED
    BY <1>2, <1>4, <2>1, <2>2, QuietMemory
<1>5. CASE memory' = m /\ UNCHANGED <<store, shown, clicked>>
  <2>1. OthersOK'
    BY <1>2, <1>5 DEF IInv, TypeOK, OthersOK
  <2> QED
    BY <1>1, <1>2, <1>5, <2>1, QuietMemory
<1>6. CASE m.phase = "playing" /\ endGameByBlitz(m)
  BY <1>1, <1>2, <1>6, BlitzTyped, BlitzEnds DEF IInv, Same
<1> QED
  BY <1>3, <1>4, <1>5, <1>6

-----------------------------------------------------------------------------
(* The scoreboard's events.                                                 *)

(* A player who leaves the session but not the room.                        *)
LEMMA SeatGivenUp ==
    ASSUME NEW s \in StoreType, NEW u \in Member
    PROVE  LET t == moveSeatToSpectator(s, u)
           IN  /\ t \in StoreType /\ t.game = s.game /\ t.status = s.status
               /\ t.seats = s.seats \ {u}
               /\ t.watchers = s.watchers \cup ({u} \cap Human)
BY DEF StoreType, moveSeatToSpectator

LEMMA WithoutFair ==
    ASSUME NEW m, NEW n, NEW u, NEW c, VotesFair(m, c),
           n.phase = m.phase, n.players = m.players \ {u},
           n.connected = m.connected \ {u}, n.out = m.out \ {u},
           n.votes = m.votes \ {u}, n.anchor = m.anchor
    PROVE  VotesFair(n, c)
BY DEF VotesFair, Terminal, Voters

LEMMA KickKeeps ==
    ASSUME IInv, NEW u \in Member, kickPlayer(u)
    PROVE  IInv'
<1> DEFINE r == removePlayer(memory, u)
           m == [r EXCEPT !.queue = @ \ {u}, !.excluded = @ \cup ({u} \cap Human)]
           s == moveSeatToSpectator(store, u)
<1>1. TypeOK /\ memory \in MemoryType /\ store \in StoreType /\ memory.phase = "round_end"
  BY DEF IInv, TypeOK, kickPlayer, Open
<1>2. Without(memory, r, u)
  BY <1>1, Removed
<1>3. /\ s \in StoreType /\ s.game = store.game /\ s.status = store.status
      /\ s.seats = store.seats \ {u}
      /\ s.watchers = store.watchers \cup ({u} \cap Human)
  BY <1>1, SeatGivenUp
<1>4. \/ /\ Committed(m, s, watching \cup ({u} \cap live))
         /\ kicked' = kicked \cup ({u} \cap Human)
         /\ UNCHANGED <<live, closing, late, shown, clicked, happened>>
      \/ /\ \/ RolledBack(memory, watching)
            \/ RollbackFailed(memory, m, s, watching)
         /\ UNCHANGED <<live, closing, late, shown, clicked, kicked>>
      \/ Lost(s)
  BY DEF kickPlayer
<1>5. /\ m \in MemoryType /\ m.phase = memory.phase
      /\ m.players = memory.players \ {u} /\ m.connected = memory.connected \ {u}
      /\ m.out = memory.out \ {u} /\ m.votes = memory.votes \ {u}
      /\ m.anchor = memory.anchor /\ m.queue = memory.queue \ {u}
      /\ m.excluded = memory.excluded \cup ({u} \cap Human)
  <2> HIDE DEF r
  <2> QED
    BY <1>2 DEF Without, MemoryType
<1> HIDE DEF r, m, s
<1>6. VotesFair(m, clicked)
  BY <1>5, WithoutFair DEF IInv
<1>7. CASE /\ Committed(m, s, watching \cup ({u} \cap live))
           /\ kicked' = kicked \cup ({u} \cap Human)
           /\ UNCHANGED <<live, closing, late, shown, clicked, happened>>
  <2>1. OthersOK'
    BY <1>1, <1>7 DEF TypeOK, OthersOK, Committed
  <2>2. ASSUME RollsBack, Agreed
        PROVE  /\ s.status # "waiting"
               /\ Seated(m, s, live', watching') /\ Promised(m, kicked')
    <3>1. s.status # "waiting"
      BY <1>1, <1>3, <2>2 DEF Agreed, InStore
    <3>2. Seated(m, s, live', watching')
      BY <1>1, <1>3, <1>5, <1>7, <2>2, MemberAssumption
      DEF Agreed, Seated, Committed, TypeOK
    <3>3. Cardinality(m.players) + Cardinality(m.queue) <= MaxPlayers
      <4>1. m.players \subseteq memory.players /\ m.queue \subseteq memory.queue
        BY <1>5
      <4> QED
        BY <1>1, <2>2, <4>1, FewerFit DEF Agreed, Promised
    <3>4. Promised(m, kicked')
      BY <1>1, <1>5, <1>7, <2>2, <3>3 DEF Agreed, Promised
    <3> QED
      BY <3>1, <3>2, <3>4
  <2> QED
    BY <1>1, <1>3, <1>5, <1>6, <1>7, <2>1, <2>2, WrittenStep DEF Committed
<1>8. CASE /\ \/ RolledBack(memory, watching)
              \/ RollbackFailed(memory, m, s, watching)
           /\ UNCHANGED <<live, closing, late, shown, clicked, kicked>>
  BY <1>1, <1>3, <1>5, <1>8, RolledBackStep DEF IInv, Agreed, InStore, TypeOK
<1>9. CASE Lost(s)
  BY <1>1, <1>3, <1>9, LostStep DEF Agreed, InStore
<1> QED
  BY <1>4, <1>7, <1>8, <1>9

LEMMA LeaveToSpectateKeeps ==
    ASSUME IInv, NEW u \in Human, leaveToSpectate(u)
    PROVE  IInv'
<1> DEFINE m == removePlayer(memory, u)
           s == moveSeatToSpectator(store, u)
<1>1. /\ TypeOK /\ memory \in MemoryType /\ store \in StoreType
      /\ memory.phase = "round_end" /\ u \in live /\ u \in Member
  BY DEF IInv, TypeOK, leaveToSpectate, Open, Member
<1>2. Without(memory, m, u)
  BY <1>1, Removed
<1>3. /\ s \in StoreType /\ s.game = store.game /\ s.status = store.status
      /\ s.seats = store.seats \ {u}
      /\ s.watchers = store.watchers \cup ({u} \cap Human)
  BY <1>1, SeatGivenUp
<1>4. \/ /\ Committed(m, s, watching \cup {u})
         /\ UNCHANGED <<live, closing, late, shown, clicked, kicked, happened>>
      \/ /\ \/ RolledBack(memory, watching)
            \/ RollbackFailed(memory, m, s, watching)
         /\ UNCHANGED <<live, closing, late, shown, clicked, kicked>>
      \/ Lost(s)
  BY DEF leaveToSpectate
<1> HIDE DEF m, s
<1>5. VotesFair(m, clicked)
  BY <1>2, WithoutFair DEF IInv, Without
<1>6. CASE /\ Committed(m, s, watching \cup {u})
           /\ UNCHANGED <<live, closing, late, shown, clicked, kicked, happened>>
  <2>1. OthersOK'
    BY <1>1, <1>6 DEF TypeOK, OthersOK, Committed
  <2>2. ASSUME RollsBack, Agreed
        PROVE  /\ s.status # "waiting"
               /\ Seated(m, s, live', watching') /\ Promised(m, kicked')
    <3>1. s.status # "waiting"
      BY <1>1, <1>3, <2>2 DEF Agreed, InStore
    <3>2. Seated(m, s, live', watching')
      BY <1>1, <1>2, <1>3, <1>6, <2>2 DEF Agreed, Seated, Committed, Without
    <3>3. Cardinality(m.players) + Cardinality(m.queue) <= MaxPlayers
      <4>1. m.players \subseteq memory.players /\ m.queue \subseteq memory.queue
        BY <1>2 DEF Without
      <4> QED
        BY <1>1, <2>2, <4>1, FewerFit DEF Agreed, Promised
    <3>4. Promised(m, kicked')
      BY <1>1, <1>2, <1>6, <2>2, <3>3 DEF Agreed, Promised, Without
    <3> QED
      BY <3>1, <3>2, <3>4
  <2> QED
    BY <1>1, <1>2, <1>3, <1>5, <1>6, <2>1, <2>2, WrittenStep DEF Committed, Without
<1>7. CASE /\ \/ RolledBack(memory, watching)
              \/ RollbackFailed(memory, m, s, watching)
           /\ UNCHANGED <<live, closing, late, shown, clicked, kicked>>
  BY <1>1, <1>2, <1>3, <1>7, RolledBackStep DEF IInv, Agreed, InStore, TypeOK, Without
<1>8. CASE Lost(s)
  BY <1>1, <1>3, <1>8, LostStep DEF Agreed, InStore
<1> QED
  BY <1>4, <1>6, <1>7, <1>8

LEMMA SpectatorJoinKeeps ==
    ASSUME IInv, NEW u \in Human, spectatorJoin(u)
    PROVE  IInv'
<1> DEFINE q == IF u \in memory.queue THEN memory.queue \ {u} ELSE memory.queue \cup {u}
           m == [memory EXCEPT !.queue = q]
<1>1. /\ TypeOK /\ memory \in MemoryType /\ store \in StoreType /\ memory.phase # "none"
      /\ UNCHANGED <<live, watching, closing, late, shown, clicked, kicked, happened>>
  BY DEF IInv, TypeOK, spectatorJoin
<1>2. memory' = Clean(m) /\ store' = Written(store, m)
  BY DEF spectatorJoin, Flushed
<1>3. q \in SUBSET Human
  BY <1>1 DEF MemoryType
<1> HIDE DEF q
<1>4. Queued(memory, m, q)
  BY <1>1, <1>3, QueueSet
<1> HIDE DEF m
<1>5. OthersOK'
  BY <1>1 DEF TypeOK, OthersOK
<1>6. VotesFair(m, clicked')
  BY <1>1, <1>4 DEF IInv, Queued, VotesFair, Terminal, Voters
<1>7. ASSUME RollsBack, Agreed
      PROVE  /\ store.status # "waiting"
             /\ Seated(m, store, live', watching') /\ Promised(m, kicked')
  <2>1. Cardinality(m.players) + Cardinality(q) <= MaxPlayers
    <3>1. CASE u \in memory.queue
      <4>1. q \subseteq memory.queue /\ m.players \subseteq memory.players
        BY <1>4, <3>1 DEF q, Queued
      <4> QED
        BY <1>1, <1>7, <4>1, FewerFit DEF Agreed, Promised
    <3>2. CASE u \notin memory.queue
      BY <1>1, <1>4, <3>2, OneMore DEF q, spectatorJoin, Queued
    <3> QED
      BY <3>1, <3>2
  <2>2. Promised(m, kicked')
    BY <1>1, <1>4, <1>7, <2>1 DEF Agreed, Promised, Queued
  <2> QED
    BY <1>1, <1>4, <1>7, <2>2 DEF Agreed, Seated, InStore, Queued
<1> QED
  BY <1>1, <1>2, <1>4, <1>5, <1>6, <1>7, WrittenStep DEF Queued

-----------------------------------------------------------------------------
(* The next round.                                                          *)

(* Everybody in the queue gets a seat.                                      *)
LEMMA AllJoin ==
    ASSUME NEW m \in MemoryType, NEW joined \in Joining(m),
           Cardinality(m.players) + Cardinality(m.queue) <= MaxPlayers
    PROVE  /\ joined = Newcomers(m)
           /\ Cardinality(m.players \cup joined) <= MaxPlayers
<1> DEFINE N == Newcomers(m)
<1>1. m.players \in SUBSET Member /\ m.queue \in SUBSET Human /\ N \subseteq m.queue
  BY DEF MemoryType, Newcomers
<1>2. /\ IsFiniteSet(m.queue) /\ IsFiniteSet(m.players) /\ IsFiniteSet(N)
      /\ Cardinality(m.queue) \in Nat /\ Cardinality(m.players) \in Nat
      /\ Cardinality(N) \in Nat /\ MaxPlayers \in Nat
  BY <1>1, MembersFinite, BoundAssumption
<1>3. Cardinality(N) <= Cardinality(m.queue)
  BY <1>1, <1>2, FS_Subset
<1>4. Cardinality(N) <= MaxPlayers - Cardinality(m.players)
  BY <1>2, <1>3
<1>5. joined = N
  BY <1>4 DEF Joining
<1>6. m.players \cap N = {}
  BY DEF Newcomers
<1>7. Cardinality(m.players \cup N) = Cardinality(m.players) + Cardinality(N)
  <2> HIDE DEF N
  <2>1. Cardinality(m.players \cup N)
          = Cardinality(m.players) + Cardinality(N) - Cardinality(m.players \cap N)
    BY <1>2, FS_Union
  <2>2. Cardinality(m.players \cap N) = 0
    BY <1>6, FS_EmptySet
  <2> QED
    BY <1>2, <2>1, <2>2
<1> QED
  BY <1>2, <1>4, <1>5, <1>7

LEMMA JoiningKnown ==
    ASSUME NEW m \in MemoryType, NEW joined \in Joining(m)
    PROVE  joined \subseteq Newcomers(m) /\ joined \subseteq Human
BY DEF Joining, Newcomers, MemoryType

LEMMA DealtKnown ==
    ASSUME TypeOK, NEW m \in MemoryType, NEW joined \in SUBSET Human
    PROVE  LET n == Dealt(m, joined)
           IN  /\ n \in MemoryType /\ n.phase = "playing" /\ n.anchor = "none"
               /\ n.players = m.players \cup joined /\ n.excluded = {}
               /\ n.queue = Newcomers(m) \ joined /\ n.round = m.round + 1
<1> DEFINE a == processPendingSpectatorJoins(m, joined)
<1>1. /\ a \in MemoryType /\ a.players = m.players \cup joined
      /\ a.queue = Newcomers(m) \ joined /\ a.round = m.round
  BY DEF TypeOK, MemoryType, Member, processPendingSpectatorJoins, Newcomers
<1> HIDE DEF a
<1>2. Dealt(m, joined) = [a EXCEPT !.phase = "playing", !.round = a.round + 1,
                             !.votes = {}, !.anchor = "none", !.excluded = {}]
  BY DEF Dealt, a
<1> DEFINE n == Dealt(m, joined)
<1>3. n \in MemoryType /\ n.round = a.round + 1
  <2>1. a.round + 1 \in Nat
    BY <1>1 DEF MemoryType
  <2> QED
    BY <1>1, <1>2, <2>1 DEF MemoryType, Phase
<1>4. /\ n.phase = "playing" /\ n.anchor = "none" /\ n.excluded = {}
      /\ n.players = a.players /\ n.queue = a.queue
  BY <1>1, <1>2 DEF MemoryType
<1> HIDE DEF n
<1> QED
  BY <1>1, <1>3, <1>4 DEF n

LEMMA SeatsTaken ==
    ASSUME NEW s \in StoreType, NEW joined \in SUBSET Human
    PROVE  LET t == moveSpectatorToSeat(s, joined)
           IN  /\ t \in StoreType /\ t.game = s.game /\ t.status = s.status
               /\ t.seats = s.seats \cup joined
               /\ t.watchers = s.watchers \ joined
BY DEF StoreType, Member, moveSpectatorToSeat

(* The state m is memory with one more vote, which nobody waits for.        *)
Voted(m) ==
    /\ m \in MemoryType /\ m.dirty = memory.dirty
    /\ m.phase = memory.phase /\ m.players = memory.players
    /\ m.connected = memory.connected /\ m.out = memory.out
    /\ m.round = memory.round /\ m.queue = memory.queue
    /\ m.excluded = memory.excluded /\ m.anchor = memory.anchor

LEMMA StartKeeps ==
    ASSUME IInv, NEW m, Voted(m), VotesFair(m, clicked), m.phase = "round_end",
           startNextRound(m)
    PROVE  IInv'
<1>1. TypeOK /\ memory \in MemoryType /\ store \in StoreType /\ m \in MemoryType
  BY DEF IInv, TypeOK, Voted
<1>2. CASE late /\ "deadline" \in m.blitz
  <2>1. /\ endGameByBlitz(m)
        /\ UNCHANGED <<live, watching, closing, late, kicked, happened>>
    BY <1>2 DEF startNextRound
  <2> QED
    BY <1>1, <2>1, BlitzTyped, BlitzEnds DEF Voted
<1>3. CASE ~(late /\ "deadline" \in m.blitz)
  <2>1. PICK joined \in Joining(m) :
          LET next == Dealt(m, joined)
              s == moveSpectatorToSeat(store, joined)
              unmarked == live \cap store.watchers
          IN  \/ /\ memory' = Clean(Restored(m)) /\ store' = Written(store, m)
                 /\ watching' = unmarked
                 /\ UNCHANGED <<live, closing, late, shown, clicked, kicked, happened>>
              \/ /\ Committed(next, s, watching \ joined)
                 /\ clicked' = {} /\ kicked' = {}
                 /\ UNCHANGED <<live, closing, late, shown, happened>>
              \/ /\ \/ RolledBack(m, unmarked)
                    \/ RollbackFailed(m, next, s, watching \ joined)
                 /\ UNCHANGED <<live, closing, late, shown, clicked, kicked>>
              \/ Lost(s)
    BY <1>3 DEF startNextRound
  <2> DEFINE next == Dealt(m, joined)
             s == moveSpectatorToSeat(store, joined)
             unmarked == live \cap store.watchers
  <2>2. joined \subseteq Newcomers(m) /\ joined \in SUBSET Human
    BY <1>1, JoiningKnown
  <2>3. /\ next \in MemoryType /\ next.phase = "playing" /\ next.anchor = "none"
        /\ next.players = m.players \cup joined /\ next.excluded = {}
        /\ next.queue = Newcomers(m) \ joined
    BY <1>1, <2>2, DealtKnown
  <2>4. /\ s \in StoreType /\ s.game = store.game /\ s.status = store.status
        /\ s.seats = store.seats \cup joined /\ s.watchers = store.watchers \ joined
    BY <1>1, <2>2, SeatsTaken
  <2>5. ASSUME RollsBack, Agreed
        PROVE  /\ store.status # "waiting" /\ Seated(m, store, live, unmarked)
               /\ Promised(m, kicked)
    BY <2>5 DEF Agreed, InStore, Seated, Promised, Voted
  <2>6. unmarked \subseteq live /\ watching \ joined \subseteq live
    BY <1>1 DEF TypeOK
  <2> HIDE DEF next, s, unmarked
  <2>7. CASE /\ memory' = Clean(Restored(m)) /\ store' = Written(store, m)
             /\ watching' = unmarked
             /\ UNCHANGED <<live, closing, late, shown, clicked, kicked, happened>>
    <3>1. /\ Restored(m) \in MemoryType /\ Same(m, Restored(m))
          /\ VotesFair(Restored(m), clicked)
      BY <1>1, RestoredSame, SameVotesFair
    <3>2. OthersOK'
      BY <1>1, <2>6, <2>7 DEF TypeOK, OthersOK
    <3>3. store' = Written(store, Restored(m))
      BY <2>7, <3>1, SameSnapshot DEF Written
    <3>4. RollsBack /\ Agreed =>
            /\ store.status # "waiting"
            /\ Seated(Restored(m), store, live', watching')
            /\ Promised(Restored(m), kicked')
      BY <2>5, <2>7, <3>1 DEF Same, Seated, Promised
    <3>5. Restored(m).phase # "none" /\ VotesFair(Restored(m), clicked')
      BY <2>7, <3>1 DEF Same
    <3> QED
      BY <1>1, <2>7, <3>1, <3>2, <3>3, <3>4, <3>5, WrittenStep
  <2>8. CASE /\ Committed(next, s, watching \ joined)
             /\ clicked' = {} /\ kicked' = {}
             /\ UNCHANGED <<live, closing, late, shown, happened>>
    <3>1. OthersOK'
      BY <1>1, <2>8 DEF TypeOK, OthersOK, Committed
    <3>2. VotesFair(next, clicked')
      BY <2>3 DEF VotesFair, Terminal
    <3>3. ASSUME RollsBack, Agreed
          PROVE  /\ s.status # "waiting"
                 /\ Seated(next, s, live', watching') /\ Promised(next, kicked')
      <4>1. /\ joined = Newcomers(m)
            /\ Cardinality(m.players \cup joined) <= MaxPlayers
        BY <1>1, <2>5, <3>3, AllJoin DEF Promised
      <4>2. Cardinality(next.players) + Cardinality(next.queue) <= MaxPlayers
        <5>1. next.queue = {} /\ next.players \in SUBSET Member
          BY <2>3, <4>1 DEF MemoryType
        <5>2. Cardinality(next.queue) = 0 /\ Cardinality(next.players) \in Nat
          BY <5>1, MembersFinite, FS_EmptySet
        <5> QED
          BY <2>3, <4>1, <5>2, BoundAssumption
      <4>3. Promised(next, kicked')
        BY <2>3, <2>8, <4>2 DEF Promised
      <4>4. Seated(next, s, live', watching')
        BY <2>3, <2>4, <2>8, <3>3 DEF Seated, Committed, Agreed, Voted
      <4> QED
        BY <2>4, <2>5, <3>3, <4>3, <4>4
    <3> QED
      BY <2>3, <2>4, <2>8, <3>1, <3>2, <3>3, WrittenStep DEF Committed
  <2>9. CASE /\ \/ RolledBack(m, unmarked)
                \/ RollbackFailed(m, next, s, watching \ joined)
             /\ UNCHANGED <<live, closing, late, shown, clicked, kicked>>
    BY <1>1, <2>3, <2>4, <2>5, <2>6, <2>9, RolledBackStep
  <2>10. CASE Lost(s)
    BY <1>1, <2>4, <2>10, LostStep DEF Agreed, InStore
  <2> QED
    BY <2>1, <2>7, <2>8, <2>9, <2>10 DEF next, s, unmarked
<1> QED
  BY <1>2, <1>3

LEMMA NextRoundKeeps ==
    ASSUME IInv, NEW u \in Human, nextRound(u)
    PROVE  IInv'
<1> DEFINE m == [memory EXCEPT !.votes = @ \cup {u}]
<1>1. TypeOK /\ memory \in MemoryType /\ memory.phase = "round_end"
  BY DEF IInv, TypeOK, nextRound, Open
<1>2. Voted(m) /\ m.votes = memory.votes \cup {u}
  BY <1>1 DEF MemoryType, Member, Voted
<1>3. \/ /\ u \in memory.votes \/ Voters(m) = {}
         /\ startNextRound(m)
      \/ /\ memory' = m /\ clicked' = clicked \cup {u}
         /\ UNCHANGED <<store, live, watching, closing, late, shown, kicked, happened>>
  BY DEF nextRound
<1> HIDE DEF m
<1>4. CASE /\ u \in memory.votes \/ Voters(m) = {}
           /\ startNextRound(m)
  <2>1. VotesFair(m, clicked)
    BY <1>2, <1>4 DEF IInv, VotesFair, Voted, Terminal, Voters
  <2> QED
    BY <1>1, <1>2, <1>4, <2>1, StartKeeps DEF Voted
<1>5. CASE /\ memory' = m /\ clicked' = clicked \cup {u}
           /\ UNCHANGED <<store, live, watching, closing, late, shown, kicked, happened>>
  <2>1. TypeOK'
    BY <1>1, <1>2, <1>5, Typed DEF TypeOK, OthersOK, Voted
  <2>2. VotesFair(memory, clicked)'
    BY <1>2, <1>5 DEF IInv, VotesFair, Voted, Terminal, Voters
  <2>3. ASSUME RollsBack, Agreed PROVE Agreed'
    BY <1>2, <1>5, <2>3 DEF Agreed, Seated, InStore, Promised, Voted
  <2> QED
    BY <2>1, <2>2, <2>3 DEF IInv, RollsBack
<1> QED
  BY <1>3, <1>4, <1>5

LEMMA BackToRoomKeeps == ASSUME IInv, backToRoom PROVE IInv'
<1> DEFINE everyone == [store EXCEPT !.seats = {},
                           !.watchers = @ \cup (memory.players \cap Human)]
           waiting == [everyone EXCEPT !.status = "waiting"]
<1>1. /\ TypeOK /\ memory \in MemoryType /\ store \in StoreType
      /\ memory.phase = "game_over"
  BY DEF IInv, TypeOK, backToRoom
<1>2. /\ everyone \in StoreType /\ everyone.game = store.game
      /\ everyone.status = store.status
  BY <1>1 DEF StoreType
<1>3. /\ waiting \in StoreType /\ waiting.game = store.game
      /\ waiting.status = "waiting"
  <2> HIDE DEF everyone
  <2> QED
    BY <1>2 DEF StoreType
<1>4. \/ /\ memory' = [Down EXCEPT !.transfer = memory.transfer]
         /\ store' = [waiting EXCEPT !.game = NoSnapshot]
         /\ watching' = live
         /\ UNCHANGED <<live, closing, late, shown, clicked, kicked, happened>>
      \/ /\ Fails("commit") /\ Failed(1)
         /\ memory' = Clean([memory EXCEPT !.blitz = {}])
         /\ store' = Written([store EXCEPT !.status = "finished"], memory)
         /\ UNCHANGED <<live, watching, closing, late, shown, clicked, kicked>>
      \/ \E s \in {everyone, waiting} : Lost(s)
  BY DEF backToRoom
<1> HIDE DEF everyone, waiting
<1>5. CASE /\ memory' = [Down EXCEPT !.transfer = memory.transfer]
           /\ store' = [waiting EXCEPT !.game = NoSnapshot]
           /\ watching' = live
           /\ UNCHANGED <<live, closing, late, shown, clicked, kicked, happened>>
  <2>1. /\ memory' \in MemoryType /\ memory'.phase = "none"
        /\ memory'.anchor = "none" /\ memory'.dirty = NoSnapshot
        /\ memory'.players = {}
    BY <1>1, <1>5, DownTyped, NoSnapshotTyped DEF Down, MemoryType
  <2>2. /\ store' \in StoreType /\ store'.game = NoSnapshot
        /\ store'.status = "waiting"
    BY <1>3, <1>5, NoSnapshotTyped DEF StoreType
  <2>3. TypeOK'
    BY <1>1, <1>5, <2>1, <2>2, Typed DEF TypeOK, OthersOK
  <2>4. VotesFair(memory, clicked)'
    BY <2>1 DEF VotesFair, Terminal
  <2>5. Agreed'
    BY <2>1, <2>2, NothingPromised DEF Agreed, Seated, InStore, Promised
  <2> QED
    BY <2>3, <2>4, <2>5 DEF IInv, RollsBack
<1>6. CASE /\ Fails("commit") /\ Failed(1)
           /\ memory' = Clean([memory EXCEPT !.blitz = {}])
           /\ store' = Written([store EXCEPT !.status = "finished"], memory)
           /\ UNCHANGED <<live, watching, closing, late, shown, clicked, kicked>>
  <2> DEFINE n == [memory EXCEPT !.blitz = {}]
             s == [store EXCEPT !.status = "finished"]
  <2>1. n \in MemoryType /\ Same(memory, n)
    BY <1>1, BlitzSame
  <2>2. /\ s \in StoreType /\ s.status = "finished"
        /\ s.seats = store.seats /\ s.watchers = store.watchers
    BY <1>1 DEF StoreType
  <2>3. memory' = Clean(n) /\ store' = Written(s, n)
    BY <1>6, <2>1, SameSnapshot DEF Written
  <2> HIDE DEF n, s
  <2>4. OthersOK'
    BY <1>1, <1>6, OneFailureCounted DEF TypeOK, OthersOK
  <2>5. VotesFair(n, clicked')
    BY <1>6, <2>1, SameVotesFair DEF IInv
  <2>6. RollsBack /\ Agreed => Seated(n, s, live', watching') /\ Promised(n, kicked')
    BY <1>6, <2>1, <2>2 DEF Agreed, Seated, Promised, Same
  <2>7. n.phase # "none"
    BY <1>1, <2>1 DEF Same
  <2> QED
    BY <2>1, <2>2, <2>3, <2>4, <2>5, <2>6, <2>7, WrittenStep
<1>7. CASE \E s \in {everyone, waiting} : Lost(s)
  BY <1>1, <1>2, <1>3, <1>7, LostStep DEF Agreed, InStore
<1> QED
  BY <1>4, <1>5, <1>6, <1>7

-----------------------------------------------------------------------------
(* Sockets come and go.                                                     *)

LEMMA CrashKeeps == ASSUME IInv, Crash PROVE IInv'
BY LostStep DEF Crash, IInv, TypeOK, Agreed, InStore

LEMMA DropCounted ==
    ASSUME TypeOK, happened.drops < MaxDrops,
           happened' = [happened EXCEPT !.drops = @ + 1]
    PROVE  happened' \in [fails : 0..MaxFails, drops : 0..MaxDrops,
                          crashes : 0..MaxCrashes]
BY BoundAssumption DEF TypeOK

LEMMA DropKeeps == ASSUME IInv, NEW u \in Human, Drop(u) PROVE IInv'
<1>1. /\ live' = live \ {u} /\ watching' = watching \ {u}
      /\ UNCHANGED <<memory, store, late, shown, clicked, kicked>>
  BY DEF Drop
<1>2. TypeOK'
  BY <1>1, DropCounted DEF Drop, IInv, TypeOK
<1>3. ASSUME RollsBack, Agreed PROVE Agreed'
  BY <1>1, <1>3 DEF Agreed, Seated, InStore
<1> QED
  BY <1>1, <1>2, <1>3 DEF IInv, RollsBack

LEMMA AwayFair ==
    ASSUME NEW m, NEW n, NEW u \in Human, NEW c, Away(m, n, u), VotesFair(m, c)
    PROVE  VotesFair(n, c)
BY DEF Away, VotesFair, Terminal, Voters

LEMMA AwaySeated ==
    ASSUME NEW m, NEW n, NEW u, NEW k, Away(m, n, u)
    PROVE  /\ Promised(m, k) => Promised(n, k)
           /\ \A s, l, w : Seated(m, s, l, w) => Seated(n, s, l, w)
BY DEF Away, Promised, Seated

LEMMA DisconnectKeeps == ASSUME IInv, NEW u \in Human, Disconnect(u) PROVE IInv'
<1> DEFINE m == IF u = store.owner /\ Governed(memory)
                THEN scheduleOwnerTransfer(memory, u) ELSE memory
           n == addAutopilotVote([m EXCEPT !.connected = @ \ {u}], u)
<1>1. /\ memory \in MemoryType /\ closing' = closing \ {u}
      /\ UNCHANGED <<live, watching, late, shown, clicked, kicked>>
  BY DEF IInv, TypeOK, Disconnect
<1>2. m \in MemoryType /\ Same(memory, m) /\ m.dirty = memory.dirty
  BY <1>1, Scheduled DEF scheduleOwnerTransfer, Same
<1>3. \/ UNCHANGED <<memory, store, happened>>
      \/ memory' = m /\ UNCHANGED <<store, happened>>
      \/ memory.phase # "none" /\ FlushedOrLeft(n)
  BY DEF Disconnect
<1> HIDE DEF m
<1>4. CASE UNCHANGED <<memory, store, happened>>
  <2>1. OthersOK'
    BY <1>1, <1>4 DEF IInv, TypeOK, OthersOK
  <2> QED
    BY <1>1, <1>4, <2>1, QuietMemory DEF Same
<1>5. CASE memory' = m /\ UNCHANGED <<store, happened>>
  <2>1. OthersOK'
    BY <1>1, <1>5 DEF IInv, TypeOK, OthersOK
  <2> QED
    BY <1>1, <1>2, <1>5, <2>1, QuietMemory
<1>6. CASE memory.phase # "none" /\ FlushedOrLeft(n)
  <2>1. Away(m, n, u) /\ n \in MemoryType
    BY <1>2, GoneAway DEF Away
  <2> HIDE DEF n
  <2>2. VotesFair(n, clicked')
    BY <1>1, <1>2, <2>1, SameVotesFair, AwayFair DEF IInv
  <2>3. RollsBack /\ Agreed => Seated(n, store, live, watching) /\ Promised(n, kicked)
    <3>1. RollsBack /\ Agreed => Seated(m, store, live, watching) /\ Promised(m, kicked)
      BY <1>2 DEF Agreed, Same, Seated, Promised
    <3> QED
      BY <2>1, <3>1, AwaySeated
  <2>4. n.phase # "none" /\ n.players = memory.players
    BY <1>2, <1>6, <2>1 DEF Away, Same
  <2>5. CASE Flushed(n) /\ UNCHANGED happened
    <3>1. OthersOK' /\ store \in StoreType
      BY <1>1, <2>5 DEF IInv, TypeOK, OthersOK
    <3>2. RollsBack /\ Agreed => store.status # "waiting"
      BY <1>6 DEF Agreed, InStore
    <3> QED
      BY <1>1, <2>1, <2>2, <2>3, <2>4, <2>5, <3>1, <3>2, WrittenStep DEF Flushed
  <2>6. CASE /\ Fails("snapshot") /\ Failed(1)
             /\ memory' = markDirty(n) /\ UNCHANGED store
    <3>1. OthersOK'
      BY <1>1, <2>6, OneFailureCounted DEF IInv, TypeOK, OthersOK
    <3>2. /\ memory' \in MemoryType /\ Same(n, memory')
          /\ memory'.dirty = createSnapshot(n)
      BY <2>1, <2>6, Marked
    <3>3. TypeOK'
      BY <2>6, <3>1, <3>2, Typed DEF IInv, TypeOK
    <3>4. VotesFair(memory, clicked)'
      BY <2>2, <3>2, SameVotesFair
    <3>5. ASSUME RollsBack, Agreed PROVE Agreed'
      <4>1. Seated(memory, store, live, watching)'
        BY <1>1, <2>3, <2>6, <3>2, <3>5 DEF Same, Seated
      <4>2. InStore(memory, store, live)'
        BY <1>1, <1>6, <2>4, <2>6, <3>2, <3>5, SnapshotPromised
        DEF Agreed, InStore, Same
      <4>3. Promised(memory, kicked)'
        BY <1>1, <2>3, <3>2, <3>5 DEF Same, Promised
      <4>4. Promised(memory.dirty, kicked)'
        BY <1>1, <2>3, <3>2, <3>5, SnapshotPromised
      <4>5. Promised(store.game, kicked)'
        BY <1>1, <2>6, <3>5 DEF Agreed
      <4> QED
        BY <4>1, <4>2, <4>3, <4>4, <4>5 DEF Agreed
    <3> QED
      BY <3>3, <3>4, <3>5 DEF IInv, RollsBack
  <2> QED
    BY <1>6, <2>5, <2>6 DEF FlushedOrLeft
<1> QED
  BY <1>3, <1>4, <1>5, <1>6

LEMMA HandedOver ==
    ASSUME TypeOK, NEW m, NEW unable, NEW s \in StoreType, NEW u,
           HandOver(m, unable, s, u)
    PROVE  /\ memory' \in {m, unable}
           /\ store' \in StoreType /\ store'.game = s.game /\ store'.seats = s.seats
           /\ store'.watchers = s.watchers /\ store'.status = s.status
<1>1. \/ store' = s
      \/ \E o \in Human : store' = [s EXCEPT !.owner = o]
  BY DEF HandOver, getEligibleLiveOwner, TypeOK
<1> QED
  BY <1>1, OwnerChanged DEF HandOver

LEMMA SpectatorLeaves ==
    ASSUME IInv, NEW u \in Human, Leave(u), u \in watching \cup store.watchers
    PROVE  IInv'
<1> DEFINE m == [memory EXCEPT !.queue = @ \ {u}]
           s == [store EXCEPT !.watchers = @ \ {u}]
<1>1. /\ TypeOK /\ memory \in MemoryType /\ store \in StoreType
      /\ memory.phase # "none"
      /\ live' = live \ {u} /\ watching' = watching \ {u}
      /\ UNCHANGED <<closing, late, shown, clicked, kicked>>
  BY DEF IInv, TypeOK, Leave
<1>2. OthersOK'
  BY <1>1, DropCounted DEF Leave, TypeOK, OthersOK
<1>3. Queued(memory, m, memory.queue \ {u}) /\ m \in MemoryType
  <2>1. memory.queue \ {u} \in SUBSET Human
    BY <1>1 DEF MemoryType
  <2> QED
    BY <1>1, <2>1, QueueSet DEF Queued
<1>4. /\ s \in StoreType /\ s.game = store.game /\ s.seats = store.seats
      /\ s.watchers = store.watchers \ {u} /\ s.status = store.status
  BY <1>1 DEF StoreType
<1>5. IF u \in memory.queue THEN HandOver(Clean(m), Clean(m), Written(s, m), u)
      ELSE HandOver(m, m, s, u)
  BY DEF Leave
<1> HIDE DEF m, s
<1>6. VotesFair(m, clicked')
  BY <1>1, <1>3 DEF IInv, Queued, VotesFair, Terminal, Voters
<1>7. ASSUME RollsBack, Agreed
      PROVE  /\ s.status # "waiting" /\ Seated(m, s, live', watching')
             /\ Promised(m, kicked')
  <2>1. Cardinality(m.players) + Cardinality(m.queue) <= MaxPlayers
    <3>1. m.players \subseteq memory.players /\ m.queue \subseteq memory.queue
      BY <1>3 DEF Queued
    <3> QED
      BY <1>1, <1>7, <3>1, FewerFit DEF Agreed, Promised
  <2>2. Promised(m, kicked')
    BY <1>1, <1>3, <1>7, <2>1 DEF Agreed, Promised, Queued
  <2>3. Seated(m, s, live', watching')
    BY <1>1, <1>3, <1>4, <1>7 DEF Agreed, Seated, Queued
  <2> QED
    BY <1>1, <1>4, <1>7, <2>2, <2>3 DEF Agreed, InStore
<1>8. CASE u \in memory.queue
  <2>1. HandOver(Clean(m), Clean(m), Written(s, m), u)
    BY <1>5, <1>8
  <2>2. /\ Written(s, m) \in StoreType /\ Written(s, m).game = createSnapshot(m)
        /\ Written(s, m).seats = s.seats /\ Written(s, m).watchers = s.watchers
        /\ Written(s, m).status = s.status
    BY <1>3, <1>4, WrittenTyped
  <2>3. memory' \in MemoryType /\ Same(m, memory') /\ memory'.dirty = NoSnapshot
    BY <1>1, <1>3, <2>1, <2>2, HandedOver, Marked
  <2>4. /\ store' \in StoreType /\ store'.game = createSnapshot(m)
        /\ store'.seats = s.seats /\ store'.watchers = s.watchers
        /\ store'.status = s.status
    BY <1>1, <2>1, <2>2, HandedOver
  <2>5. TypeOK'
    BY <1>2, <2>3, <2>4, Typed
  <2>6. RollsBack /\ Agreed =>
          /\ m.phase # "none" /\ store'.status # "waiting"
          /\ Seated(m, store', live', watching') /\ Promised(m, kicked')
    BY <1>1, <1>3, <1>7, <2>4 DEF Seated, Queued
  <2> QED
    BY <1>3, <1>6, <2>3, <2>4, <2>5, <2>6, SavedStep
<1>9. CASE u \notin memory.queue
  <2>1. /\ memory' = m /\ store' \in StoreType /\ store'.game = store.game
        /\ store'.seats = s.seats /\ store'.watchers = s.watchers
        /\ store'.status = s.status
    <3>1. HandOver(m, m, s, u)
      BY <1>5, <1>9
    <3> QED
      BY <1>1, <1>4, <3>1, HandedOver
  <2>2. TypeOK'
    BY <1>2, <1>3, <2>1, Typed
  <2>3. ASSUME RollsBack, Agreed PROVE Agreed'
    <3>1. Seated(memory, store, live, watching)'
      BY <1>7, <2>1, <2>3 DEF Seated
    <3>2. InStore(memory, store, live)'
      BY <1>1, <1>3, <1>4, <2>1, <2>3 DEF Agreed, InStore, Queued
    <3>3. /\ Promised(memory, kicked)' /\ Promised(store.game, kicked)'
          /\ Promised(memory.dirty, kicked)'
      BY <1>1, <1>3, <1>7, <2>1, <2>3 DEF Agreed, Queued
    <3> QED
      BY <3>1, <3>2, <3>3 DEF Agreed
  <2> QED
    BY <1>6, <2>1, <2>2, <2>3 DEF IInv, RollsBack
<1> QED
  BY <1>8, <1>9

LEMMA PlayerLeaves ==
    ASSUME IInv, NEW u \in Human, Leave(u), u \notin watching \cup store.watchers
    PROVE  IInv'
<1> DEFINE m == addAutopilotVote([memory EXCEPT !.connected = @ \ {u}], u)
<1>1. /\ TypeOK /\ memory \in MemoryType /\ store \in StoreType
      /\ memory.phase # "none"
      /\ live' = live \ {u} /\ watching' = watching \ {u}
      /\ UNCHANGED <<closing, late, shown, clicked, kicked>>
  BY DEF IInv, TypeOK, Leave
<1>2. OthersOK'
  BY <1>1, DropCounted DEF Leave, TypeOK, OthersOK
<1>3. Away(memory, m, u) /\ m \in MemoryType
  BY <1>1, GoneAway DEF Away
<1>4. HandOver(Clean(m), scheduleOwnerTransfer(Clean(m), u), Written(store, m), u)
  BY DEF Leave
<1> HIDE DEF m
<1>5. VotesFair(m, clicked')
  BY <1>1, <1>3, AwayFair DEF IInv
<1>6. memory' \in MemoryType /\ Same(m, memory') /\ memory'.dirty = NoSnapshot
  <2>1. /\ Clean(m) \in MemoryType /\ Same(m, Clean(m)) /\ Clean(m).dirty = NoSnapshot
    BY <1>3, Marked
  <2>2. /\ scheduleOwnerTransfer(Clean(m), u) \in MemoryType
        /\ Same(Clean(m), scheduleOwnerTransfer(Clean(m), u))
        /\ scheduleOwnerTransfer(Clean(m), u).dirty = NoSnapshot
    BY <2>1, Scheduled DEF scheduleOwnerTransfer
  <2>3. memory' \in {Clean(m), scheduleOwnerTransfer(Clean(m), u)}
    BY <1>1, <1>3, <1>4, WrittenTyped, HandedOver
  <2> QED
    BY <2>1, <2>2, <2>3 DEF Same
<1>7. /\ store' \in StoreType /\ store'.game = createSnapshot(m)
      /\ store'.seats = store.seats /\ store'.watchers = store.watchers
      /\ store'.status = store.status
  BY <1>1, <1>3, <1>4, WrittenTyped, HandedOver
<1>8. TypeOK'
  BY <1>2, <1>6, <1>7, Typed
<1>9. ASSUME RollsBack, Agreed
      PROVE  /\ m.phase # "none" /\ store'.status # "waiting"
             /\ Seated(m, store', live', watching') /\ Promised(m, kicked')
  <2>1. Seated(memory, store', live', watching')
    BY <1>1, <1>7, <1>9 DEF Agreed, Seated
  <2> QED
    BY <1>1, <1>3, <1>7, <1>9, <2>1, AwaySeated DEF Agreed, InStore, Away
<1> QED
  BY <1>3, <1>5, <1>6, <1>7, <1>8, <1>9, SavedStep

(* The room that room:rejoin finds: the one in memory, or the restored one. *)
LEMMA RestoredKnown ==
    ASSUME IInv
    PROVE  LET m == RestoredRoom.m
               s == RestoredRoom.s
               c == IF restores THEN {} ELSE clicked
           IN  /\ m \in MemoryType /\ s \in StoreType
               /\ s.game = store.game
               /\ VotesFair(m, c)
               /\ ~restores => m = memory
               /\ RollsBack /\ Agreed =>
                    /\ Seated(m, s, live, watching) /\ Promised(m, kicked)
                    /\ Promised(m.dirty, kicked)
                    /\ s.status # "waiting" <=> m.phase # "none"
                    /\ m.phase = "none" => m.dirty = NoSnapshot /\ m.players = {}
                    /\ m.dirty = NoSnapshot \/ m.dirty.phase # "none"
                    /\ s.status # "waiting" => store.game.phase # "none"
<1> DEFINE m == RestoredRoom.m
           s == RestoredRoom.s
<1>1. TypeOK /\ memory \in MemoryType /\ store \in StoreType /\ watching \subseteq live
  BY DEF IInv, TypeOK
<1>2. CASE ~restores
  <2>1. m = memory /\ s = store
    BY <1>2 DEF RestoredRoom
  <2> QED
    BY <1>1, <1>2, <2>1 DEF IInv, Agreed, InStore, restores
<1>3. CASE restores
  <2> DEFINE g == store.game
             a == [Down EXCEPT !.phase = g.phase, !.players = g.players,
                      !.out = g.out, !.round = g.round, !.queue = g.queue,
                      !.excluded = g.excluded]
             b == rearmBlitzAfterRestore(a)
             d == reseedTerminalVotes(b)
  <2>1. /\ a \in MemoryType /\ a.phase = g.phase /\ a.players = g.players
        /\ a.queue = g.queue /\ a.excluded = g.excluded /\ a.connected = {}
        /\ a.anchor = "none" /\ a.dirty = NoSnapshot
    <3>1. g \in SnapshotType
      BY <1>1 DEF StoreType
    <3> QED
      BY <3>1, DownTyped DEF Down, MemoryType, SnapshotType
  <2> HIDE DEF a
  <2>2. b \in MemoryType /\ Same(a, b) /\ b.dirty = a.dirty
    BY <2>1, RearmSame
  <2> HIDE DEF b
  <2>3. /\ d \in MemoryType /\ d.phase = g.phase /\ d.players = g.players
        /\ d.queue = g.queue /\ d.excluded = g.excluded
        /\ d.dirty = NoSnapshot
    BY <2>1, <2>2 DEF Same, reseedTerminalVotes, MemoryType, autoVoteIds
  <2>4. VotesFair(d, {})
    <3>1. d.connected = {} /\ (~Terminal(d) => d.anchor = "none")
      BY <2>1, <2>2 DEF Same, reseedTerminalVotes, MemoryType, Terminal
    <3>2. d.phase = "round_end" => d.players \subseteq d.votes
      BY <2>1, <2>2 DEF Same, reseedTerminalVotes, MemoryType, Terminal, autoVoteIds
    <3> QED
      BY <3>1, <3>2 DEF VotesFair, Voters
  <2>5. m = IF Terminal(d) THEN checkOwnerDisconnectedAtTerminal(d, live) ELSE d
    BY <1>3 DEF RestoredRoom, loadGameStateForRestore, d, b, a
  <2>6. s = reconcileRoomRosterFromGameState(store, d)
    BY <1>3 DEF RestoredRoom, loadGameStateForRestore, d, b, a
  <2> HIDE DEF d
  <2>7. m \in MemoryType /\ Same(d, m) /\ m.dirty = NoSnapshot
    BY <1>1, <2>3, <2>5, OwnerChecked DEF Same
  <2>8. /\ s \in StoreType /\ s.game = store.game /\ s.status = store.status
        /\ s.seats = m.players /\ s.watchers \cap m.players = {}
    <3>1. m.players = d.players /\ d.players \subseteq Member
      BY <2>3, <2>7 DEF Same, MemoryType
    <3>2. /\ (store.watchers \cup (store.seats \cap Human)) \ d.players
               \in SUBSET Human
      BY <1>1 DEF StoreType
    <3> HIDE DEF s
    <3>3. s = [store EXCEPT !.seats = d.players,
                 !.watchers = (store.watchers \cup (store.seats \cap Human)) \ d.players]
      BY <2>6 DEF reconcileRoomRosterFromGameState
    <3>4. /\ s \in StoreType /\ s.game = store.game /\ s.status = store.status
          /\ s.seats = d.players
          /\ s.watchers = (store.watchers \cup (store.seats \cap Human)) \ d.players
      BY <1>1, <3>1, <3>2, <3>3 DEF StoreType
    <3>5. s.watchers \cap d.players = {}
      BY <3>4
    <3> QED
      BY <3>1, <3>4, <3>5
  <2>9. VotesFair(m, {})
    BY <2>4, <2>7, SameVotesFair
  <2>10. ASSUME RollsBack, Agreed
         PROVE  /\ live = {} /\ store.status # "waiting" /\ m.phase # "none"
                /\ store.game.phase # "none" /\ Promised(m, kicked)
    <3>1. live = {} /\ store.status # "waiting" /\ store.game.phase # "none"
      BY <1>3, <2>10 DEF Agreed, InStore, restores
    <3>2. m.phase = g.phase /\ m.players = g.players /\ m.queue = g.queue
          /\ m.excluded = g.excluded
      BY <2>3, <2>7 DEF Same
    <3> QED
      BY <2>10, <3>1, <3>2 DEF Agreed, Promised
  <2>11. ASSUME RollsBack, Agreed PROVE Seated(m, s, live, watching)
    BY <1>1, <2>8, <2>10, <2>11 DEF Seated
  <2>12. RollsBack /\ Agreed => Promised(m.dirty, kicked)
    BY <2>7, NothingPromised
  <2> HIDE DEF m, s
  <2> QED
    BY <1>3, <2>7, <2>8, <2>9, <2>10, <2>11, <2>12 DEF m, s
<1> QED
  BY <1>2, <1>3

LEMMA OwnerReconciled ==
    ASSUME TypeOK, NEW m \in MemoryType, NEW u \in Human
    PROVE  LET n == reconcileOwnerAfterRejoin(m, u)
           IN  n \in MemoryType /\ Same(m, n) /\ n.dirty = m.dirty
<1>1. Same(m, m)
  BY DEF Same
<1> QED
  BY <1>1, Scheduled, OwnerChecked DEF reconcileOwnerAfterRejoin

(* Rejoin as a player: the memory m, with u connected and his vote gone.    *)
Back(m, n, u) ==
    /\ n \in MemoryType /\ n.dirty = m.dirty
    /\ n.phase = m.phase /\ n.players = m.players
    /\ n.connected = m.connected \cup {u} /\ n.out = m.out /\ n.round = m.round
    /\ n.queue = m.queue /\ n.excluded = m.excluded /\ n.anchor = m.anchor
    /\ n.votes = m.votes \ {u}

LEMMA ComesBack ==
    ASSUME NEW m \in MemoryType, NEW u \in Human
    PROVE  Back(m, removePlayerVote([m EXCEPT !.connected = @ \cup {u}], u), u)
<1> DEFINE n == [m EXCEPT !.connected = @ \cup {u}]
<1>1. /\ n \in MemoryType /\ n.dirty = m.dirty
      /\ n.phase = m.phase /\ n.players = m.players
      /\ n.connected = m.connected \cup {u} /\ n.out = m.out /\ n.round = m.round
      /\ n.queue = m.queue /\ n.excluded = m.excluded /\ n.anchor = m.anchor
      /\ n.votes = m.votes
  BY DEF MemoryType, Member
<1> HIDE DEF n
<1> QED
  BY <1>1 DEF MemoryType, removePlayerVote, Back

LEMMA BackFair ==
    ASSUME NEW m, NEW n, NEW u, NEW c, Back(m, n, u), VotesFair(m, c)
    PROVE  VotesFair(n, c \ {u})
BY DEF Back, VotesFair, Terminal, Voters

(* Without u among the players the click of u is no vote.                   *)
LEMMA WatcherFair ==
    ASSUME NEW m, NEW u, NEW c, u \notin m.players, VotesFair(m, c)
    PROVE  VotesFair(m, c \ {u})
BY DEF VotesFair, Voters

LEMMA RejoinKeeps == ASSUME IInv, NEW u \in Human, Rejoin(u) PROVE IInv'
<1> DEFINE rm == RestoredRoom.m
           rs == RestoredRoom.s
           playing == u \in rm.players
           c == IF restores THEN {} ELSE clicked
           back == IF playing
                   THEN removePlayerVote([rm EXCEPT !.connected = @ \cup {u}], u)
                   ELSE rm
           m == reconcileOwnerAfterRejoin(back, u)
           s == IF playing THEN rs ELSE [rs EXCEPT !.watchers = @ \cup {u}]
<1>1. /\ TypeOK /\ u \notin live /\ UNCHANGED <<closing, late, kicked>>
      /\ shown' \in Phase
      /\ clicked' = IF restores THEN {}
                    ELSE IF u \in live' THEN clicked \ {u} ELSE clicked
  BY DEF IInv, TypeOK, StoreType, SnapshotType, Rejoin
<1>2. /\ rm \in MemoryType /\ rs \in StoreType /\ rs.game = store.game
      /\ VotesFair(rm, c)
      /\ RollsBack /\ Agreed =>
           /\ Seated(rm, rs, live, watching) /\ Promised(rm, kicked)
           /\ Promised(rm.dirty, kicked)
           /\ rs.status # "waiting" <=> rm.phase # "none"
           /\ rm.phase = "none" => rm.dirty = NoSnapshot /\ rm.players = {}
           /\ rm.dirty = NoSnapshot \/ rm.dirty.phase # "none"
           /\ rs.status # "waiting" => store.game.phase # "none"
  BY RestoredKnown
<1>3. \/ /\ memory' = IF playing THEN Clean(m) ELSE m
         /\ store' = IF playing THEN Written(s, m) ELSE s
         /\ live' = live \cup {u}
         /\ watching' = IF playing THEN watching ELSE watching \cup {u}
         /\ UNCHANGED happened
      \/ /\ Fails("commit") /\ Failed(1)
         /\ memory' = IF playing THEN Clean(rm) ELSE rm
         /\ store' = IF playing THEN Written(rs, rm) ELSE rs
         /\ UNCHANGED <<live, watching>>
  BY DEF Rejoin
<1>4. playing => Back(rm, back, u)
  BY <1>2, ComesBack
<1>5. ~playing => back = rm
  OBVIOUS
<1> HIDE DEF rm, rs, back
<1>6. back \in MemoryType
  BY <1>2, <1>4, <1>5 DEF Back
<1>7. m \in MemoryType /\ Same(back, m) /\ m.dirty = back.dirty
  BY <1>1, <1>6, OwnerReconciled
<1> HIDE DEF m
<1>8. CASE /\ memory' = IF playing THEN Clean(m) ELSE m
           /\ store' = IF playing THEN Written(s, m) ELSE s
           /\ live' = live \cup {u}
           /\ watching' = IF playing THEN watching ELSE watching \cup {u}
           /\ UNCHANGED happened
  <2>1. OthersOK'
    BY <1>1, <1>8 DEF TypeOK, OthersOK
  <2>2. clicked' = c \ {u}
    BY <1>1, <1>8
  <2>3. CASE playing
    <3>1. VotesFair(m, clicked')
      BY <1>2, <1>4, <1>7, <2>2, <2>3, BackFair, SameVotesFair
    <3>2. RollsBack /\ Agreed =>
            /\ m.phase # "none" /\ rs.status # "waiting"
            /\ Seated(m, rs, live', watching') /\ Promised(m, kicked')
      <4>1. m.phase = rm.phase /\ m.players = rm.players /\ m.queue = rm.queue
            /\ m.excluded = rm.excluded
        BY <1>4, <1>7, <2>3 DEF Same, Back
      <4> QED
        BY <1>1, <1>2, <1>8, <2>3, <4>1 DEF Seated, Promised
    <3> QED
      BY <1>2, <1>7, <1>8, <2>1, <2>3, <3>1, <3>2, WrittenStep
  <2>4. CASE ~playing
    <3>1. /\ store' \in StoreType /\ store'.game = store.game
          /\ store'.seats = rs.seats /\ store'.watchers = rs.watchers \cup {u}
          /\ store'.status = rs.status
      BY <1>2, <1>8, <2>4 DEF StoreType
    <3>2. memory' \in MemoryType /\ Same(rm, memory') /\ memory'.dirty = rm.dirty
      BY <1>5, <1>7, <1>8, <2>4
    <3>3. TypeOK'
      BY <2>1, <3>1, <3>2, Typed
    <3>4. VotesFair(memory, clicked)'
      BY <1>2, <2>2, <2>4, <3>2, WatcherFair, SameVotesFair
    <3>5. ASSUME RollsBack, Agreed PROVE Agreed'
      <4>1. Seated(memory, store, live, watching)'
        BY <1>2, <1>8, <2>4, <3>1, <3>2, <3>5 DEF Same, Seated
      <4>2. InStore(memory, store, live)'
        BY <1>2, <3>1, <3>2, <3>5 DEF Same, InStore
      <4>3. /\ Promised(memory, kicked)' /\ Promised(store.game, kicked)'
            /\ Promised(memory.dirty, kicked)'
        <5>1. Promised(memory, kicked)'
          BY <1>1, <1>2, <3>2, <3>5 DEF Same, Promised
        <5> QED
          BY <1>1, <1>2, <3>1, <3>2, <3>5, <5>1 DEF Agreed
      <4> QED
        BY <4>1, <4>2, <4>3 DEF Agreed
    <3> QED
      BY <3>3, <3>4, <3>5 DEF IInv, RollsBack
  <2> QED
    BY <2>3, <2>4
<1>9. CASE /\ Fails("commit") /\ Failed(1)
           /\ memory' = IF playing THEN Clean(rm) ELSE rm
           /\ store' = IF playing THEN Written(rs, rm) ELSE rs
           /\ UNCHANGED <<live, watching>>
  <2>1. OthersOK'
    BY <1>1, <1>9, OneFailureCounted DEF TypeOK, OthersOK
  <2>2. clicked' = c
    BY <1>1, <1>9
  <2>3. CASE playing
    <3>1. VotesFair(rm, clicked')
      BY <1>2, <2>2
    <3>2. RollsBack /\ Agreed =>
            /\ rm.phase # "none" /\ rs.status # "waiting"
            /\ Seated(rm, rs, live', watching') /\ Promised(rm, kicked')
      BY <1>1, <1>2, <1>9, <2>3 DEF Seated
    <3> QED
      BY <1>2, <1>9, <2>1, <2>3, <3>1, <3>2, WrittenStep
  <2>4. CASE ~playing
    <3>1. memory' = rm /\ store' = rs /\ UNCHANGED <<live, watching>>
      BY <1>9, <2>4
    <3>2. TypeOK'
      BY <1>2, <2>1, <3>1, Typed
    <3>3. VotesFair(memory, clicked)'
      BY <1>2, <2>2, <3>1
    <3>4. ASSUME RollsBack, Agreed PROVE Agreed'
      <4>1. InStore(memory, store, live)'
        BY <1>2, <3>1, <3>4 DEF InStore
      <4> QED
        BY <1>1, <1>2, <3>1, <3>4, <4>1 DEF Agreed
    <3> QED
      BY <3>2, <3>3, <3>4 DEF IInv, RollsBack
  <2> QED
    BY <2>3, <2>4
<1> QED
  BY <1>3, <1>8, <1>9

-----------------------------------------------------------------------------
(* The invariant holds.                                                     *)

LEMMA InitHolds == Init => IInv
<1> SUFFICES ASSUME Init PROVE IInv
  OBVIOUS
<1>1. PICK players \in Tables, o \in Human :
        /\ Cardinality(players) \in MinPlayers..MaxPlayers
        /\ memory = rearmBlitzAfterRestore(
              [Down EXCEPT !.phase = "playing", !.players = players,
                           !.connected = players, !.round = 1])
        /\ store = [game |-> createSnapshot(memory), seats |-> players,
                    watchers |-> Human \ players, owner |-> o,
                    status |-> "playing"]
        /\ watching = Human \ players
  BY DEF Init
<1>0. players \in SUBSET Member
  BY MemberAssumption DEF Member
<1> DEFINE m == [Down EXCEPT !.phase = "playing", !.players = players,
                             !.connected = players, !.round = 1]
<1>2. /\ m \in MemoryType /\ m.phase = "playing" /\ m.players = players
      /\ m.anchor = "none" /\ m.queue = {} /\ m.excluded = {}
      /\ m.dirty = NoSnapshot
  BY <1>0, DownTyped DEF MemoryType, Down, Phase, Member
<1> HIDE DEF m
<1>3. /\ memory \in MemoryType /\ Same(m, memory) /\ memory.dirty = NoSnapshot
  BY <1>1, <1>2, RearmSame DEF m
<1>4. /\ store \in StoreType /\ store.game = createSnapshot(memory)
      /\ store.seats = players /\ store.watchers = Human \ players
      /\ store.status = "playing"
  <2>1. createSnapshot(memory) \in SnapshotType
    BY <1>3, SnapshotTyped
  <2> QED
    BY <1>0, <1>1, <2>1 DEF StoreType, Member
<1>5. TypeOK
  <2>1. OthersOK
    <3>1. /\ live = Human /\ closing = {} /\ late = FALSE /\ shown = "none"
          /\ clicked = {} /\ kicked = {} /\ watching = Human \ players
      BY <1>1 DEF Init
    <3>2. happened \in [fails : 0..MaxFails, drops : 0..MaxDrops,
                        crashes : 0..MaxCrashes]
      BY BoundAssumption DEF Init
    <3> QED
      BY <3>1, <3>2 DEF OthersOK, Phase
  <2> QED
    BY <1>3, <1>4, <2>1, Typed
<1>6. VotesFair(memory, clicked)
  BY <1>2, <1>3 DEF VotesFair, Same, Terminal
<1>7. Agreed
  <2>1. kicked = {} /\ live = Human /\ watching = Human \ players
    BY <1>1 DEF Init
  <2>2. Seated(memory, store, live, watching)
    BY <1>2, <1>3, <1>4, <2>1, MemberAssumption DEF Seated, Same
  <2>3. Promised(memory, kicked)
    <3>1. Cardinality(players) <= MaxPlayers /\ Cardinality(players) \in Nat
      BY <1>0, <1>1, MembersFinite, BoundAssumption
    <3>2. Cardinality({}) = 0
      BY FS_EmptySet
    <3> QED
      BY <1>2, <1>3, <2>1, <3>1, <3>2 DEF Promised, Same
  <2>4. Promised(store.game, kicked) /\ Promised(memory.dirty, kicked)
    BY <1>3, <1>4, <2>3, SnapshotPromised, NothingPromised
  <2>5. InStore(memory, store, live)
    BY <1>2, <1>3, <1>4, SnapshotPromised DEF InStore, Same
  <2> QED
    BY <2>2, <2>3, <2>4, <2>5 DEF Agreed
<1> QED
  BY <1>5, <1>6, <1>7 DEF IInv

LEMMA NextKeeps == ASSUME IInv, [Next]_vars PROVE IInv'
<1>1. CASE Persist
  BY <1>1, PersistKeeps
<1>2. CASE OwnerTransferTimer \/ \E u \in Human : TransferOwner(u)
  BY <1>2, TransferKeeps
<1>3. CASE EndRound
  BY <1>3, EndRoundKeeps
<1>4. CASE Announce
  BY <1>4, AnnounceKeeps
<1>5. CASE CoolDown
  BY <1>5, CoolDownKeeps
<1>6. CASE \E kind \in TerminalRetryKind : RetryTerminalTask(kind)
  BY <1>6, RetryKeeps
<1>7. CASE DeadlinePasses
  BY <1>7, DeadlineKeeps
<1>8. CASE BlitzTimer
  BY <1>8, BlitzKeeps
<1>9. CASE \E u \in Human : nextRound(u)
  BY <1>9, NextRoundKeeps
<1>10. CASE \E u \in Human : spectatorJoin(u)
  BY <1>10, SpectatorJoinKeeps
<1>11. CASE \E u \in Human : leaveToSpectate(u)
  BY <1>11, LeaveToSpectateKeeps
<1>12. CASE \E u \in Human : Drop(u) \/ Disconnect(u)
  BY <1>12, DropKeeps, DisconnectKeeps
<1>13. CASE \E u \in Human : Leave(u)
  BY <1>13, SpectatorLeaves, PlayerLeaves
<1>14. CASE \E u \in Human : Rejoin(u)
  BY <1>14, RejoinKeeps
<1>15. CASE \E p \in Member : kickPlayer(p)
  BY <1>15, KickKeeps
<1>16. CASE backToRoom
  BY <1>16, BackToRoomKeeps
<1>17. CASE Crash
  BY <1>17, CrashKeeps
<1>18. CASE UNCHANGED vars
  BY <1>18 DEF vars, IInv, TypeOK, VotesFair, Terminal, Voters, Agreed, Seated,
               InStore, Promised, RollsBack
<1> QED
  BY <1>1, <1>2, <1>3, <1>4, <1>5, <1>6, <1>7, <1>8, <1>9, <1>10, <1>11, <1>12,
     <1>13, <1>14, <1>15, <1>16, <1>17, <1>18 DEF Next

(* The invariant behind the theorems: with the types, the fairness of the   *)
(* votes and, where the roster can be written back, the agreement of        *)
(* session, snapshots, roster and sockets (RoundTerminal as a whole).       *)
THEOREM AlwaysAgreed == Spec => []IInv
<1>1. Init => IInv
  BY InitHolds
<1>2. IInv /\ [Next]_vars => IInv'
  BY NextKeeps
<1> QED
  BY <1>1, <1>2, PTL DEF Spec

(* Every component of the memory and of the store keeps its type, whatever  *)
(* is lost, fails or is rolled back.                                        *)
THEOREM TypeCorrect == Spec => []TypeOK
<1>1. IInv => TypeOK
  BY DEF IInv
<1> QED
  BY <1>1, AlwaysAgreed, PTL

(* The vote of a present player is his click and the absent are voted for,  *)
(* for every set of members and faults, failing rollbacks included.         *)
THEOREM VotesAreClicks == Spec => []VotesAreEarned
<1>1. IInv => VotesAreEarned
  BY DEF IInv, VotesFair, VotesAreEarned, Open
<1> QED
  BY <1>1, AlwaysAgreed, PTL

(* Roster, sockets and session agree as long as a rollback that fails is    *)
(* not among the faults.                                                    *)
THEOREM SeatsAlwaysMatch ==
    ASSUME "rollback" \notin Faults
    PROVE  Spec => []SeatsMatchGame
<1>1. RollsBack
  BY DEF RollsBack
<1>2. IInv => SeatsMatchGame
  BY <1>1 DEF IInv, Agreed, Seated, SeatsMatchGame
<1> QED
  BY <1>2, AlwaysAgreed, PTL

-----------------------------------------------------------------------------
(* Whom the next round is dealt to.                                         *)

LEMMA LostRound ==
    ASSUME memory.round \in Nat, NEW s, Lost(s)
    PROVE  ~(memory'.round > memory.round)
BY DEF Lost, Down

LEMMA RolledBackRound ==
    ASSUME NEW before \in MemoryType, before.round = memory.round,
           NEW m \in MemoryType, NEW s, NEW w, NEW back,
           RolledBack(before, back) \/ RollbackFailed(before, m, s, w)
    PROVE  memory'.round = memory.round
<1>1. Restored(before) \in MemoryType /\ Restored(before).round = memory.round
  BY RestoredSame DEF Same
<1>2. Clean(Restored(before)).round = memory.round
  BY <1>1, Marked DEF Same
<1>3. \A d : [Restored(before) EXCEPT !.dirty = d].round = memory.round
  BY <1>1 DEF MemoryType
<1> QED
  BY <1>2, <1>3 DEF RolledBack, RollbackFailed

LEMMA EmitRound ==
    ASSUME TypeOK, NEW m \in MemoryType, NEW fault,
           emitTerminalStateIfNeededUnlocked(m, fault)
    PROVE  memory'.round = m.round
BY AnnouncedKnown DEF emitTerminalStateIfNeededUnlocked, AnnouncementOf

LEMMA BlitzRound ==
    ASSUME TypeOK, NEW m \in MemoryType, endGameByBlitz(m)
    PROVE  memory'.round = m.round
<1> DEFINE over == [m EXCEPT !.phase = "game_over"]
<1>1. over \in MemoryType /\ over.round = m.round
  BY DEF MemoryType, Phase
<1>2. emitTerminalStateIfNeededUnlocked(markDirty(over), "none")
  BY DEF endGameByBlitz
<1> HIDE DEF over
<1>3. markDirty(over) \in MemoryType /\ markDirty(over).round = m.round
  BY <1>1, Marked DEF Same
<1> QED
  BY <1>2, <1>3, EmitRound

(* Nothing but the start of a round adds to the rounds.                     *)
LEMMA OnlyDealsCount ==
    ASSUME IInv, Next, memory.phase # "none", memory'.round > memory.round
    PROVE  \E u \in Human : nextRound(u)
<1>1. TypeOK /\ memory \in MemoryType /\ store \in StoreType /\ memory.round \in Nat
  BY DEF IInv, TypeOK, MemoryType
<1>2. memory'.round # memory.round
  BY <1>1
<1>3. ~(Persist \/ OwnerTransferTimer \/ \E u \in Human : TransferOwner(u))
  <2>1. ASSUME Persist PROVE FALSE
    BY <1>1, <1>2, <2>1, Marked DEF Persist, Same
  <2>2. \A o : [memory EXCEPT !.transfer = o].round = memory.round
    BY <1>1 DEF MemoryType
  <2> QED
    BY <1>2, <2>1, <2>2 DEF OwnerTransferTimer, TransferOwner
<1>4. ~EndRound
  <2> SUFFICES ASSUME EndRound PROVE FALSE
    OBVIOUS
  <2>1. PICK loser \in SUBSET (memory.players \ memory.out), over \in BOOLEAN :
          memory' = markDirty([memory EXCEPT
                       !.phase = IF over THEN "game_over" ELSE "round_end",
                       !.out = memory.out \cup loser])
    BY DEF EndRound
  <2> DEFINE m == [memory EXCEPT !.phase = IF over THEN "game_over" ELSE "round_end",
                                 !.out = memory.out \cup loser]
  <2>2. m \in MemoryType /\ m.round = memory.round
    BY <1>1 DEF MemoryType, Phase
  <2> HIDE DEF m
  <2>3. memory' = markDirty(m)
    BY <2>1 DEF m
  <2> QED
    BY <1>2, <2>2, <2>3, Marked DEF Same
<1>5. ~(Announce \/ CoolDown \/ DeadlinePasses)
  <2>1. ASSUME Announce PROVE FALSE
    BY <1>1, <1>2, <2>1, EmitRound DEF Announce
  <2>2. [memory EXCEPT !.anchor = "cooled"].round = memory.round
    BY <1>1 DEF MemoryType
  <2> QED
    BY <1>2, <2>1, <2>2 DEF CoolDown, DeadlinePasses
<1>6. ~BlitzTimer
  <2> DEFINE m == [memory EXCEPT !.blitz = @ \ {"timer"}]
  <2>1. m \in MemoryType /\ m.round = memory.round
    BY <1>1, BlitzSame DEF MemoryType, Same
  <2>2. [m EXCEPT !.blitz = {}].round = memory.round
    BY <2>1 DEF MemoryType
  <2> HIDE DEF m
  <2>3. BlitzTimer => \/ memory' = [m EXCEPT !.blitz = {}] \/ memory' = m
                      \/ endGameByBlitz(m)
    BY DEF BlitzTimer, m
  <2> QED
    BY <1>1, <1>2, <2>1, <2>2, <2>3, BlitzRound
<1>7. ASSUME NEW kind \in TerminalRetryKind, RetryTerminalTask(kind) PROVE FALSE
  <2> DEFINE m == [memory EXCEPT !.retries = @ \ {kind}]
             n == autoQueueSpectatorOwnerUnlocked(m)
  <2>1. m \in MemoryType /\ m.round = memory.round
    BY <1>1, RetriesSame DEF MemoryType, Same
  <2>2. \/ memory' = m \/ memory' = Clean(n)
        \/ memory' = checkOwnerDisconnectedAtTerminal(m, live)
    BY <1>7 DEF RetryTerminalTask, TerminalRetryKind, Flushed
  <2> HIDE DEF m
  <2>3. n \in MemoryType /\ n.round = memory.round
    BY <1>1, <2>1, OwnerQueued DEF Queued
  <2> HIDE DEF n
  <2>4. Clean(n).round = memory.round
    BY <2>3, Marked DEF Same
  <2>5. checkOwnerDisconnectedAtTerminal(m, live).round = memory.round
    BY <1>1, <2>1, OwnerChecked DEF Same
  <2> QED
    BY <1>2, <2>1, <2>2, <2>4, <2>5
<1>8. ASSUME NEW u \in Human, spectatorJoin(u) PROVE FALSE
  <2> DEFINE q == IF u \in memory.queue THEN memory.queue \ {u}
                  ELSE memory.queue \cup {u}
             m == [memory EXCEPT !.queue = q]
  <2>1. memory' = Clean(m)
    BY <1>8 DEF spectatorJoin, Flushed
  <2>2. q \in SUBSET Human
    BY <1>1 DEF MemoryType
  <2> HIDE DEF q
  <2>3. m \in MemoryType /\ m.round = memory.round
    BY <1>1, <2>2, QueueSet DEF Queued
  <2> HIDE DEF m
  <2> QED
    BY <1>2, <2>1, <2>3, Marked DEF Same
<1>9. ASSUME NEW u \in Member, kickPlayer(u) \/ (u \in Human /\ leaveToSpectate(u))
      PROVE  FALSE
  <2> DEFINE r == removePlayer(memory, u)
             k == [r EXCEPT !.queue = @ \ {u}, !.excluded = @ \cup ({u} \cap Human)]
             s == moveSeatToSpectator(store, u)
  <2>1. r \in MemoryType /\ r.round = memory.round
    BY <1>1, Removed DEF Without
  <2> HIDE DEF r
  <2>2. k \in MemoryType /\ k.round = memory.round
    BY <2>1 DEF MemoryType
  <2>3. \E m \in {r, k} :
          \/ memory' = Clean(m)
          \/ RolledBack(memory, watching)
          \/ RollbackFailed(memory, m, s, watching)
          \/ Lost(s)
    BY <1>9 DEF kickPlayer, leaveToSpectate, Committed, r
  <2> HIDE DEF k, s
  <2>4. \A m \in {r, k} : Clean(m).round = memory.round
    BY <2>1, <2>2, Marked DEF Same
  <2> QED
    BY <1>1, <1>2, <2>1, <2>2, <2>3, <2>4, RolledBackRound, LostRound
<1>10. ~backToRoom /\ ~Crash
  <2>1. ASSUME memory' = [Down EXCEPT !.transfer = memory.transfer] PROVE FALSE
    BY <1>1, <2>1 DEF Down
  <2>2. ASSUME memory' = Clean([memory EXCEPT !.blitz = {}]) PROVE FALSE
    <3> DEFINE n == [memory EXCEPT !.blitz = {}]
    <3>1. n \in MemoryType /\ n.round = memory.round
      BY <1>1 DEF MemoryType
    <3>2. memory' = Clean(n)
      BY <2>2
    <3> HIDE DEF n
    <3> QED
      BY <1>2, <3>1, <3>2, Marked DEF Same
  <2> QED
    BY <1>1, <2>1, <2>2, LostRound DEF backToRoom, Crash
<1>11. ASSUME NEW u \in Human, Drop(u) \/ Disconnect(u) PROVE FALSE
  <2> DEFINE m == IF u = store.owner /\ Governed(memory)
                  THEN scheduleOwnerTransfer(memory, u) ELSE memory
             n == addAutopilotVote([m EXCEPT !.connected = @ \ {u}], u)
  <2>1. m \in MemoryType /\ m.round = memory.round
    BY <1>1, Scheduled DEF scheduleOwnerTransfer, Same
  <2>2. memory' \in {memory, m, Clean(n), markDirty(n)}
    BY <1>11 DEF Drop, Disconnect, FlushedOrLeft, Flushed
  <2> HIDE DEF m
  <2>3. n \in MemoryType /\ n.round = memory.round
    BY <2>1, GoneAway DEF Away
  <2> HIDE DEF n
  <2> QED
    BY <1>2, <2>1, <2>2, <2>3, Marked DEF Same
<1>12. ASSUME NEW u \in Human, Leave(u) PROVE FALSE
  <2> DEFINE m == [memory EXCEPT !.queue = @ \ {u}]
             n == addAutopilotVote([memory EXCEPT !.connected = @ \ {u}], u)
  <2>1. m \in MemoryType /\ m.round = memory.round
    BY <1>1 DEF MemoryType
  <2>2. n \in MemoryType /\ n.round = memory.round
    BY <1>1, GoneAway DEF Away
  <2>3. memory' \in {m, Clean(m), Clean(n), scheduleOwnerTransfer(Clean(n), u)}
    BY <1>12 DEF Leave, HandOver
  <2> HIDE DEF m, n
  <2>4. /\ Clean(m).round = memory.round /\ Clean(n).round = memory.round
        /\ Clean(n) \in MemoryType
    BY <2>1, <2>2, Marked DEF Same
  <2>5. scheduleOwnerTransfer(Clean(n), u).round = memory.round
    BY <2>4, Scheduled DEF scheduleOwnerTransfer, Same
  <2> QED
    BY <1>2, <2>1, <2>3, <2>4, <2>5
<1>13. ASSUME NEW u \in Human, Rejoin(u) PROVE FALSE
  <2> DEFINE b == removePlayerVote([memory EXCEPT !.connected = @ \cup {u}], u)
             m == reconcileOwnerAfterRejoin(memory, u)
             n == reconcileOwnerAfterRejoin(b, u)
  <2>1. RestoredRoom.m = memory
    BY DEF RestoredRoom, restores
  <2>2. memory' \in {memory, m, Clean(memory), Clean(n)}
    BY <1>13, <2>1 DEF Rejoin
  <2>3. b \in MemoryType /\ b.round = memory.round
    BY <1>1, ComesBack DEF Back
  <2> HIDE DEF b
  <2>4. /\ m.round = memory.round
        /\ n \in MemoryType /\ n.round = memory.round
    BY <1>1, <2>3, OwnerReconciled DEF Same
  <2> HIDE DEF m, n
  <2> QED
    BY <1>1, <1>2, <2>2, <2>4, Marked DEF Same
<1> QED
  BY <1>3, <1>4, <1>5, <1>6, <1>7, <1>8, <1>9, <1>10, <1>11, <1>12, <1>13
  DEF Next, Member

LEMMA DealIsPromised ==
    ASSUME IInv, RollsBack, NEW u \in Human, nextRound(u),
           memory'.round > memory.round
    PROVE  memory'.players = (memory.players \cup memory.queue) \ kicked
<1> DEFINE m == [memory EXCEPT !.votes = @ \cup {u}]
<1>1. /\ TypeOK /\ memory \in MemoryType /\ store \in StoreType
      /\ memory.phase = "round_end" /\ memory.round \in Nat
  BY DEF IInv, TypeOK, nextRound, Open, MemoryType
<1>2. Voted(m) /\ m \in MemoryType
  BY <1>1 DEF MemoryType, Member, Voted
<1>3. memory' = m \/ startNextRound(m)
  BY DEF nextRound
<1> HIDE DEF m
<1>4. startNextRound(m)
  BY <1>1, <1>2, <1>3 DEF Voted
<1>5. ~endGameByBlitz(m)
  BY <1>1, <1>2, BlitzRound DEF Voted
<1>6. PICK joined \in Joining(m) :
        \/ memory' = Clean(Restored(m))
        \/ Committed(Dealt(m, joined), moveSpectatorToSeat(store, joined),
                     watching \ joined)
        \/ RolledBack(m, live \cap store.watchers)
        \/ RollbackFailed(m, Dealt(m, joined), moveSpectatorToSeat(store, joined),
                          watching \ joined)
        \/ Lost(moveSpectatorToSeat(store, joined))
  BY <1>4, <1>5 DEF startNextRound
<1> DEFINE n == Dealt(m, joined)
<1>7. /\ n \in MemoryType /\ n.players = m.players \cup joined
  BY <1>1, <1>2, <1>6, JoiningKnown, DealtKnown
<1>8. memory' # Clean(Restored(m))
  BY <1>1, <1>2, RestoredSame, Marked DEF Same, Voted
<1>9. memory' = Clean(n)
  <2>1. ~RolledBack(m, live \cap store.watchers)
    BY <1>1, <1>2, <1>7, RolledBackRound DEF Voted
  <2>2. ~RollbackFailed(m, n, moveSpectatorToSeat(store, joined), watching \ joined)
    BY <1>1, <1>2, <1>7, RolledBackRound DEF Voted
  <2>3. ~Lost(moveSpectatorToSeat(store, joined))
    BY <1>1, LostRound
  <2> QED
    BY <1>6, <1>8, <2>1, <2>2, <2>3 DEF Committed
<1>10. /\ Cardinality(m.players) + Cardinality(m.queue) <= MaxPlayers
       /\ m.excluded = kicked /\ m.players \cap kicked = {}
  BY <1>1, <1>2 DEF IInv, Agreed, Promised, Voted
<1>11. joined = Newcomers(m)
  BY <1>2, <1>6, <1>10, AllJoin
<1>12. memory'.players = m.players \cup joined
  <2> HIDE DEF n
  <2> QED
    BY <1>7, <1>9, Marked DEF Same
<1> QED
  BY <1>2, <1>10, <1>11, <1>12 DEF Newcomers, Voted

(* The next round is dealt to those who played on and those in the queue,   *)
(* but to nobody who was told to sit out, as long as a rollback that fails  *)
(* is not among the faults (startNextRound, the queue in the snapshot).     *)
THEOREM DealsArePromised ==
    ASSUME "rollback" \notin Faults
    PROVE  Spec => DealKeepsPromises
<1>1. RollsBack
  BY DEF RollsBack
<1>2. IInv /\ [Next]_vars =>
        [memory.phase # "none" /\ memory'.round > memory.round
           => memory'.players = (memory.players \cup memory.queue) \ kicked]_vars
  BY <1>1, OnlyDealsCount, DealIsPromised
<1> QED
  BY <1>2, AlwaysAgreed, PTL DEF Spec, DealKeepsPromises
=============================================================================
