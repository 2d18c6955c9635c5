---------------------------- MODULE RoomMembership ----------------------------
(***************************************************************************)
(* Who belongs to a room, who owns it and when it ends: room:*, seat:* and *)
(* the scoreboard's events, room:rejoin and disconnect, the timers of the  *)
(* owner's transfer, of the eviction of a waiting member and of the room   *)
(* that everybody left, and the startup reconciliation.                    *)
(*                                                                         *)
(* One room; a user may belong to another one instead.  Room codes are not *)
(* drawn twice: what is left of a dissolved room is as good as nothing.  A *)
(* handler is one step, it holds the room lock (and the user's); a crash   *)
(* may come between its writes.  Bots fill the seats and are left out.     *)
(***************************************************************************)
EXTENDS Naturals, FiniteSets

CONSTANTS
    User, None,
    MaxCrashes,      \* bound
    Gap              \* which gaps of the room's upkeep may be run into, of
                     \* "newcomer": a newcomer enters while the owner is away,
                     \* "watcher": the last who is live leaves a game as a watcher,
                     \* "drop": a socket closes while its join is under way

ASSUME UserAssumption ==
    IsFiniteSet(User) /\ None \notin User \cup {"here", "elsewhere"}
ASSUME ChoiceAssumption ==
    MaxCrashes \in Nat /\ Gap \subseteq {"newcomer", "watcher", "drop"}

VARIABLES
    room,     \* the keys of the room in the store
    mapped,   \* user:*:room, the room the user belongs to
    memory,   \* the session and the timers of the room in the process
    at,       \* the user's socket: none, in no room or another one, in the room
    closing,  \* the users with a disconnect handler to come
    crashes

vars == <<room, mapped, memory, at, closing, crashes>>

Here == "here"
Elsewhere == "elsewhere"

NoGame == [players |-> {}, excluded |-> {}]
NoRoom == [status |-> "none", owner |-> None, seats |-> {}, watchers |-> {},
           ready |-> {}, connected |-> {}, departed |-> {}, saved |-> NoGame]
NoTimers == [u \in User |-> "none"]
Empty == [stage |-> "none", game |-> NoGame, member |-> NoTimers, owner |-> None,
          dissolution |-> FALSE, startup |-> FALSE]

Game == [players : SUBSET User, excluded : SUBSET User]
TypeOK ==
    /\ room \in [status : {"none", "waiting", "game"}, owner : User \cup {None},
                 seats : SUBSET User, watchers : SUBSET User, ready : SUBSET User,
                 connected : SUBSET User, departed : SUBSET User, saved : Game]
    /\ mapped \in [User -> {None, Here, Elsewhere}]
    /\ memory \in [stage : {"none", "round", "roundEnd", "gameOver"}, game : Game,
                   member : [User -> {"none", "evict", "govern"}],
                   owner : User \cup {None}, dissolution : BOOLEAN, startup : BOOLEAN]
    /\ at \in [User -> {"off", "lobby", Here}]
    /\ closing \subseteq User /\ crashes \in 0..MaxCrashes
    /\ room.seats \cap room.watchers = {} /\ room.ready \subseteq room.seats
    /\ room.status = "none" => room = NoRoom /\ \A u \in User : at[u] # Here

Init ==
    /\ room = NoRoom
    /\ mapped = [u \in User |-> None]
    /\ memory = Empty
    /\ at = [u \in User |-> "lobby"]
    /\ closing = {}
    /\ crashes = 0

-----------------------------------------------------------------------------
(* Members, presence, ownership.  r is the room, m the memory, a the sockets.*)

Roster(r) == r.seats \cup r.watchers
getHumanRoomMemberIds(r, m) == Roster(r) \cup m.game.players
getLiveHumanRoomMemberIds(r, m, a) ==
    {u \in getHumanRoomMemberIds(r, m) \ r.departed : a[u] = Here}

Live == getLiveHumanRoomMemberIds(room, memory, at)
isFinalUndepartedHuman(u) ==
    getHumanRoomMemberIds(room, memory) \subseteq room.departed \cup {u}

InSession == memory.stage # "none"
Settling(m) == m.stage \in {"roundEnd", "gameOver"}
Owns(u) == room.owner = u /\ at[u] = Here

armAllDisconnectTimer(m) == [m EXCEPT !.dissolution = TRUE]
scheduleOwnerTransfer(m, u) == [m EXCEPT !.owner = u]

ArmIfDeserted(r, m, a) ==
    IF getLiveHumanRoomMemberIds(r, m, a) = {} THEN armAllDisconnectTimer(m) ELSE m

(* The first who is live: the seats before the spectators.                  *)
getEligibleLiveOwner(r, m, a, excluded) ==
    LET live == getLiveHumanRoomMemberIds(r, m, a) \ ({excluded} \cup m.game.excluded)
    IN  IF live \cap r.seats # {} THEN live \cap r.seats ELSE live

transferOwnerToLiveMemberUnlocked(r, m, a, expected) ==
    LET next == getEligibleLiveOwner(r, m, a, expected)
    IN  IF next = {}
        THEN room' = r /\ memory' = ArmIfDeserted(r, m, a)
        ELSE /\ \E u \in next : room' = [r EXCEPT !.owner = u]
             /\ memory' = m

(* onRoomMemberReconnected and reconcileOwnerAfterRejoin                    *)
\* Faulty: whoever returns calls the dissolution off, the owner's transfer too.
FaultyReconnected(r, m, a, u) ==
    [m EXCEPT !.member[u] = "none", !.dissolution = FALSE, !.owner = None]

Reconnected(r, m, a, u) ==
    LET back == [m EXCEPT !.member[u] = "none", !.dissolution = FALSE]
    IN  IF r.owner = u
        THEN [back EXCEPT !.owner = None]
        ELSE IF /\ IF m.stage = "none" THEN r.status = "waiting" ELSE Settling(m)
                /\ u \notin m.game.excluded
                /\ r.owner \notin getLiveHumanRoomMemberIds(r, m, a)
             THEN scheduleOwnerTransfer(back, r.owner)
             ELSE back

(* removeMemberWithMembership                                               *)
Removed(r, u) ==
    [r EXCEPT !.seats = @ \ {u}, !.watchers = @ \ {u}, !.connected = @ \ {u},
              !.ready = @ \ {u}]
Disconnected(r, u) == [r EXCEPT !.connected = @ \ {u}, !.ready = @ \ {u}]
Unmapped(us) ==
    [u \in User |-> IF u \in us /\ mapped[u] = Here THEN None ELSE mapped[u]]

(* dissolveRoomUnlocked: the durable deletion, then everything else.        *)
dissolveRoomUnlocked ==
    /\ room' = NoRoom
    /\ memory' = Empty
    /\ mapped' = Unmapped(User)
    /\ at' = [u \in User |-> IF at[u] = Here THEN "lobby" ELSE at[u]]
    /\ closing' = {}

-----------------------------------------------------------------------------
(* Entering.                                                                *)

(* Where a socket is once its join is over.                                 *)
Entered(u) ==
    {[at EXCEPT ![u] = Here]} \cup
        IF "drop" \in Gap THEN {[at EXCEPT ![u] = "off"]} ELSE {}

Seated(u) == [NoRoom EXCEPT !.status = "waiting", !.owner = u, !.seats = {u},
                            !.connected = {u}]

(* room:create                                                              *)
MayCreate(u) == room.status = "none" /\ at[u] = "lobby" /\ mapped[u] # Elsewhere
Creates(u) ==
    /\ MayCreate(u)
    /\ room' = Seated(u)
    /\ mapped' = [mapped EXCEPT ![u] = Here]
    /\ at' \in Entered(u)
    /\ UNCHANGED <<memory, closing, crashes>>

Watching(r, u) ==
    [r EXCEPT !.watchers = IF u \in r.seats THEN @ ELSE @ \cup {u},
              !.connected = @ \cup {u}]

(* room:join of a newcomer                                                  *)
Joins(u) ==
    /\ room.status = "waiting" /\ at[u] = "lobby" /\ mapped[u] # Elsewhere
    /\ u \notin Roster(room)
    /\ "newcomer" \in Gap \/ room.owner \in Live
    /\ room' = Watching(room, u)
    /\ mapped' = [mapped EXCEPT ![u] = Here]
    /\ at' \in Entered(u)
    /\ UNCHANGED <<memory, closing, crashes>>

(* A member's connection and marker are set, its timers cancelled.          *)
Returned(r, u) == [Watching(r, u) EXCEPT !.departed = @ \ {u}]
Back(r, m, u) ==
    /\ room' = Returned(r, u)
    /\ mapped' = [mapped EXCEPT ![u] = Here]
    /\ at' \in Entered(u)
    /\ memory' = Reconnected(room', m, at', u)
    /\ UNCHANGED <<closing, crashes>>

(* room:join of a member                                                    *)
JoinsAgain(u) ==
    /\ room.status = "waiting" /\ at[u] # "off"
    /\ u \in Roster(room)
    /\ Back(room, memory, u)

(* room:rejoin of a waiting room, by whoever has the link                   *)
RejoinsWaiting(u) ==
    /\ room.status = "waiting" /\ at[u] # "off" /\ mapped[u] # Elsewhere
    /\ Back(room, memory, u)

(* reconcileRoomRosterFromGameState: the snapshot says who has a seat.      *)
\* Faulty: whoever has a seat keeps it.
FaultyReconciled(r) ==
    [r EXCEPT !.seats = @ \cup r.saved.players, !.watchers = @ \ r.saved.players,
              !.ready = {}]

Reconciled(r) ==
    [r EXCEPT !.seats = r.saved.players, !.watchers = Roster(r) \ r.saved.players,
              !.ready = {}]
MapsMissing(r) ==
    [u \in User |-> IF u \in Roster(r) /\ mapped[u] = None THEN Here ELSE mapped[u]]

(* The first room:rejoin of a game after a restart restores it: the session *)
(* in any stage that was saved, everybody disconnected and on a timer.      *)
Restored(r, stage) ==
    [memory EXCEPT !.stage = stage, !.game = r.saved, !.dissolution = TRUE,
                   !.member = [u \in User |-> IF u \in r.saved.players THEN "govern" ELSE @[u]],
                   !.owner = IF stage # "round" THEN r.owner ELSE @]

Restores(u) ==
    LET r == [Reconciled(room) EXCEPT !.connected = {}]
    IN  \E stage \in {"round", "roundEnd", "gameOver"} :
            /\ room' = Returned(r, u)
            /\ mapped' = [MapsMissing(r) EXCEPT ![u] = Here]
            /\ at' \in Entered(u)
            /\ memory' = Reconnected(room', Restored(r, stage), at', u)
            /\ UNCHANGED <<closing, crashes>>

(* room:rejoin of a game: a player to his cards, others to watch it, unless *)
(* the room admits no new spectators.                                       *)
RejoinsGame(u) ==
    /\ room.status = "game" /\ at[u] # "off" /\ mapped[u] # Elsewhere
    /\ IF InSession THEN Back(room, memory, u) ELSE Restores(u)

RejoinRefused(u) ==
    /\ room.status = "game" /\ at[u] = "lobby" /\ mapped[u] # Elsewhere
    /\ u \notin Roster(room) \cup memory.game.players \cup room.saved.players
    /\ IF InSession
       THEN mapped' = Unmapped({u}) /\ UNCHANGED <<room, memory>>
       ELSE \E stage \in {"round", "roundEnd", "gameOver"} :
                LET r == [Reconciled(room) EXCEPT !.connected = {}]
                IN  /\ room' = r
                    /\ mapped' = [MapsMissing(r) EXCEPT ![u] = None]
                    /\ memory' = Restored(r, stage)
    /\ UNCHANGED <<at, closing, crashes>>

-----------------------------------------------------------------------------
(* Leaving.                                                                 *)

Ended(u) == [at EXCEPT ![u] = IF @ = Here THEN "lobby" ELSE @]

(* room:leave of a spectator or of a waiting room                           *)
Leaves(u) ==
    /\ at[u] = Here
    /\ u \in room.watchers \/ (room.status = "waiting" /\ u \in room.seats)
    /\ InSession /\ Live \subseteq {u} => "watcher" \in Gap
    /\ IF isFinalUndepartedHuman(u)
       THEN dissolveRoomUnlocked
       ELSE LET r == [Removed(room, u) EXCEPT !.departed = @ \ {u}]
            IN  /\ at' = Ended(u)
                /\ mapped' = Unmapped({u})
                /\ IF room.owner = u
                   THEN transferOwnerToLiveMemberUnlocked(r, memory, at', u)
                   ELSE room' = r /\ UNCHANGED memory
                /\ UNCHANGED closing
    /\ UNCHANGED crashes

(* room:leave of a player of the game: he stays a member.                   *)
Suspends(u) ==
    /\ at[u] = Here /\ InSession /\ u \in memory.game.players
    /\ IF isFinalUndepartedHuman(u)
       THEN dissolveRoomUnlocked
       ELSE LET r == [Disconnected(room, u) EXCEPT !.departed = @ \cup {u}]
                m == ArmIfDeserted(r, memory, Ended(u))
            IN  /\ at' = Ended(u)
                /\ IF room.owner # u
                   THEN room' = r /\ memory' = m
                   ELSE IF getEligibleLiveOwner(r, m, at', u) = {}
                        THEN room' = r /\ memory' = scheduleOwnerTransfer(m, u)
                        ELSE transferOwnerToLiveMemberUnlocked(r, m, at', u)
                /\ UNCHANGED <<mapped, closing>>
    /\ UNCHANGED crashes

(* room:kick, and on the scoreboard of a finished game                      *)
Kicks(u, v) ==
    /\ Owns(u) /\ v # u
    /\ memory.stage \in {"none", "gameOver"}
    /\ v \in Roster(room) \ memory.game.players
    /\ room' = [Removed(room, v) EXCEPT !.departed = @ \ {v}]
    /\ mapped' = Unmapped({v})
    /\ at' = Ended(v)
    /\ UNCHANGED <<memory, closing, crashes>>

(* room:dissolve                                                            *)
Dissolves(u) ==
    /\ Owns(u)
    /\ dissolveRoomUnlocked
    /\ UNCHANGED crashes

(* room:transfer_owner                                                      *)
TransfersOwner(u, v) ==
    /\ Owns(u) /\ v # u
    /\ v \in (room.seats \cap Live) \ memory.game.excluded
    /\ room' = [room EXCEPT !.owner = v]
    /\ memory' = [memory EXCEPT !.owner = None]
    /\ UNCHANGED <<mapped, at, closing, crashes>>

(* seat:take and seat:leave                                                 *)
TakesSeat(u) ==
    /\ room.status = "waiting" /\ at[u] = Here /\ u \in room.watchers
    /\ room' = [room EXCEPT !.seats = @ \cup {u}, !.watchers = @ \ {u},
                            !.connected = @ \cup {u}]
    /\ UNCHANGED <<mapped, memory, at, closing, crashes>>

LeavesSeat(u) ==
    /\ room.status = "waiting" /\ at[u] = Here /\ u \in room.seats \ room.ready
    /\ room.owner # u
    /\ room' = [room EXCEPT !.seats = @ \ {u}, !.watchers = @ \cup {u},
                            !.connected = @ \cup {u}]
    /\ UNCHANGED <<mapped, memory, at, closing, crashes>>

(* room:ready                                                               *)
TogglesReady(u) ==
    /\ room.status = "waiting" /\ at[u] = Here /\ u \in room.seats \cap room.connected
    /\ room' = [room EXCEPT !.ready = IF u \in @ THEN @ \ {u} ELSE @ \cup {u}]
    /\ UNCHANGED <<mapped, memory, at, closing, crashes>>

-----------------------------------------------------------------------------
(* The game.                                                                *)

Saved(r, g) == [r EXCEPT !.saved = g]
ScheduleIfAway(r, m) ==
    IF r.owner \in getLiveHumanRoomMemberIds(r, m, at) THEN m
    ELSE scheduleOwnerTransfer(m, r.owner)

(* game:start                                                               *)
Starts(u) ==
    /\ Owns(u) /\ room.status = "waiting" /\ ~InSession
    /\ room.seats = room.ready
    /\ LET g == [NoGame EXCEPT !.players = room.seats]
       IN  /\ room' = [Saved(room, g) EXCEPT !.status = "game"]
           /\ memory' = [memory EXCEPT !.stage = "round", !.game = g]
    /\ UNCHANGED <<mapped, at, closing, crashes>>

(* emitTerminalStateIfNeededUnlocked, with checkOwnerDisconnectedAtTerminal *)
Ends(stage) ==
    /\ InSession /\ memory.stage \notin {"gameOver", stage}
    /\ memory' = ScheduleIfAway(room, [memory EXCEPT !.stage = stage])
    /\ UNCHANGED <<room, mapped, at, closing, crashes>>

(* A player moves to the watchers; kicked, he may not queue for a seat.     *)
Moved(r, u) ==
    [r EXCEPT !.seats = @ \ {u}, !.watchers = @ \cup {u}, !.ready = @ \ {u},
              !.connected = IF at[u] = Here THEN @ \cup {u} ELSE @ \ {u}]
MovesOut(u, excluded) ==
    /\ memory.stage = "roundEnd" /\ u \in memory.game.players
    /\ LET g == [players |-> memory.game.players \ {u},
                 excluded |-> memory.game.excluded \cup excluded]
       IN  /\ room' = Saved(Moved(room, u), g)
           /\ memory' = [memory EXCEPT !.game = g]
    /\ UNCHANGED <<mapped, at, closing, crashes>>

(* game:kick_player and game:leave_to_spectate                              *)
Demotes(u, v) == Owns(u) /\ v # u /\ MovesOut(v, {v})
StepsDown(u) == at[u] = Here /\ room.owner # u /\ MovesOut(u, {})

(* startNextRound: those who queued and found a seat join.                  *)
\* Faulty: whoever joins the game is connected.
FaultyJoined(r, us) ==
    [r EXCEPT !.seats = @ \cup us, !.watchers = @ \ us, !.connected = @ \cup us]

Joined(r, us) ==
    [r EXCEPT !.seats = @ \cup us, !.watchers = @ \ us,
              !.connected = (@ \ us) \cup {u \in us : at[u] = Here}]
MayQueue == room.watchers \ (memory.game.excluded \cup room.departed)
StartsNextRound ==
    /\ memory.stage = "roundEnd"
    /\ \E us \in SUBSET MayQueue :
        LET g == [players |-> memory.game.players \cup us, excluded |-> {}]
        IN  /\ room' = Saved(Joined(room, us), g)
            /\ memory' = [memory EXCEPT !.stage = "round", !.game = g]
    /\ UNCHANGED <<mapped, at, closing, crashes>>

(* game:back_to_room: every human becomes a spectator of the waiting room.  *)
AllWatching ==
    [room EXCEPT !.seats = {}, !.ready = {}, !.watchers = Roster(room) \cup memory.game.players,
                 !.connected = {u \in User : at[u] = Here}]
GoesBackToRoom(u) ==
    /\ Owns(u) /\ memory.stage = "gameOver"
    /\ room' = Saved([AllWatching EXCEPT !.status = "waiting"], NoGame)
    /\ mapped' = [v \in User |-> IF v \in room'.watchers THEN Here ELSE mapped[v]]
    /\ memory' = [memory EXCEPT !.stage = "none", !.game = NoGame]
    /\ UNCHANGED <<at, closing, crashes>>

-----------------------------------------------------------------------------
(* Connections.                                                             *)

(* A new socket; a second one of the same user closes the first.            *)
Connects(u) ==
    /\ at[u] \in {"off", Here}
    /\ at' = [at EXCEPT ![u] = "lobby"]
    /\ closing' = IF at[u] = Here THEN closing \cup {u} ELSE closing
    /\ UNCHANGED <<room, mapped, memory, crashes>>

Drops(u) ==
    /\ at[u] # "off"
    /\ at' = [at EXCEPT ![u] = "off"]
    /\ closing' = IF at[u] = Here THEN closing \cup {u} ELSE closing
    /\ UNCHANGED <<room, mapped, memory, crashes>>

(* Joining and leaving other rooms.                                         *)
MovesElsewhere(u) ==
    /\ \/ at[u] = "lobby" /\ mapped[u] = None /\ mapped' = [mapped EXCEPT ![u] = Elsewhere]
       \/ mapped[u] = Elsewhere /\ mapped' = [mapped EXCEPT ![u] = None]
    /\ UNCHANGED <<room, memory, at, closing, crashes>>

(* The disconnect handler.                                                  *)
OwnerGone(m, u) == IF room.owner = u THEN scheduleOwnerTransfer(m, u) ELSE m

PlayerGone(u) ==
    ArmIfDeserted(room, [(IF Settling(memory) THEN OwnerGone(memory, u) ELSE memory)
                            EXCEPT !.member[u] = "govern"], at)
\* Faulty: spectators do not keep a room alive, nor end it.
FaultySpectatorGone(u) ==
    IF ~InSession \/ Settling(memory) THEN OwnerGone(memory, u) ELSE memory

SpectatorGone(u) ==
    ArmIfDeserted(room, IF ~InSession \/ Settling(memory) THEN OwnerGone(memory, u)
                        ELSE memory, at)
(* scheduleWaitingMemberEviction                                            *)
WaitingMemberGone(u) ==
    IF room.status = "waiting"
    THEN [OwnerGone(memory, u) EXCEPT !.member[u] = "evict"]
    ELSE memory

(* With another socket in the room nothing happened.                        *)
DisconnectHandled(u) ==
    /\ u \in closing
    /\ closing' = closing \ {u}
    /\ IF at[u] = Here
       THEN UNCHANGED <<room, memory>>
       ELSE /\ room' = Disconnected(room, u)
            /\ memory' = IF u \notin memory.game.players /\ u \in room.watchers
                         THEN SpectatorGone(u)
                         ELSE IF InSession THEN PlayerGone(u)
                         ELSE WaitingMemberGone(u)
    /\ UNCHANGED <<mapped, at, crashes>>

-----------------------------------------------------------------------------
(* Timers.                                                                  *)

(* runWaitingMemberEviction                                                 *)
Evicts(u) ==
    LET m == [memory EXCEPT !.member[u] = "none"]
        r == Removed(room, u)
    IN  /\ memory.member[u] = "evict"
        /\ IF room.status # "waiting" \/ u \notin room.seats \/ u \in Live
           THEN memory' = m /\ UNCHANGED <<room, mapped, at, closing>>
           ELSE IF Roster(room) = {u}
           THEN dissolveRoomUnlocked
           ELSE /\ room' = r
                /\ mapped' = Unmapped({u})
                /\ memory' = ArmIfDeserted(r, OwnerGone(m, u), at)
                /\ UNCHANGED <<at, closing>>
        /\ UNCHANGED crashes

(* scheduleActivePlayerGovernance                                           *)
Governs(u) ==
    LET m == [memory EXCEPT !.member[u] = "none"]
    IN  /\ memory.member[u] = "govern"
        /\ memory' = IF u \in memory.game.players \ room.connected
                     THEN ArmIfDeserted(room, m, at) ELSE m
        /\ UNCHANGED <<room, mapped, at, closing, crashes>>

OwnerTimerFires ==
    LET m == [memory EXCEPT !.owner = None]
        o == memory.owner
    IN  /\ o # None
        /\ IF room.owner # o \/ o \in Live
           THEN memory' = m /\ UNCHANGED room
           ELSE transferOwnerToLiveMemberUnlocked(room, m, at, o)
        /\ UNCHANGED <<mapped, at, closing, crashes>>

DissolutionTimerFires ==
    /\ memory.dissolution
    /\ IF Live = {}
       THEN dissolveRoomUnlocked
       ELSE /\ memory' = [memory EXCEPT !.dissolution = FALSE]
            /\ UNCHANGED <<room, mapped, at, closing>>
    /\ UNCHANGED crashes

(* cleanupIdleRooms, after two hours without a move of a human              *)
IdleSweepDissolves ==
    /\ room.status # "none"
    /\ dissolveRoomUnlocked
    /\ UNCHANGED crashes

(* reconcileStartupRoom                                                     *)
\* Faulty: the owner's seat is not given up.
FaultyAbsent(r) ==
    IF r.status = "waiting" THEN r.seats \ (r.connected \cup {r.owner}) ELSE {}

Absent(r) == IF r.status = "waiting" THEN r.seats \ r.connected ELSE {}
StartupReconciles ==
    LET r == [(IF room.status = "game" THEN Reconciled(room) ELSE room)
                EXCEPT !.connected = @ \cap Live, !.ready = @ \cap Live]
        absent == Absent(r)
        m == [memory EXCEPT !.startup = FALSE,
                !.member = [u \in User |-> IF u \in absent THEN "evict" ELSE @[u]],
                !.owner = IF room.owner \in absent THEN room.owner ELSE @]
    IN  /\ memory.startup
        /\ IF getHumanRoomMemberIds(r, m) \subseteq r.departed
           THEN dissolveRoomUnlocked
           ELSE /\ room' = r
                /\ mapped' = IF room.status = "game" THEN MapsMissing(r) ELSE mapped
                /\ memory' = ArmIfDeserted(r, m, at)
                /\ UNCHANGED <<at, closing>>
        /\ UNCHANGED crashes

-----------------------------------------------------------------------------
(* The process ends and comes back, all sockets are gone.                   *)
Restart(r, mp) ==
    /\ crashes < MaxCrashes
    /\ crashes' = crashes + 1
    /\ room' = r
    /\ mapped' = mp
    /\ memory' = [Empty EXCEPT !.startup = (r.status # "none")]
    /\ at' = [u \in User |-> "off"]
    /\ closing' = {}

Crash == Restart(room, mapped)

(* Between the writes of room:create, of leaving or being kicked, of the    *)
(* scoreboard's events, of the next round and of going back.                *)
CrashInside(u) ==
    \/ MayCreate(u) /\ Restart(Seated(u), mapped)
    \/ /\ u \in Roster(room) \ memory.game.players /\ at[u] = Here
       /\ ~isFinalUndepartedHuman(u)
       /\ Restart(Removed(room, u), Unmapped({u}))
    \/ /\ memory.stage = "roundEnd" /\ u \in memory.game.players
       /\ Restart(Moved(room, u), mapped)
    \/ memory.stage = "roundEnd" /\ u \in MayQueue /\ Restart(Joined(room, {u}), mapped)
    \/ memory.stage = "gameOver" /\ Owns(u) /\ Restart(AllWatching, mapped)

-----------------------------------------------------------------------------
Handlers(u) ==
    \/ Creates(u) \/ Joins(u) \/ JoinsAgain(u) \/ RejoinsWaiting(u)
    \/ RejoinsGame(u) \/ RejoinRefused(u) \/ Leaves(u) \/ Suspends(u)
    \/ Dissolves(u) \/ TakesSeat(u) \/ LeavesSeat(u) \/ TogglesReady(u)
    \/ Starts(u) \/ StepsDown(u) \/ GoesBackToRoom(u)
    \/ \E v \in User : Kicks(u, v) \/ TransfersOwner(u, v) \/ Demotes(u, v)

Connections(u) == Connects(u) \/ Drops(u) \/ MovesElsewhere(u) \/ CrashInside(u)

Play == Ends("roundEnd") \/ Ends("gameOver") \/ StartsNextRound

Timers ==
    \/ OwnerTimerFires \/ DissolutionTimerFires \/ StartupReconciles
    \/ IdleSweepDissolves
    \/ \E u \in User : DisconnectHandled(u) \/ Evicts(u) \/ Governs(u)

Next == Play \/ Timers \/ Crash \/ \E u \in User : Handlers(u) \/ Connections(u)

Spec == Init /\ [][Next]_vars

(* Timers fire, the lock is first come, first served.  Users do as they     *)
(* like, and the idle sweep is not waited for.                              *)
FairSpec ==
    /\ Spec
    /\ SF_vars(OwnerTimerFires) /\ SF_vars(DissolutionTimerFires)
    /\ WF_vars(StartupReconciles)
    /\ \A u \in User : WF_vars(DisconnectHandled(u)) /\ WF_vars(Evicts(u)) /\ WF_vars(Governs(u))

-----------------------------------------------------------------------------
(* Nobody is a member of the room and of another one at a time, unless the  *)
(* room is about to be cleaned up after a crash.                            *)
OneRoom ==
    \A u \in getHumanRoomMemberIds(room, memory) :
        mapped[u] = Elsewhere => memory.startup \/ memory.member[u] = "evict"

(* Who has cards has a seat, in the session's lifetime and beyond: no crash *)
(* costs a player of the snapshot the membership.                           *)
PlayersBelong ==
    /\ InSession => room.seats = memory.game.players
    /\ room.status = "game" => room.saved.players \subseteq Roster(room)

(* Who counts as connected is, or is about to be found not to be: "a ghost  *)
(* connected:true player can never disconnect".  And no member in the room  *)
(* is taken for one who left it.                                            *)
ConnectedIsTracked ==
    \A u \in Roster(room) :
        /\ u \in room.connected => at[u] = Here \/ u \in closing \/ memory.startup
        /\ at[u] = Here => u \notin room.departed

(* Where the owner is needed and somebody else stays, an owner who went is  *)
(* replaced.                                                                *)
NeedsOwner == room.status = "waiting" \/ Settling(memory)
OwnerPresent ==
    \A u \in User :
        <>[](NeedsOwner /\ u \in Live \ memory.game.excluded) => []<>(room.owner \in Live)

(* A room that everybody left ends.                                         *)
DesertedRoomEnds == []<>(room.status = "none" \/ Live # {})
=============================================================================
