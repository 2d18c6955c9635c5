-------------------------- MODULE MembershipProofs --------------------------
(***************************************************************************)
(* Proofs about RoomMembership, for any users, crashes and gaps: who has   *)
(* cards has a seat, nobody belongs to two rooms, and who counts as        *)
(* connected is, or is about to be found not to be.                        *)
(***************************************************************************)
EXTENDS RoomMembership, TLAPS

Rooms == [status : {"none", "waiting", "game"}, owner : User \cup {None},
          seats : SUBSET User, watchers : SUBSET User, ready : SUBSET User,
          connected : SUBSET User, departed : SUBSET User, saved : Game]
Memories == [stage : {"none", "round", "roundEnd", "gameOver"}, game : Game,
             member : [User -> {"none", "evict", "govern"}],
             owner : User \cup {None}, dissolution : BOOLEAN, startup : BOOLEAN]
Maps == [User -> {None, Here, Elsewhere}]
Places == [User -> {"off", "lobby", Here}]

(* What the room in the store keeps by itself.                              *)
RoomInShape(r) ==
    /\ r \in Rooms
    /\ r.seats \cap r.watchers = {} /\ r.ready \subseteq r.seats
    /\ r.status = "none" => r = NoRoom
    /\ r.status = "game" => r.saved.players \subseteq Roster(r)
    /\ r.departed \subseteq Roster(r)
    /\ r.status = "waiting" => r.departed \cap r.seats = {}

(* The session is that of the snapshot.  A game without one waits for the   *)
(* first who comes back.                                                    *)
SessionFits(r, m, a) ==
    /\ m \in Memories /\ a \in Places
    /\ m.stage # "none" => /\ r.status = "game" /\ r.saved = m.game
                           /\ r.seats = m.game.players
    /\ m.stage = "none" => m.game = NoGame
    /\ m.stage = "none" /\ r.status # "waiting" => \A u \in User : a[u] # Here

(* Only after a crash in room:create a member is not mapped to the room: it *)
(* has a seat, is not back, and the startup or its eviction will find it.   *)
MembersMapped(r, m, mp, a) ==
    /\ mp \in Maps
    /\ \A u \in Roster(r) :
        mp[u] # Here =>
            /\ r.status = "waiting" /\ u \in r.seats \ r.ready /\ a[u] # Here
            /\ m.startup \/ m.member[u] = "evict"

PresenceFits(r, m, a, c) ==
    /\ c \subseteq User
    /\ \A u \in r.departed : a[u] # Here
    /\ "drop" \notin Gap =>
        \A u \in Roster(r) : u \in r.connected => a[u] = Here \/ u \in c \/ m.startup

Fits(r, m, mp, a, c) ==
    /\ RoomInShape(r) /\ SessionFits(r, m, a)
    /\ MembersMapped(r, m, mp, a) /\ PresenceFits(r, m, a, c)

Fit == Fits(room, memory, mapped, at, closing) /\ crashes \in 0..MaxCrashes

LEMMA Values ==
    /\ "lobby" # Here /\ "off" # Here /\ Here # Elsewhere
    /\ None \notin User /\ None # Here /\ None # Elsewhere
    /\ NoGame \in Game /\ NoRoom \in Rooms /\ Empty \in Memories
    /\ NoRoom.status = "none" /\ Roster(NoRoom) = {} /\ NoRoom.seats = {}
    /\ NoRoom.watchers = {} /\ NoRoom.ready = {} /\ NoRoom.departed = {}
    /\ NoRoom.connected = {} /\ NoRoom.saved = NoGame
    /\ Empty.stage = "none" /\ Empty.game = NoGame /\ Empty.startup = FALSE
    /\ NoGame.players = {}
<1>1. NoGame \in Game
  BY DEF NoGame, Game
<1>2. NoTimers \in [User -> {"none", "evict", "govern"}]
  BY DEF NoTimers
<1>3. NoRoom \in Rooms
  BY <1>1 DEF NoRoom, Rooms
<1>4. Empty \in Memories
  BY <1>1, <1>2 DEF Empty, Memories
<1> QED
  BY <1>1, <1>3, <1>4, UserAssumption DEF Here, Elsewhere, NoRoom, Roster, Empty, NoGame

(***************************************************************************)
(* What the operators leave alone                                          *)
(***************************************************************************)

(* The same room, but for its owner.                                        *)
SameRoom(r, q) ==
    /\ q \in Rooms
    /\ q.status = r.status /\ q.seats = r.seats /\ q.watchers = r.watchers
    /\ q.ready = r.ready /\ q.connected = r.connected /\ q.departed = r.departed
    /\ q.saved = r.saved
    /\ r.status = "none" => q = r

(* The same session, but for the timers of the owner and the room.          *)
Upkeep(m, n) ==
    /\ n \in Memories
    /\ n.stage = m.stage /\ n.game = m.game /\ n.startup = m.startup
    /\ n.member = m.member

LEMMA FitsAnyOwner ==
    ASSUME NEW r, NEW m, NEW mp, NEW a, NEW c, NEW q, NEW n,
           Fits(r, m, mp, a, c), SameRoom(r, q), Upkeep(m, n)
    PROVE  Fits(q, n, mp, a, c)
<1>1. RoomInShape(q)
  BY DEF Fits, RoomInShape, SameRoom, Roster
<1>2. SessionFits(q, n, a)
  BY DEF Fits, SessionFits, SameRoom, Upkeep
<1>3. MembersMapped(q, n, mp, a)
  BY DEF Fits, MembersMapped, SameRoom, Upkeep, Roster
<1>4. PresenceFits(q, n, a, c)
  BY DEF Fits, PresenceFits, SameRoom, Upkeep, Roster
<1> QED
  BY <1>1, <1>2, <1>3, <1>4 DEF Fits

LEMMA SameRoomItself ==
    ASSUME NEW r \in Rooms
    PROVE  SameRoom(r, r)
BY DEF SameRoom

LEMMA UpkeepItself ==
    ASSUME NEW m \in Memories
    PROVE  Upkeep(m, m)
BY DEF Upkeep

LEMMA TimersOnly ==
    ASSUME NEW m \in Memories
    PROVE  /\ Upkeep(m, armAllDisconnectTimer(m))
           /\ \A o \in User \cup {None} : /\ Upkeep(m, scheduleOwnerTransfer(m, o))
                                         /\ Upkeep(m, [m EXCEPT !.owner = o])
           /\ \A r, a : Upkeep(m, ArmIfDeserted(r, m, a))
           /\ \A b \in BOOLEAN : Upkeep(m, [m EXCEPT !.dissolution = b])
           /\ \A u \in User : Upkeep(m, OwnerGone(m, u))
<1>1. \A b \in BOOLEAN : Upkeep(m, [m EXCEPT !.dissolution = b])
  BY DEF Upkeep, Memories
<1>2. \A p \in User \cup {None} : Upkeep(m, [m EXCEPT !.owner = p])
  BY DEF Upkeep, Memories
<1>3. Upkeep(m, m)
  BY UpkeepItself
<1> QED
  BY <1>1, <1>2, <1>3
  DEF armAllDisconnectTimer, scheduleOwnerTransfer, ArmIfDeserted, OwnerGone

LEMMA UpkeepTwice ==
    ASSUME NEW m, NEW n, NEW k, Upkeep(m, n), Upkeep(n, k)
    PROVE  Upkeep(m, k)
BY DEF Upkeep

(* The owner's transfer names a member who is live.                         *)
LEMMA TransferOnlyOwner ==
    ASSUME NEW r \in Rooms, NEW m \in Memories, NEW a, NEW o,
           r.status # "none", transferOwnerToLiveMemberUnlocked(r, m, a, o)
    PROVE  SameRoom(r, room') /\ Upkeep(m, memory')
<1> DEFINE next == getEligibleLiveOwner(r, m, a, o)
<1>1. CASE next = {}
  <2>1. room' = r /\ memory' = ArmIfDeserted(r, m, a)
    BY <1>1 DEF transferOwnerToLiveMemberUnlocked
  <2> HIDE DEF next
  <2> QED
    BY <2>1, SameRoomItself, TimersOnly
<1>2. CASE next # {}
  <2>1. next \subseteq User
    BY DEF getEligibleLiveOwner, getLiveHumanRoomMemberIds, getHumanRoomMemberIds, Roster,
       Rooms, Memories, Game
  <2>2. PICK u \in next : room' = [r EXCEPT !.owner = u] /\ memory' = m
    BY <1>2 DEF transferOwnerToLiveMemberUnlocked
  <2> HIDE DEF next
  <2>3. SameRoom(r, room')
    BY <2>1, <2>2 DEF SameRoom, Rooms
  <2> QED
    BY <2>2, <2>3, UpkeepItself
<1> QED
  BY <1>1, <1>2

LEMMA ReconnectedIs ==
    ASSUME NEW r \in Rooms, NEW m \in Memories, NEW a, NEW u \in User,
           NEW n, n = Reconnected(r, m, a, u)
    PROVE  /\ n \in Memories
           /\ n.stage = m.stage /\ n.game = m.game /\ n.startup = m.startup
           /\ \A v \in User \ {u} : n.member[v] = m.member[v]
<1> DEFINE back == [m EXCEPT !.member[u] = "none", !.dissolution = FALSE]
<1>1. /\ back \in Memories
      /\ back.stage = m.stage /\ back.game = m.game /\ back.startup = m.startup
      /\ \A v \in User \ {u} : back.member[v] = m.member[v]
  BY DEF Memories
<1>2. r.owner \in User \cup {None} /\ None \in User \cup {None}
  BY DEF Rooms
<1>3. n \in {[back EXCEPT !.owner = None], scheduleOwnerTransfer(back, r.owner), back}
  BY DEF Reconnected
<1> HIDE DEF back
<1>4. Upkeep(back, n)
  BY <1>1, <1>2, <1>3, TimersOnly, UpkeepItself
<1> QED
  BY <1>1, <1>4 DEF Upkeep

(* What a room is after one of its members moved.                           *)
LEMMA RemovedIs ==
    ASSUME NEW r \in Rooms, NEW u \in User, NEW q, q = Removed(r, u)
    PROVE  /\ q \in Rooms /\ q.status = r.status /\ q.saved = r.saved
           /\ q.seats = r.seats \ {u} /\ q.watchers = r.watchers \ {u}
           /\ q.ready = r.ready \ {u} /\ q.connected = r.connected \ {u}
           /\ q.departed = r.departed
BY DEF Removed, Rooms

LEMMA DisconnectedIs ==
    ASSUME NEW r \in Rooms, NEW u \in User, NEW q, q = Disconnected(r, u)
    PROVE  /\ q \in Rooms /\ q.status = r.status /\ q.saved = r.saved
           /\ q.seats = r.seats /\ q.watchers = r.watchers
           /\ q.ready = r.ready \ {u} /\ q.connected = r.connected \ {u}
           /\ q.departed = r.departed
BY DEF Disconnected, Rooms

LEMMA DepartedIs ==
    ASSUME NEW r \in Rooms, NEW u \in User, NEW q, q = [Disconnected(r, u) EXCEPT !.departed = @ \cup {u}]
    PROVE  /\ q \in Rooms /\ q.status = r.status /\ q.saved = r.saved
           /\ q.seats = r.seats /\ q.watchers = r.watchers
           /\ q.ready = r.ready \ {u} /\ q.connected = r.connected \ {u}
           /\ q.departed = r.departed \cup {u}
BY DEF Disconnected, Rooms

LEMMA MovedIs ==
    ASSUME NEW r \in Rooms, NEW u \in User, NEW q, q = Moved(r, u)
    PROVE  /\ q \in Rooms /\ q.status = r.status /\ q.saved = r.saved
           /\ q.seats = r.seats \ {u} /\ q.watchers = r.watchers \cup {u}
           /\ q.ready = r.ready \ {u} /\ q.departed = r.departed
           /\ \A v : v \in q.connected <=> (v \in r.connected \ {u} \/ (v = u /\ at[u] = Here))
BY DEF Moved, Rooms

LEMMA WatchingIs ==
    ASSUME NEW r \in Rooms, NEW u \in User, NEW q, q = Watching(r, u)
    PROVE  /\ q \in Rooms /\ q.status = r.status /\ q.saved = r.saved
           /\ q.seats = r.seats /\ q.ready = r.ready /\ q.connected = r.connected \cup {u}
           /\ q.watchers = r.watchers \cup ({u} \ r.seats)
           /\ q.departed = r.departed
BY DEF Watching, Rooms

LEMMA ReturnedIs ==
    ASSUME NEW r \in Rooms, NEW u \in User, NEW q, q = Returned(r, u)
    PROVE  /\ q \in Rooms /\ q.status = r.status /\ q.saved = r.saved
           /\ q.seats = r.seats /\ q.ready = r.ready /\ q.connected = r.connected \cup {u}
           /\ q.watchers = r.watchers \cup ({u} \ r.seats)
           /\ q.departed = r.departed \ {u}
BY DEF Returned, Watching, Rooms

LEMMA SeatedIs ==
    ASSUME NEW u \in User, NEW q, q = Seated(u)
    PROVE  /\ q \in Rooms /\ q.status = "waiting" /\ q.saved = NoGame
           /\ q.seats = {u} /\ q.watchers = {} /\ q.ready = {} /\ q.departed = {}
           /\ q.connected = {u}
BY Values DEF Seated, Rooms

LEMMA ReconciledIs ==
    ASSUME NEW r \in Rooms, NEW q, q = Reconciled(r)
    PROVE  /\ q \in Rooms /\ q.status = r.status /\ q.saved = r.saved
           /\ q.seats = r.saved.players /\ q.watchers = Roster(r) \ r.saved.players
           /\ q.ready = {} /\ q.departed = r.departed /\ q.connected = r.connected
<1>1. r.saved.players \subseteq User /\ Roster(r) \subseteq User
  BY DEF Rooms, Game, Roster
<1> QED
  BY <1>1 DEF Reconciled, Rooms

LEMMA SavedIs ==
    ASSUME NEW r \in Rooms, NEW g \in Game, NEW s \in {"none", "waiting", "game"},
           NEW q, q = [Saved(r, g) EXCEPT !.status = s] \/ (q = Saved(r, g) /\ s = r.status)
    PROVE  /\ q \in Rooms /\ q.status = s /\ q.saved = g
           /\ q.seats = r.seats /\ q.watchers = r.watchers /\ q.ready = r.ready
           /\ q.departed = r.departed /\ q.connected = r.connected
BY DEF Saved, Rooms

LEMMA JoinedIs ==
    ASSUME NEW r \in Rooms, NEW us \in SUBSET User, NEW q, q = Joined(r, us)
    PROVE  /\ q \in Rooms /\ q.status = r.status /\ q.saved = r.saved
           /\ q.seats = r.seats \cup us /\ q.watchers = r.watchers \ us
           /\ q.ready = r.ready /\ q.departed = r.departed
           /\ q.connected = (r.connected \ us) \cup {u \in us : at[u] = Here}
BY DEF Joined, Rooms

LEMMA AllWatchingIs ==
    ASSUME room \in Rooms, memory \in Memories, NEW q, q = AllWatching
    PROVE  /\ q \in Rooms /\ q.status = room.status /\ q.saved = room.saved
           /\ q.seats = {} /\ q.ready = {} /\ q.departed = room.departed
           /\ q.watchers = Roster(room) \cup memory.game.players
           /\ q.connected = {u \in User : at[u] = Here}
<1>1. Roster(room) \cup memory.game.players \subseteq User
  BY DEF Rooms, Memories, Game, Roster
<1> QED
  BY <1>1 DEF AllWatching, Rooms

LEMMA UnmappedIs ==
    ASSUME mapped \in Maps, NEW us
    PROVE  /\ Unmapped(us) \in Maps
           /\ \A u \in User : Unmapped(us)[u] = IF u \in us /\ mapped[u] = Here
                                                THEN None ELSE mapped[u]
BY DEF Unmapped, Maps

LEMMA MapsMissingIs ==
    ASSUME mapped \in Maps, NEW r
    PROVE  /\ MapsMissing(r) \in Maps
           /\ \A u \in User : mapped[u] = Here => MapsMissing(r)[u] = Here
BY DEF MapsMissing, Maps

LEMMA PlacesAre ==
    ASSUME at \in Places, NEW u \in User
    PROVE  /\ Ended(u) \in Places /\ Ended(u)[u] # Here
           /\ \A v \in User \ {u} : Ended(u)[v] = at[v]
           /\ \A b \in Entered(u) :
                /\ b \in Places /\ (b[u] = Here \/ "drop" \in Gap)
                /\ \A v \in User \ {u} : b[v] = at[v]
BY Values DEF Ended, Entered, Places

(***************************************************************************)
(* What several handlers do                                                *)
(***************************************************************************)

(* A member comes back or a newcomer enters.                                *)
LEMMA EntersFits ==
    ASSUME NEW r, NEW m, NEW mp, NEW c, NEW u \in User, Fits(r, m, mp, at, c),
           NEW n, n \in Memories,
           n.stage = m.stage, n.game = m.game, n.startup = m.startup,
           \A v \in User \ {u} : n.member[v] = m.member[v],
           r.status = "waiting" \/ m.stage # "none",
           NEW q, q = Returned(r, u) \/ (q = Watching(r, u) /\ u \notin r.departed),
           NEW b \in Entered(u)
    PROVE  Fits(q, n, [mp EXCEPT ![u] = Here], b, c)
<1> DEFINE nmp == [mp EXCEPT ![u] = Here]
<1>1. r \in Rooms /\ m \in Memories /\ mp \in Maps /\ at \in Places
  BY DEF Fits, RoomInShape, SessionFits, MembersMapped
<1>2. /\ q \in Rooms /\ q.status = r.status /\ q.saved = r.saved
      /\ q.seats = r.seats /\ q.ready = r.ready /\ q.departed = r.departed \ {u}
      /\ q.watchers = r.watchers \cup ({u} \ r.seats)
      /\ q.connected = r.connected \cup {u}
  <2>1. CASE q = Returned(r, u)
    BY <1>1, <2>1, ReturnedIs
  <2>2. CASE q = Watching(r, u) /\ u \notin r.departed
    BY <1>1, <2>2, WatchingIs
  <2> QED
    BY <2>1, <2>2
<1>3. /\ b \in Places /\ (b[u] = Here \/ "drop" \in Gap)
      /\ \A v \in User \ {u} : b[v] = at[v]
  BY <1>1, PlacesAre
<1>4. nmp \in Maps /\ nmp[u] = Here /\ \A v \in User \ {u} : nmp[v] = mp[v]
  BY <1>1 DEF Maps
<1> HIDE DEF nmp
<1>5. Roster(q) = Roster(r) \cup {u} /\ Roster(r) \subseteq User /\ r.status # "none"
  BY <1>1, <1>2, Values DEF Roster, Rooms, Fits, SessionFits
<1>6. RoomInShape(q)
  BY <1>2, <1>5 DEF Fits, RoomInShape
<1>7. SessionFits(q, n, b)
  BY <1>2, <1>3, <1>5 DEF Fits, SessionFits
<1>8. MembersMapped(q, n, nmp, b)
  BY <1>2, <1>3, <1>4, <1>5 DEF Fits, MembersMapped
<1>9. PresenceFits(q, n, b, c)
  <2>1. \A v \in q.departed : b[v] # Here
    BY <1>2, <1>3, <1>5 DEF Fits, PresenceFits, RoomInShape
  <2> QED
    BY <1>2, <1>3, <1>5, <2>1 DEF Fits, PresenceFits
<1> QED
  BY <1>6, <1>7, <1>8, <1>9 DEF Fits, nmp

(* A member goes, and is no longer in the room.                             *)
LEMMA RemovesFits ==
    ASSUME NEW u \in User, Fits(room, memory, mapped, at, closing),
           u \notin memory.game.players, room.status = "waiting" \/ memory.stage # "none",
           NEW q, \/ q = [Removed(room, u) EXCEPT !.departed = @ \ {u}]
                  \/ q = Removed(room, u) /\ u \notin room.departed,
           NEW m \in Memories, m.stage = memory.stage, m.game = memory.game,
           m.startup = memory.startup,
           \A v \in User \ {u} : m.member[v] = memory.member[v],
           NEW a \in {at, Ended(u)}
    PROVE  Fits(q, m, Unmapped({u}), a, closing)
<1>1. room \in Rooms /\ memory \in Memories /\ mapped \in Maps /\ at \in Places
  BY DEF Fits, RoomInShape, SessionFits, MembersMapped
<1>2. /\ q \in Rooms /\ q.status = room.status /\ q.saved = room.saved
      /\ q.seats = room.seats \ {u} /\ q.watchers = room.watchers \ {u}
      /\ q.ready = room.ready \ {u} /\ q.connected = room.connected \ {u}
      /\ q.departed = room.departed \ {u}
  <2>1. CASE q = [Removed(room, u) EXCEPT !.departed = @ \ {u}]
    BY <1>1, <2>1 DEF Removed, Rooms
  <2>2. CASE q = Removed(room, u) /\ u \notin room.departed
    BY <1>1, <2>2, RemovedIs
  <2> QED
    BY <2>1, <2>2
<1>3. /\ a \in Places /\ \A v \in User \ {u} : a[v] = at[v]
      /\ a[u] = at[u] \/ a[u] # Here
  BY <1>1, PlacesAre
<1>4. /\ Unmapped({u}) \in Maps /\ \A v \in User \ {u} : Unmapped({u})[v] = mapped[v]
  BY <1>1, UnmappedIs
<1>5. /\ Roster(q) = Roster(room) \ {u} /\ Roster(room) \subseteq User
      /\ room.departed \subseteq User
  BY <1>1, <1>2 DEF Roster, Rooms
<1>6. RoomInShape(q)
  <2>1. room.status # "none"
    BY DEF Fits, SessionFits
  <2>2. room.status = "game" => u \notin room.saved.players
    BY DEF Fits, SessionFits
  <2> QED
    BY <1>2, <1>5, <2>1, <2>2 DEF Fits, RoomInShape
<1>7. SessionFits(q, m, a)
  <2>1. memory.stage # "none" => u \notin room.seats
    BY DEF Fits, SessionFits
  <2> QED
    BY <1>2, <1>3, <2>1 DEF Fits, SessionFits
<1>8. MembersMapped(q, m, Unmapped({u}), a)
  BY <1>2, <1>3, <1>4, <1>5 DEF Fits, MembersMapped
<1>9. PresenceFits(q, m, a, closing)
  <2>1. \A v \in q.departed : a[v] # Here
    BY <1>2, <1>3, <1>5 DEF Fits, PresenceFits
  <2> QED
    BY <1>2, <1>3, <1>5, <2>1 DEF Fits, PresenceFits
<1> QED
  BY <1>6, <1>7, <1>8, <1>9 DEF Fits

(* The room is dissolved: nobody is left in it.                             *)
LEMMA DissolvesFit ==
    ASSUME Fit, dissolveRoomUnlocked, crashes' = crashes
    PROVE  Fit'
<1>1. /\ room' = NoRoom /\ memory' = Empty /\ mapped' = Unmapped(User) /\ closing' = {}
      /\ at' = [u \in User |-> IF at[u] = Here THEN "lobby" ELSE at[u]]
  BY DEF dissolveRoomUnlocked
<1>2. at \in Places /\ mapped \in Maps
  BY DEF Fit, Fits, SessionFits, MembersMapped
<1>3. at' \in Places /\ \A u \in User : at'[u] # Here
  BY <1>1, <1>2, Values DEF Places
<1>4. mapped' \in Maps
  BY <1>1, <1>2, UnmappedIs
<1>5. RoomInShape(room') /\ SessionFits(room', memory', at')
  BY <1>1, <1>3, Values DEF RoomInShape, SessionFits
<1>6. MembersMapped(room', memory', mapped', at') /\ PresenceFits(room', memory', at', closing')
  BY <1>1, <1>3, <1>4, Values DEF MembersMapped, PresenceFits
<1> QED
  BY <1>5, <1>6 DEF Fit, Fits

(* A restart: who is in the store, is found by the startup reconciliation.  *)
LEMMA RestartFits ==
    ASSUME Fit, NEW r, RoomInShape(r), NEW mp \in Maps, Restart(r, mp),
           \A u \in Roster(r) : mp[u] # Here => r.status = "waiting" /\ u \in r.seats \ r.ready
    PROVE  Fit'
<1>1. /\ room' = r /\ mapped' = mp /\ closing' = {} /\ crashes' = crashes + 1
      /\ crashes < MaxCrashes
      /\ memory' = [Empty EXCEPT !.startup = (r.status # "none")]
      /\ at' = [u \in User |-> "off"]
  BY DEF Restart
<1>2. at' \in Places /\ \A u \in User : at'[u] # Here
  BY <1>1, Values DEF Places
<1> DEFINE b == r.status # "none"
<1>3. /\ memory' \in Memories /\ memory'.stage = "none" /\ memory'.game = NoGame
      /\ memory'.startup <=> b
  <2>1. b \in BOOLEAN /\ memory' = [Empty EXCEPT !.startup = b]
    BY <1>1
  <2> HIDE DEF b
  <2> QED
    BY <2>1, Values DEF Memories
<1>4. r \in Rooms /\ (Roster(r) # {} => b) /\ Roster(r) \subseteq User /\ r.departed \subseteq User
  BY Values DEF RoomInShape, Roster, Rooms
<1>5. SessionFits(room', memory', at')
  BY <1>1, <1>2, <1>3 DEF SessionFits
<1>6. MembersMapped(room', memory', mapped', at')
  BY <1>1, <1>2, <1>3, <1>4 DEF MembersMapped
<1>7. PresenceFits(room', memory', at', closing')
  BY <1>1, <1>2, <1>3, <1>4 DEF PresenceFits
<1>8. crashes' \in 0..MaxCrashes
  BY <1>1, ChoiceAssumption DEF Fit
<1> QED
  BY <1>1, <1>5, <1>6, <1>7, <1>8 DEF Fit, Fits

(***************************************************************************)
(* Entering                                                                *)
(***************************************************************************)

(* What Fit says of the variables, in parts.                                *)
LEMMA Parts ==
    ASSUME Fit
    PROVE  /\ Fits(room, memory, mapped, at, closing)
           /\ room \in Rooms /\ memory \in Memories /\ mapped \in Maps /\ at \in Places
           /\ closing \subseteq User /\ crashes \in 0..MaxCrashes
           /\ Roster(room) \subseteq User /\ room.departed \subseteq Roster(room)
           /\ room.seats \cap room.watchers = {} /\ Roster(room) = room.seats \cup room.watchers
           /\ \A u \in User : at[u] = Here =>
                /\ u \notin room.departed
                /\ u \in Roster(room) => mapped[u] = Here
                /\ room.status = "waiting" \/ memory.stage # "none"
                /\ room.status # "none"
BY DEF Fit, Fits, RoomInShape, SessionFits, MembersMapped, PresenceFits, Roster, Rooms

LEMMA RestoredFits ==
    ASSUME Fit, room.status = "game", NEW stage \in {"round", "roundEnd", "gameOver"},
           NEW r, r = [Reconciled(room) EXCEPT !.connected = {}]
    PROVE  /\ Fits(r, Restored(r, stage), MapsMissing(r), at, closing)
           /\ Restored(r, stage).stage # "none" /\ Roster(r) = Roster(room)
<1>1. /\ r \in Rooms /\ r.status = "game" /\ r.saved = room.saved
      /\ r.seats = room.saved.players /\ r.watchers = Roster(room) \ room.saved.players
      /\ r.ready = {} /\ r.departed = room.departed /\ r.connected = {}
  <2> DEFINE k == Reconciled(room)
  <2>1. /\ k \in Rooms /\ k.status = room.status /\ k.saved = room.saved
        /\ k.seats = room.saved.players /\ k.watchers = Roster(room) \ room.saved.players
        /\ k.ready = {} /\ k.departed = room.departed
    BY Parts, ReconciledIs
  <2>2. r = [k EXCEPT !.connected = {}]
    OBVIOUS
  <2> HIDE DEF k
  <2> QED
    BY <2>1, <2>2 DEF Rooms
<1>2. Roster(r) = Roster(room) /\ Roster(room) \subseteq User
  BY <1>1, Parts DEF Roster, Fits, RoomInShape
<1>3. /\ Restored(r, stage) \in Memories /\ Restored(r, stage).stage = stage
      /\ Restored(r, stage).game = room.saved
  <2> DEFINE member == [u \in User |-> IF u \in r.saved.players THEN "govern"
                                       ELSE memory.member[u]]
             owner == IF stage # "round" THEN r.owner ELSE memory.owner
  <2>1. member \in [User -> {"none", "evict", "govern"}] /\ owner \in User \cup {None}
    BY <1>1, Parts DEF Memories, Rooms
  <2>2. r.saved \in Game
    BY <1>1 DEF Rooms
  <2>3. Restored(r, stage) =
            [memory EXCEPT !.stage = stage, !.game = r.saved, !.dissolution = TRUE,
                           !.member = member, !.owner = owner]
    BY Parts DEF Restored, Memories
  <2> HIDE DEF member, owner
  <2> QED
    BY <1>1, <2>1, <2>2, <2>3, Parts DEF Memories
<1>4. RoomInShape(r)
  BY <1>1, <1>2, Parts DEF Fits, RoomInShape
<1>5. SessionFits(r, Restored(r, stage), at)
  BY <1>1, <1>3, Parts DEF SessionFits
<1>6. MembersMapped(r, Restored(r, stage), MapsMissing(r), at)
  <2>1. \A u \in Roster(r) : mapped[u] = Here
    BY <1>2, Parts DEF Fits, MembersMapped
  <2> QED
    BY <1>2, <2>1, Parts, MapsMissingIs DEF MembersMapped
<1>7. PresenceFits(r, Restored(r, stage), at, closing)
  BY <1>1, Parts DEF Fits, PresenceFits
<1> QED
  BY <1>2, <1>3, <1>4, <1>5, <1>6, <1>7 DEF Fits

LEMMA BackKeeps ==
    ASSUME Fit, NEW u \in User, Back(room, memory, u),
           room.status = "waiting" \/ memory.stage # "none"
    PROVE  Fit'
<1>1. /\ room' = Returned(room, u) /\ mapped' = [mapped EXCEPT ![u] = Here]
      /\ at' \in Entered(u) /\ memory' = Reconnected(room', memory, at', u)
      /\ closing' = closing /\ crashes' = crashes
  BY DEF Back
<1>2. room' \in Rooms
  BY <1>1, Parts, ReturnedIs
<1>3. /\ memory' \in Memories
      /\ memory'.stage = memory.stage /\ memory'.game = memory.game
      /\ memory'.startup = memory.startup
      /\ \A v \in User \ {u} : memory'.member[v] = memory.member[v]
  BY <1>1, <1>2, Parts, ReconnectedIs
<1>4. Fits(room, memory, mapped, at, closing) /\ crashes \in 0..MaxCrashes
  BY Parts
<1>5. Fits(room', memory', [mapped EXCEPT ![u] = Here], at', closing)
  BY <1>1, <1>3, <1>4, EntersFits
<1> QED
  BY <1>1, <1>4, <1>5 DEF Fit

LEMMA EntryKeeps ==
    ASSUME Fit, NEW u \in User,
           \/ Creates(u) \/ Joins(u) \/ JoinsAgain(u) \/ RejoinsWaiting(u)
           \/ RejoinsGame(u) \/ RejoinRefused(u)
    PROVE  Fit'
<1>1. CASE Creates(u)
  <2>1. /\ room' \in Rooms /\ room'.status = "waiting" /\ room'.saved = NoGame
        /\ room'.seats = {u} /\ room'.watchers = {} /\ room'.ready = {} /\ room'.departed = {}
        /\ room'.connected = {u}
    BY <1>1, SeatedIs DEF Creates
  <2>2. /\ at' \in Places /\ (at'[u] = Here \/ "drop" \in Gap)
    BY <1>1, Parts, PlacesAre DEF Creates
  <2>3. mapped' \in Maps /\ mapped'[u] = Here
    BY <1>1, Parts DEF Creates, Maps
  <2>4. memory' = memory /\ closing' = closing /\ crashes' = crashes /\ room.status = "none"
    BY <1>1 DEF Creates, MayCreate
  <2>5. Roster(room') = {u}
    BY <2>1 DEF Roster
  <2>6. RoomInShape(room') /\ SessionFits(room', memory', at')
    BY <2>1, <2>2, <2>4, Parts DEF Fits, RoomInShape, SessionFits
  <2>7. MembersMapped(room', memory', mapped', at') /\ PresenceFits(room', memory', at', closing')
    BY <2>1, <2>2, <2>3, <2>4, <2>5, Parts DEF MembersMapped, PresenceFits
  <2> QED
    BY <2>4, <2>6, <2>7 DEF Fit, Fits
<1>2. CASE Joins(u)
  <2>1. /\ room' = Watching(room, u) /\ mapped' = [mapped EXCEPT ![u] = Here]
        /\ at' \in Entered(u) /\ UNCHANGED <<memory, closing, crashes>>
        /\ u \notin room.departed /\ room.status = "waiting"
    BY <1>2, Parts DEF Joins
  <2> QED
    BY <2>1, Parts, EntersFits DEF Fit
<1>3. CASE JoinsAgain(u) \/ RejoinsWaiting(u)
  BY <1>3, BackKeeps DEF JoinsAgain, RejoinsWaiting
<1>4. CASE RejoinsGame(u)
  <2>1. CASE InSession
    BY <1>4, <2>1, BackKeeps DEF RejoinsGame, InSession
  <2>2. CASE ~InSession
    <3> DEFINE r == [Reconciled(room) EXCEPT !.connected = {}]
    <3>1. PICK stage \in {"round", "roundEnd", "gameOver"} :
            /\ room' = Returned(r, u)
            /\ mapped' = [MapsMissing(r) EXCEPT ![u] = Here]
            /\ at' \in Entered(u)
            /\ memory' = Reconnected(room', Restored(r, stage), at', u)
            /\ UNCHANGED <<closing, crashes>>
      BY <1>4, <2>2 DEF RejoinsGame, Restores
    <3> DEFINE m == Restored(r, stage)
               mp == MapsMissing(r)
    <3>2. Fits(r, m, mp, at, closing) /\ m.stage # "none"
      BY <1>4, RestoredFits DEF RejoinsGame
    <3> HIDE DEF r, m, mp
    <3>3. room' = Returned(r, u) /\ r \in Rooms /\ m \in Memories
      BY <3>1, <3>2 DEF Fits, RoomInShape, SessionFits
    <3>4. room' \in Rooms
      BY <3>3, ReturnedIs
    <3>5. mapped' = [mp EXCEPT ![u] = Here] /\ memory' = Reconnected(room', m, at', u)
      BY <3>1 DEF m, mp
    <3>6. /\ memory' \in Memories
          /\ memory'.stage = m.stage /\ memory'.game = m.game /\ memory'.startup = m.startup
          /\ \A v \in User \ {u} : memory'.member[v] = m.member[v]
      BY <3>3, <3>4, <3>5, ReconnectedIs
    <3>7. r.status = "waiting" \/ m.stage # "none"
      BY <3>2
    <3>8. Fits(room', memory', [mp EXCEPT ![u] = Here], at', closing)
      BY <3>1, <3>2, <3>3, <3>6, <3>7, EntersFits
    <3> QED
      BY <3>1, <3>5, <3>8, Parts DEF Fit
  <2> QED
    BY <2>1, <2>2
<1>5. CASE RejoinRefused(u)
  <2>1. u \notin Roster(room) /\ room.status = "game" /\ UNCHANGED <<at, closing, crashes>>
    BY <1>5 DEF RejoinRefused
  <2>2. CASE InSession
    <3>1. mapped' = Unmapped({u}) /\ UNCHANGED <<room, memory>>
      BY <1>5, <2>2 DEF RejoinRefused
    <3>2. mapped' \in Maps /\ \A v \in User \ {u} : mapped'[v] = mapped[v]
      BY <3>1, Parts, UnmappedIs
    <3>3. MembersMapped(room', memory', mapped', at')
      BY <2>1, <3>1, <3>2, Parts DEF Fits, MembersMapped
    <3> QED
      BY <2>1, <3>1, <3>3, Parts DEF Fit, Fits
  <2>3. CASE ~InSession
    <3> DEFINE r == [Reconciled(room) EXCEPT !.connected = {}]
    <3>1. PICK stage \in {"round", "roundEnd", "gameOver"} :
            /\ room' = r /\ mapped' = [MapsMissing(r) EXCEPT ![u] = None]
            /\ memory' = Restored(r, stage)
      BY <1>5, <2>3 DEF RejoinRefused
    <3> DEFINE mp == MapsMissing(r)
    <3>2. Fits(r, memory', mp, at, closing) /\ Roster(r) = Roster(room)
      BY <2>1, <3>1, RestoredFits
    <3>3. mapped' = [mp EXCEPT ![u] = None] /\ room' = r
      BY <3>1
    <3> HIDE DEF r, mp
    <3>4. MembersMapped(r, memory', mapped', at)
      BY <2>1, <3>2, <3>3, Parts DEF Fits, MembersMapped, Maps
    <3> QED
      BY <2>1, <3>2, <3>3, <3>4, Parts DEF Fit, Fits
  <2> QED
    BY <2>2, <2>3
<1> QED
  BY <1>1, <1>2, <1>3, <1>4, <1>5

(***************************************************************************)
(* Leaving                                                                 *)
(***************************************************************************)
LEMMA LeavesKeeps ==
    ASSUME Fit, NEW u \in User, Leaves(u)
    PROVE  Fit'
<1>1. CASE isFinalUndepartedHuman(u)
  BY <1>1, DissolvesFit DEF Leaves
<1>2. CASE ~isFinalUndepartedHuman(u)
  <2> DEFINE r == [Removed(room, u) EXCEPT !.departed = @ \ {u}]
  <2>1. /\ at' = Ended(u) /\ mapped' = Unmapped({u}) /\ closing' = closing
        /\ crashes' = crashes
        /\ IF room.owner = u THEN transferOwnerToLiveMemberUnlocked(r, memory, at', u)
           ELSE room' = r /\ memory' = memory
    BY <1>2 DEF Leaves
  <2>2. /\ u \notin memory.game.players
        /\ room.status = "waiting" \/ memory.stage # "none"
        /\ room.status # "none"
    <3>1. at[u] = Here /\ (u \in room.watchers \/ room.status = "waiting")
      BY DEF Leaves
    <3> QED
      BY <3>1, Parts, Values DEF Fits, SessionFits
  <2>3. Fits(r, memory, Unmapped({u}), Ended(u), closing) /\ r.status = room.status
    <3>1. Fits(r, memory, Unmapped({u}), Ended(u), closing)
      BY <2>2, Parts, RemovesFits
    <3>2. r.status = room.status
      BY Parts DEF Removed, Rooms
    <3> QED
      BY <3>1, <3>2
  <2> HIDE DEF r
  <2>4. r \in Rooms
    BY <2>3 DEF Fits, RoomInShape
  <2>5. SameRoom(r, room') /\ Upkeep(memory, memory')
    BY <2>1, <2>2, <2>3, <2>4, Parts, TransferOnlyOwner, SameRoomItself, UpkeepItself
  <2>6. Fits(room', memory', Unmapped({u}), Ended(u), closing)
    BY <2>3, <2>5, FitsAnyOwner
  <2> QED
    BY <2>1, <2>6, Parts DEF Fit
<1> QED
  BY <1>1, <1>2

LEMMA SuspendsKeeps ==
    ASSUME Fit, NEW u \in User, Suspends(u)
    PROVE  Fit'
<1>1. CASE isFinalUndepartedHuman(u)
  BY <1>1, DissolvesFit DEF Suspends
<1>2. CASE ~isFinalUndepartedHuman(u)
  <2> DEFINE r == [Disconnected(room, u) EXCEPT !.departed = @ \cup {u}]
             m == ArmIfDeserted(r, memory, Ended(u))
  <2>1. /\ at' = Ended(u) /\ UNCHANGED <<mapped, closing, crashes>>
        /\ \/ room' = r /\ memory' = m
           \/ room' = r /\ memory' = scheduleOwnerTransfer(m, u)
           \/ transferOwnerToLiveMemberUnlocked(r, m, at', u)
    BY <1>2 DEF Suspends
  <2>2. u \in memory.game.players /\ memory.stage # "none" /\ at[u] = Here
    BY DEF Suspends, InSession
  <2>3. u \in room.seats /\ room.status = "game"
    BY <2>2, Parts DEF Fits, SessionFits
  <2>4. /\ r \in Rooms /\ r.status = room.status /\ r.saved = room.saved
        /\ r.seats = room.seats /\ r.watchers = room.watchers
        /\ r.ready = room.ready \ {u} /\ r.connected = room.connected \ {u}
        /\ r.departed = room.departed \cup {u}
    BY Parts DEF Disconnected, Rooms
  <2>5. Upkeep(memory, m)
    BY Parts, TimersOnly
  <2> HIDE DEF r, m
  <2>6. Fits(r, memory, mapped, Ended(u), closing)
    <3>1. Roster(r) = Roster(room)
      BY <2>4 DEF Roster
    <3>2. RoomInShape(r)
      BY <2>3, <2>4, <3>1, Parts DEF Fits, RoomInShape
    <3>3. /\ Ended(u) \in Places /\ Ended(u)[u] # Here
          /\ \A v \in User \ {u} : Ended(u)[v] = at[v]
      BY Parts, PlacesAre
    <3>4. SessionFits(r, memory, Ended(u))
      BY <2>2, <2>4, <3>3, Parts DEF Fits, SessionFits
    <3>5. MembersMapped(r, memory, mapped, Ended(u))
      BY <2>3, <2>4, <3>1, Parts DEF Fits, MembersMapped
    <3>6. PresenceFits(r, memory, Ended(u), closing)
      BY <2>4, <3>1, <3>3, Parts DEF Fits, PresenceFits
    <3> QED
      BY <3>2, <3>4, <3>5, <3>6 DEF Fits
  <2>7. SameRoom(r, room') /\ Upkeep(memory, memory')
    <3>1. m \in Memories
      BY <2>5 DEF Upkeep
    <3>2. CASE room' = r /\ memory' = m
      BY <2>4, <2>5, <3>2, SameRoomItself
    <3>3. CASE room' = r /\ memory' = scheduleOwnerTransfer(m, u)
      BY <2>4, <2>5, <3>1, <3>3, SameRoomItself, TimersOnly, UpkeepTwice
    <3>4. CASE transferOwnerToLiveMemberUnlocked(r, m, at', u)
      BY <2>3, <2>4, <2>5, <3>1, <3>4, TransferOnlyOwner, UpkeepTwice
    <3> QED
      BY <2>1, <3>2, <3>3, <3>4
  <2>8. Fits(room', memory', mapped, Ended(u), closing)
    BY <2>6, <2>7, FitsAnyOwner
  <2> QED
    BY <2>1, <2>8, Parts DEF Fit
<1> QED
  BY <1>1, <1>2

LEMMA SeatKeeps ==
    ASSUME Fit, NEW u \in User, TakesSeat(u) \/ LeavesSeat(u) \/ TogglesReady(u)
    PROVE  Fit'
<1>1. /\ room.status = "waiting" /\ at[u] = Here
      /\ UNCHANGED <<mapped, memory, at, closing, crashes>>
  BY DEF TakesSeat, LeavesSeat, TogglesReady
<1>2. /\ u \in Roster(room) /\ mapped[u] = Here /\ u \notin room.departed
  BY <1>1, Parts DEF TakesSeat, LeavesSeat, TogglesReady
<1>3. /\ room' \in Rooms /\ room'.status = room.status /\ room'.saved = room.saved
      /\ room'.departed = room.departed
      /\ room'.connected \in {room.connected, room.connected \cup {u}}
  <2>1. CASE TakesSeat(u)
    BY <2>1, Parts DEF TakesSeat, Rooms
  <2>2. CASE LeavesSeat(u)
    BY <2>2, Parts DEF LeavesSeat, Rooms
  <2>3. CASE TogglesReady(u)
    <3>1. PICK y \in SUBSET User : room' = [room EXCEPT !.ready = y]
      BY <2>3, Parts DEF TogglesReady, Rooms
    <3> QED
      BY <3>1, Parts DEF Rooms
  <2> QED
    BY <2>1, <2>2, <2>3
<1>4. /\ Roster(room') = Roster(room)
      /\ room'.seats \cap room'.watchers = {} /\ room'.ready \subseteq room'.seats
      /\ \A v \in User \ {u} : /\ v \in room'.seats <=> v \in room.seats
                               /\ v \in room'.ready <=> v \in room.ready
  <2>1. CASE TakesSeat(u)
    <3>1. /\ room'.seats = room.seats \cup {u} /\ room'.watchers = room.watchers \ {u}
          /\ room'.ready = room.ready /\ u \in room.watchers
      BY <2>1, Parts DEF TakesSeat, Rooms
    <3> QED
      BY <3>1, Parts DEF Roster, Fits, RoomInShape
  <2>2. CASE LeavesSeat(u)
    <3>1. /\ room'.seats = room.seats \ {u} /\ room'.watchers = room.watchers \cup {u}
          /\ room'.ready = room.ready /\ u \in room.seats \ room.ready
      BY <2>2, Parts DEF LeavesSeat, Rooms
    <3> QED
      BY <3>1, Parts DEF Roster, Fits, RoomInShape
  <2>3. CASE TogglesReady(u)
    <3>1. /\ room'.seats = room.seats /\ room'.watchers = room.watchers
          /\ room'.ready \in {room.ready \ {u}, room.ready \cup {u}} /\ u \in room.seats
      BY <2>3, Parts DEF TogglesReady, Rooms
    <3> QED
      BY <3>1, Parts DEF Roster, Fits, RoomInShape
  <2> QED
    BY <2>1, <2>2, <2>3
<1>5. RoomInShape(room')
  BY <1>1, <1>2, <1>3, <1>4, Parts DEF Fits, RoomInShape
<1>6. SessionFits(room', memory', at')
  BY <1>1, <1>3, Parts DEF Fits, SessionFits
<1>7. MembersMapped(room', memory', mapped', at')
  BY <1>1, <1>2, <1>3, <1>4, Parts DEF Fits, MembersMapped
<1>8. PresenceFits(room', memory', at', closing')
  BY <1>1, <1>2, <1>3, <1>4, Parts DEF Fits, PresenceFits
<1> QED
  BY <1>1, <1>5, <1>6, <1>7, <1>8, Parts DEF Fit, Fits

LEMMA OwnersActsKeep ==
    ASSUME Fit, NEW u \in User, NEW v \in User,
           Kicks(u, v) \/ TransfersOwner(u, v) \/ Dissolves(u)
    PROVE  Fit'
<1>1. CASE Kicks(u, v)
  <2>1. /\ at[u] = Here /\ v \in Roster(room) \ memory.game.players
        /\ room' = [Removed(room, v) EXCEPT !.departed = @ \ {v}]
        /\ mapped' = Unmapped({v}) /\ at' = Ended(v)
        /\ UNCHANGED <<memory, closing, crashes>>
    BY <1>1 DEF Kicks, Owns
  <2>2. room.status = "waiting" \/ memory.stage # "none"
    BY <2>1, Parts
  <2>3. Fits(room', memory, mapped', at', closing)
    BY <2>1, <2>2, Parts, RemovesFits
  <2> QED
    BY <2>1, <2>3, Parts DEF Fit
<1>2. CASE TransfersOwner(u, v)
  <2>1. /\ room' = [room EXCEPT !.owner = v] /\ memory' = [memory EXCEPT !.owner = None]
        /\ UNCHANGED <<mapped, at, closing, crashes>> /\ at[u] = Here
    BY <1>2 DEF TransfersOwner, Owns
  <2>2. SameRoom(room, room')
    BY <2>1, Parts DEF SameRoom, Rooms
  <2>3. Upkeep(memory, memory')
    BY <2>1, Parts, TimersOnly
  <2> QED
    BY <2>1, <2>2, <2>3, Parts, FitsAnyOwner DEF Fit
<1>3. CASE Dissolves(u)
  BY <1>3, DissolvesFit DEF Dissolves
<1> QED
  BY <1>1, <1>2, <1>3

(***************************************************************************)
(* The game                                                                *)
(***************************************************************************)
LEMMA StartsKeeps ==
    ASSUME Fit, NEW u \in User, Starts(u)
    PROVE  Fit'
<1> DEFINE g == [NoGame EXCEPT !.players = room.seats]
<1>1. g \in Game /\ g.players = room.seats
  BY Parts DEF NoGame, Game, Rooms
<1>2. /\ room.status = "waiting" /\ room.seats = room.ready
      /\ room' = [Saved(room, g) EXCEPT !.status = "game"]
      /\ memory' = [memory EXCEPT !.stage = "round", !.game = g]
      /\ UNCHANGED <<mapped, at, closing, crashes>>
  BY DEF Starts
<1> HIDE DEF g
<1>3. /\ room' \in Rooms /\ room'.status = "game" /\ room'.saved = g
      /\ room'.seats = room.seats /\ room'.watchers = room.watchers /\ room'.ready = room.ready
      /\ room'.departed = room.departed /\ room'.connected = room.connected
  BY <1>1, <1>2, Parts DEF Saved, Rooms
<1>4. /\ memory' \in Memories /\ memory'.stage = "round" /\ memory'.game = g
      /\ memory'.startup = memory.startup /\ memory'.member = memory.member
  BY <1>1, <1>2, Parts DEF Memories
<1>5. Roster(room') = Roster(room)
  BY <1>3 DEF Roster
<1>6. RoomInShape(room') /\ SessionFits(room', memory', at')
  BY <1>1, <1>2, <1>3, <1>4, <1>5, Parts DEF Fits, RoomInShape, SessionFits
<1>7. MembersMapped(room', memory', mapped', at')
  BY <1>2, <1>5, Parts DEF Fits, MembersMapped
<1>8. PresenceFits(room', memory', at', closing')
  BY <1>2, <1>3, <1>4, <1>5, Parts DEF Fits, PresenceFits
<1> QED
  BY <1>2, <1>6, <1>7, <1>8, Parts DEF Fit, Fits

LEMMA EndsKeeps ==
    ASSUME Fit, NEW stage \in {"roundEnd", "gameOver"}, Ends(stage)
    PROVE  Fit'
<1> DEFINE m == [memory EXCEPT !.stage = stage]
<1>1. /\ memory.stage # "none" /\ memory' = ScheduleIfAway(room, m)
      /\ UNCHANGED <<room, mapped, at, closing, crashes>>
  BY DEF Ends, InSession
<1>2. /\ m \in Memories /\ m.stage = stage /\ m.game = memory.game
      /\ m.startup = memory.startup /\ m.member = memory.member
  BY Parts DEF Memories
<1> HIDE DEF m
<1>3. SessionFits(room, m, at)
  BY <1>1, <1>2, Parts DEF Fits, SessionFits
<1>4. Fits(room, m, mapped, at, closing)
  BY <1>2, <1>3, Parts DEF Fits, MembersMapped, PresenceFits
<1>5. Upkeep(m, memory')
  <2>1. room.owner \in User \cup {None}
    BY Parts DEF Rooms
  <2> QED
    BY <1>1, <1>2, <2>1, TimersOnly, UpkeepItself DEF ScheduleIfAway
<1> QED
  BY <1>1, <1>4, <1>5, Parts, SameRoomItself, FitsAnyOwner DEF Fit

(* A player of a session that is over moves to the watchers.                *)
LEMMA MovesOutKeeps ==
    ASSUME Fit, NEW u \in User, NEW excluded \in SUBSET User, MovesOut(u, excluded)
    PROVE  Fit'
<1> DEFINE g == [players |-> memory.game.players \ {u},
                 excluded |-> memory.game.excluded \cup excluded]
           r == Moved(room, u)
<1>1. g \in Game /\ g.players = memory.game.players \ {u}
  BY Parts DEF Game, Memories
<1>2. /\ memory.stage = "roundEnd" /\ u \in memory.game.players
      /\ room' = Saved(r, g) /\ memory' = [memory EXCEPT !.game = g]
      /\ UNCHANGED <<mapped, at, closing, crashes>>
  BY DEF MovesOut
<1>3. /\ r \in Rooms /\ r.status = room.status
      /\ r.seats = room.seats \ {u} /\ r.watchers = room.watchers \cup {u}
      /\ r.ready = room.ready \ {u} /\ r.departed = room.departed
      /\ \A v : v \in r.connected <=> (v \in room.connected \ {u} \/ (v = u /\ at[u] = Here))
  BY Parts, MovedIs
<1> HIDE DEF g, r
<1>4. /\ room' \in Rooms /\ room'.status = room.status /\ room'.saved = g
      /\ room'.seats = r.seats /\ room'.watchers = r.watchers /\ room'.ready = r.ready
      /\ room'.departed = room.departed /\ room'.connected = r.connected
  BY <1>1, <1>2, <1>3 DEF Saved, Rooms
<1>5. /\ memory' \in Memories /\ memory'.stage = "roundEnd" /\ memory'.game = g
      /\ memory'.startup = memory.startup /\ memory'.member = memory.member
  BY <1>1, <1>2, Parts DEF Memories
<1>6. room.seats = memory.game.players /\ room.status = "game" /\ Roster(room') = Roster(room)
  BY <1>2, <1>3, <1>4, Parts DEF Fits, SessionFits, Roster
<1>7. RoomInShape(room') /\ SessionFits(room', memory', at')
  BY <1>1, <1>2, <1>3, <1>4, <1>5, <1>6, Parts DEF Fits, RoomInShape, SessionFits, Roster
<1>8. MembersMapped(room', memory', mapped', at')
  BY <1>2, <1>6, Parts DEF Fits, MembersMapped
<1>9. PresenceFits(room', memory', at', closing')
  BY <1>2, <1>3, <1>4, <1>5, <1>6, Parts DEF Fits, PresenceFits
<1> QED
  BY <1>2, <1>7, <1>8, <1>9, Parts DEF Fit, Fits

LEMMA NextRoundKeeps ==
    ASSUME Fit, StartsNextRound
    PROVE  Fit'
<1>1. PICK us \in SUBSET MayQueue :
        LET g == [players |-> memory.game.players \cup us, excluded |-> {}]
        IN  /\ room' = Saved(Joined(room, us), g)
            /\ memory' = [memory EXCEPT !.stage = "round", !.game = g]
  BY DEF StartsNextRound
<1> DEFINE g == [players |-> memory.game.players \cup us, excluded |-> {}]
           r == Joined(room, us)
<1>2. us \subseteq room.watchers /\ us \subseteq User /\ us \cap room.departed = {}
  BY Parts DEF MayQueue, Rooms
<1>3. g \in Game /\ g.players = memory.game.players \cup us
  BY <1>2, Parts DEF Game, Memories
<1>4. /\ memory.stage = "roundEnd" /\ room' = Saved(r, g)
      /\ memory' = [memory EXCEPT !.stage = "round", !.game = g]
      /\ UNCHANGED <<mapped, at, closing, crashes>>
  BY <1>1 DEF StartsNextRound
<1>5. /\ r \in Rooms /\ r.status = room.status
      /\ r.seats = room.seats \cup us /\ r.watchers = room.watchers \ us
      /\ r.ready = room.ready /\ r.departed = room.departed
      /\ r.connected = (room.connected \ us) \cup {u \in us : at[u] = Here}
  BY <1>2, Parts, JoinedIs
<1> HIDE DEF g, r
<1>6. /\ room' \in Rooms /\ room'.status = room.status /\ room'.saved = g
      /\ room'.seats = r.seats /\ room'.watchers = r.watchers /\ room'.ready = r.ready
      /\ room'.departed = room.departed /\ room'.connected = r.connected
  BY <1>3, <1>4, <1>5 DEF Saved, Rooms
<1>7. /\ memory' \in Memories /\ memory'.stage = "round" /\ memory'.game = g
      /\ memory'.startup = memory.startup /\ memory'.member = memory.member
  BY <1>3, <1>4, Parts DEF Memories
<1>8. room.seats = memory.game.players /\ room.status = "game" /\ Roster(room') = Roster(room)
  BY <1>2, <1>4, <1>5, <1>6, Parts DEF Fits, SessionFits, Roster
<1>9. RoomInShape(room') /\ SessionFits(room', memory', at')
  BY <1>2, <1>3, <1>4, <1>5, <1>6, <1>7, <1>8, Parts DEF Fits, RoomInShape, SessionFits, Roster
<1>10. MembersMapped(room', memory', mapped', at')
  BY <1>4, <1>8, Parts DEF Fits, MembersMapped
<1>11. PresenceFits(room', memory', at', closing')
  BY <1>2, <1>4, <1>5, <1>6, <1>7, <1>8, Parts DEF Fits, PresenceFits
<1> QED
  BY <1>4, <1>9, <1>10, <1>11, Parts DEF Fit, Fits

LEMMA BackToRoomKeeps ==
    ASSUME Fit, NEW u \in User, GoesBackToRoom(u)
    PROVE  Fit'
<1> DEFINE r == AllWatching
           q == [r EXCEPT !.status = "waiting"]
<1>1. /\ memory.stage = "gameOver" /\ room' = Saved(q, NoGame)
      /\ mapped' = [v \in User |-> IF v \in room'.watchers THEN Here ELSE mapped[v]]
      /\ memory' = [memory EXCEPT !.stage = "none", !.game = NoGame]
      /\ UNCHANGED <<at, closing, crashes>>
  BY DEF GoesBackToRoom
<1>2. /\ r \in Rooms /\ r.seats = {} /\ r.ready = {} /\ r.departed = room.departed
      /\ r.watchers = Roster(room) \cup memory.game.players
      /\ r.connected = {v \in User : at[v] = Here}
  BY Parts, AllWatchingIs
<1> HIDE DEF r
<1>3. /\ room' \in Rooms /\ room'.status = "waiting" /\ room'.saved = NoGame
      /\ room'.seats = {} /\ room'.ready = {} /\ room'.departed = room.departed
      /\ room'.watchers = r.watchers /\ room'.connected = r.connected
  BY <1>1, <1>2, Values DEF Saved, Rooms
<1>4. /\ memory' \in Memories /\ memory'.stage = "none" /\ memory'.game = NoGame
      /\ memory'.startup = memory.startup /\ memory'.member = memory.member
  BY <1>1, Parts, Values DEF Memories
<1>5. Roster(room') = Roster(room) /\ room'.watchers = Roster(room)
  BY <1>1, <1>2, <1>3, Parts DEF Fits, SessionFits, Roster
<1>6. mapped' \in Maps /\ \A v \in Roster(room) : mapped'[v] = Here
  BY <1>1, <1>5, Parts DEF Maps
<1>7. RoomInShape(room') /\ SessionFits(room', memory', at')
  BY <1>1, <1>3, <1>4, <1>5, Parts DEF Fits, RoomInShape, SessionFits
<1>8. MembersMapped(room', memory', mapped', at')
  BY <1>5, <1>6 DEF MembersMapped
<1>9. PresenceFits(room', memory', at', closing')
  BY <1>1, <1>2, <1>3, Parts DEF Fits, PresenceFits
<1> QED
  BY <1>1, <1>7, <1>8, <1>9, Parts DEF Fit, Fits

LEMMA GameKeeps ==
    ASSUME Fit, NEW u \in User, NEW v \in User,
           \/ Starts(u) \/ StepsDown(u) \/ GoesBackToRoom(u) \/ Demotes(u, v)
    PROVE  Fit'
<1>1. CASE StepsDown(u)
  BY <1>1, MovesOutKeeps DEF StepsDown
<1>2. CASE Demotes(u, v)
  BY <1>2, MovesOutKeeps DEF Demotes
<1> QED
  BY <1>1, <1>2, StartsKeeps, BackToRoomKeeps

(***************************************************************************)
(* Connections and crashes                                                 *)
(***************************************************************************)
LEMMA ConnectionKeeps ==
    ASSUME Fit, NEW u \in User, Connects(u) \/ Drops(u) \/ MovesElsewhere(u)
    PROVE  Fit'
<1>1. CASE Connects(u) \/ Drops(u)
  <2>1. /\ UNCHANGED <<room, mapped, memory, crashes>>
        /\ closing' = IF at[u] = Here THEN closing \cup {u} ELSE closing
    BY <1>1 DEF Connects, Drops
  <2>2. /\ at' \in Places /\ at'[u] # Here /\ \A v \in User \ {u} : at'[v] = at[v]
    BY <1>1, Parts, Values DEF Connects, Drops, Places
  <2>3. SessionFits(room', memory', at') /\ MembersMapped(room', memory', mapped', at')
    BY <2>1, <2>2, Parts DEF Fits, SessionFits, MembersMapped
  <2>4. PresenceFits(room', memory', at', closing')
    BY <2>1, <2>2, Parts DEF Fits, PresenceFits
  <2> QED
    BY <2>1, <2>3, <2>4, Parts DEF Fit, Fits
<1>2. CASE MovesElsewhere(u)
  <2>1. /\ UNCHANGED <<room, memory, at, closing, crashes>>
        /\ mapped[u] # Here
    BY <1>2, Values DEF MovesElsewhere
  <2>2. mapped' \in Maps /\ \A v \in User \ {u} : mapped'[v] = mapped[v]
    BY <1>2, Parts DEF MovesElsewhere, Maps
  <2>3. MembersMapped(room', memory', mapped', at')
    BY <2>1, <2>2, Parts DEF Fits, MembersMapped
  <2> QED
    BY <2>1, <2>3, Parts DEF Fit, Fits
<1> QED
  BY <1>1, <1>2

LEMMA CrashKeeps ==
    ASSUME Fit, Crash \/ \E u \in User : CrashInside(u)
    PROVE  Fit'
<1>1. CASE Crash
  BY <1>1, Parts, RestartFits DEF Crash, Fits, MembersMapped
<1>2. ASSUME NEW u \in User, MayCreate(u), Restart(Seated(u), mapped)
      PROVE  Fit'
  <2>1. /\ Seated(u) \in Rooms /\ Seated(u).status = "waiting" /\ Seated(u).saved = NoGame
        /\ Seated(u).seats = {u} /\ Seated(u).watchers = {} /\ Seated(u).ready = {}
        /\ Seated(u).departed = {}
    BY SeatedIs
  <2>2. RoomInShape(Seated(u)) /\ Roster(Seated(u)) = {u}
    BY <2>1 DEF RoomInShape, Roster
  <2> QED
    BY <1>2, <2>1, <2>2, Parts, RestartFits
<1>3. ASSUME NEW u \in User, u \in Roster(room) \ memory.game.players, at[u] = Here,
             Restart(Removed(room, u), Unmapped({u}))
      PROVE  Fit'
  <2>1. Fits(Removed(room, u), memory, Unmapped({u}), at, closing)
    BY <1>3, Parts, RemovesFits
  <2> QED
    BY <1>3, <2>1, RestartFits DEF Fits, MembersMapped
<1>4. ASSUME NEW u \in User, memory.stage = "roundEnd", u \in memory.game.players,
             Restart(Moved(room, u), mapped)
      PROVE  Fit'
  <2> DEFINE r == Moved(room, u)
  <2>1. /\ r \in Rooms /\ r.status = room.status /\ r.saved = room.saved
        /\ r.seats = room.seats \ {u} /\ r.watchers = room.watchers \cup {u}
        /\ r.ready = room.ready \ {u} /\ r.departed = room.departed
    BY Parts, MovedIs
  <2>2. Restart(r, mapped) /\ room.status = "game" /\ u \in room.seats
    BY <1>4, Parts DEF Fits, SessionFits
  <2> HIDE DEF r
  <2>3. RoomInShape(r) /\ Roster(r) = Roster(room)
    BY <2>1, <2>2, Parts DEF Fits, RoomInShape, Roster
  <2> QED
    BY <2>2, <2>3, Parts, RestartFits DEF Fits, MembersMapped
<1>5. ASSUME NEW u \in User, memory.stage = "roundEnd", u \in MayQueue,
             Restart(Joined(room, {u}), mapped)
      PROVE  Fit'
  <2> DEFINE r == Joined(room, {u})
  <2>1. /\ r \in Rooms /\ r.status = room.status /\ r.saved = room.saved
        /\ r.seats = room.seats \cup {u} /\ r.watchers = room.watchers \ {u}
        /\ r.ready = room.ready /\ r.departed = room.departed
    BY Parts, JoinedIs
  <2>2. Restart(r, mapped) /\ room.status = "game" /\ u \in room.watchers
    BY <1>5, Parts DEF Fits, SessionFits, MayQueue
  <2> HIDE DEF r
  <2>3. RoomInShape(r) /\ Roster(r) = Roster(room)
    BY <2>1, <2>2, Parts DEF Fits, RoomInShape, Roster
  <2> QED
    BY <2>2, <2>3, Parts, RestartFits DEF Fits, MembersMapped
<1>6. ASSUME memory.stage = "gameOver", Restart(AllWatching, mapped)
      PROVE  Fit'
  <2> DEFINE r == AllWatching
  <2>1. /\ r \in Rooms /\ r.status = room.status /\ r.saved = room.saved
        /\ r.seats = {} /\ r.ready = {} /\ r.departed = room.departed
        /\ r.watchers = Roster(room) \cup memory.game.players
    BY Parts, AllWatchingIs
  <2>2. Restart(r, mapped) /\ room.status = "game" /\ room.seats = memory.game.players
    BY <1>6, Parts DEF Fits, SessionFits
  <2> HIDE DEF r
  <2>3. RoomInShape(r) /\ Roster(r) = Roster(room)
    BY <2>1, <2>2, Parts DEF Fits, RoomInShape, Roster
  <2> QED
    BY <2>2, <2>3, Parts, RestartFits DEF Fits, MembersMapped
<1> QED
  BY <1>1, <1>2, <1>3, <1>4, <1>5, <1>6 DEF CrashInside

(***************************************************************************)
(* Timers and disconnect handlers                                          *)
(***************************************************************************)
LEMMA LiveAreHere ==
    ASSUME Fit
    PROVE  Live \subseteq {u \in User : at[u] = Here}
BY Parts DEF Live, getLiveHumanRoomMemberIds, getHumanRoomMemberIds, Memories, Game

(* A member's timer is set, replaced or gone: an eviction is only given up  *)
(* where the member is mapped to the room.                                  *)
LEMMA MemberTimerFits ==
    ASSUME Fit, NEW u \in User, NEW t \in {"none", "evict", "govern"},
           NEW m, Upkeep([memory EXCEPT !.member[u] = t], m),
           \/ t = "evict" \/ memory.member[u] # "evict"
           \/ u \notin Roster(room) \/ mapped[u] = Here
    PROVE  Fits(room, m, mapped, at, closing)
<1>1. /\ m \in Memories /\ m.stage = memory.stage /\ m.game = memory.game
      /\ m.startup = memory.startup /\ m.member[u] = t
      /\ \A v \in User \ {u} : m.member[v] = memory.member[v]
  BY Parts DEF Upkeep, Memories
<1>2. SessionFits(room, m, at)
  BY <1>1, Parts DEF Fits, SessionFits
<1>3. MembersMapped(room, m, mapped, at)
  BY <1>1, Parts DEF Fits, MembersMapped
<1>4. PresenceFits(room, m, at, closing)
  BY <1>1, Parts DEF Fits, PresenceFits
<1> QED
  BY <1>2, <1>3, <1>4, Parts DEF Fits

LEMMA MemberTimerTyped ==
    ASSUME NEW m \in Memories, NEW n, Upkeep(m, n), NEW u \in User,
           NEW t \in {"none", "evict", "govern"}
    PROVE  /\ [m EXCEPT !.member[u] = t] \in Memories
           /\ Upkeep([m EXCEPT !.member[u] = t], [n EXCEPT !.member[u] = t])
BY DEF Upkeep, Memories

LEMMA DisconnectKeeps ==
    ASSUME Fit, NEW u \in User, DisconnectHandled(u)
    PROVE  Fit'
<1>1. closing' = closing \ {u} /\ UNCHANGED <<mapped, at, crashes>>
  BY DEF DisconnectHandled
<1>2. CASE at[u] = Here
  <2>1. UNCHANGED <<room, memory>>
    BY <1>2 DEF DisconnectHandled
  <2>2. PresenceFits(room', memory', at', closing')
    BY <1>1, <1>2, <2>1, Parts DEF Fits, PresenceFits
  <2> QED
    BY <1>1, <2>1, <2>2, Parts DEF Fit, Fits
<1>3. CASE at[u] # Here
  <2>1. /\ room' = Disconnected(room, u)
        /\ \/ memory' = SpectatorGone(u)
           \/ memory.stage # "none" /\ memory' = PlayerGone(u)
           \/ memory' = WaitingMemberGone(u)
    BY <1>3 DEF DisconnectHandled, InSession
  <2>2. Upkeep(memory, OwnerGone(memory, u)) /\ Upkeep(memory, memory)
    BY Parts, TimersOnly, UpkeepItself
  <2>3. Fits(room, memory', mapped, at, closing)
    <3>1. CASE memory' = SpectatorGone(u)
      <4>1. PICK m \in {memory, OwnerGone(memory, u)} : memory' = ArmIfDeserted(room, m, at)
        BY <3>1 DEF SpectatorGone
      <4>2. Upkeep(memory, m) /\ m \in Memories
        BY <2>2, <4>1 DEF Upkeep
      <4>3. Upkeep(memory, memory')
        BY <4>1, <4>2, TimersOnly, UpkeepTwice
      <4> QED
        BY <4>3, Parts, SameRoomItself, FitsAnyOwner
    <3>2. CASE memory.stage # "none" /\ memory' = PlayerGone(u)
      <4>1. PICK m \in {memory, OwnerGone(memory, u)} :
                memory' = ArmIfDeserted(room, [m EXCEPT !.member[u] = "govern"], at)
        BY <3>2 DEF PlayerGone
      <4>2. Upkeep(memory, m) /\ m \in Memories
        BY <2>2, <4>1 DEF Upkeep
      <4> DEFINE k == [memory EXCEPT !.member[u] = "govern"]
                 n == [m EXCEPT !.member[u] = "govern"]
      <4>3. Upkeep(k, n) /\ n \in Memories
        <5>1. Upkeep(k, n)
          BY <4>2, Parts, MemberTimerTyped
        <5> QED
          BY <5>1 DEF Upkeep
      <4>4. memory' = ArmIfDeserted(room, n, at)
        BY <4>1
      <4> HIDE DEF n
      <4>5. Upkeep(n, memory')
        BY <4>3, <4>4, TimersOnly
      <4>6. Upkeep(k, memory')
        BY <4>3, <4>5, UpkeepTwice
      <4>7. u \notin Roster(room) \/ mapped[u] = Here
        BY <3>2, Parts DEF Fits, SessionFits, MembersMapped
      <4> QED
        BY <4>6, <4>7, MemberTimerFits
    <3>3. CASE memory' = WaitingMemberGone(u)
      <4>1. CASE room.status = "waiting"
        <5>1. memory' = [OwnerGone(memory, u) EXCEPT !.member[u] = "evict"]
          BY <3>3, <4>1 DEF WaitingMemberGone
        <5>2. Upkeep([memory EXCEPT !.member[u] = "evict"], memory')
          BY <2>2, <5>1, Parts, MemberTimerTyped
        <5> QED
          BY <5>2, MemberTimerFits
      <4>2. CASE room.status # "waiting"
        BY <3>3, <4>2, Parts DEF WaitingMemberGone
      <4> QED
        BY <4>1, <4>2
    <3> QED
      BY <2>1, <3>1, <3>2, <3>3
  <2>4. /\ room' \in Rooms /\ room'.status = room.status /\ room'.saved = room.saved
        /\ room'.seats = room.seats /\ room'.watchers = room.watchers
        /\ room'.ready = room.ready \ {u} /\ room'.connected = room.connected \ {u}
        /\ room'.departed = room.departed
    BY <2>1, Parts, DisconnectedIs
  <2>5. room.status = "none" => room' = NoRoom
    <3>1. Disconnected(NoRoom, u) = NoRoom
      <4>1. {} \ {u} = {}
        OBVIOUS
      <4>2. Disconnected(NoRoom, u) = [NoRoom EXCEPT !.connected = {}, !.ready = {}]
        BY <4>1 DEF Disconnected, NoRoom
      <4> QED
        BY <4>2 DEF NoRoom
    <3> QED
      BY <2>1, <3>1, Parts DEF Fits, RoomInShape
  <2>6. Roster(room') = Roster(room)
    BY <2>4 DEF Roster
  <2>7. RoomInShape(room')
    BY <2>4, <2>5, <2>6, Parts DEF Fits, RoomInShape
  <2>8. SessionFits(room', memory', at')
    BY <1>1, <2>3, <2>4 DEF Fits, SessionFits
  <2>9. MembersMapped(room', memory', mapped', at')
    BY <1>1, <2>3, <2>4, <2>6 DEF Fits, MembersMapped
  <2>10. PresenceFits(room', memory', at', closing')
    BY <1>1, <2>3, <2>4, <2>6 DEF Fits, PresenceFits
  <2> QED
    BY <1>1, <2>7, <2>8, <2>9, <2>10, Parts DEF Fit, Fits
<1> QED
  BY <1>2, <1>3

LEMMA EvictsKeeps ==
    ASSUME Fit, NEW u \in User, Evicts(u)
    PROVE  Fit'
<1> DEFINE m == [memory EXCEPT !.member[u] = "none"]
           r == Removed(room, u)
<1>1. m \in Memories /\ Upkeep(m, m)
  BY Parts, UpkeepItself, MemberTimerTyped
<1>2. /\ m.stage = memory.stage /\ m.game = memory.game /\ m.startup = memory.startup
      /\ \A v \in User \ {u} : m.member[v] = memory.member[v]
  BY Parts DEF Memories
<1>3. CASE room.status # "waiting" \/ u \notin room.seats \/ u \in Live
  <2>1. memory' = m /\ UNCHANGED <<room, mapped, at, closing, crashes>>
    BY <1>3 DEF Evicts
  <2>2. u \notin Roster(room) \/ mapped[u] = Here
    BY <1>3, Parts, LiveAreHere DEF Fits, MembersMapped
  <2>3. Fits(room, m, mapped, at, closing)
    BY <1>1, <2>2, MemberTimerFits
  <2> HIDE DEF m
  <2> QED
    BY <2>1, <2>3, Parts DEF Fit
<1>4. CASE ~(room.status # "waiting" \/ u \notin room.seats \/ u \in Live) /\ Roster(room) = {u}
  BY <1>4, DissolvesFit DEF Evicts
<1>5. CASE ~(room.status # "waiting" \/ u \notin room.seats \/ u \in Live) /\ Roster(room) # {u}
  <2>1. /\ room' = r /\ mapped' = Unmapped({u})
        /\ memory' = ArmIfDeserted(r, OwnerGone(m, u), at)
        /\ UNCHANGED <<at, closing, crashes>>
    BY <1>5 DEF Evicts
  <2>2. u \notin room.departed /\ u \notin memory.game.players
    BY <1>5, Parts, Values DEF Fits, RoomInShape, SessionFits
  <2> HIDE DEF m
  <2>3. Fits(r, m, Unmapped({u}), at, closing)
    BY <1>1, <1>2, <1>5, <2>2, Parts, RemovesFits
  <2> HIDE DEF r
  <2>4. Upkeep(m, memory')
    <3>1. Upkeep(m, OwnerGone(m, u)) /\ OwnerGone(m, u) \in Memories
      BY <1>1, TimersOnly DEF Upkeep
    <3> QED
      BY <2>1, <3>1, TimersOnly, UpkeepTwice
  <2>5. SameRoom(r, r)
    BY <2>3, SameRoomItself DEF Fits, RoomInShape
  <2>6. Fits(room', memory', mapped', at', closing')
    BY <2>1, <2>3, <2>4, <2>5, FitsAnyOwner
  <2> QED
    BY <2>1, <2>6, Parts DEF Fit
<1> QED
  BY <1>3, <1>4, <1>5

LEMMA GovernsKeeps ==
    ASSUME Fit, NEW u \in User, Governs(u)
    PROVE  Fit'
<1> DEFINE m == [memory EXCEPT !.member[u] = "none"]
<1>1. m \in Memories /\ Upkeep(m, m)
  BY Parts, UpkeepItself, MemberTimerTyped
<1>2. /\ memory.member[u] = "govern" /\ memory' \in {m, ArmIfDeserted(room, m, at)}
      /\ UNCHANGED <<room, mapped, at, closing, crashes>>
  BY DEF Governs
<1>3. Upkeep(m, memory')
  BY <1>1, <1>2, TimersOnly
<1>4. Fits(room, memory', mapped, at, closing)
  BY <1>2, <1>3, MemberTimerFits
<1> QED
  BY <1>2, <1>4, Parts DEF Fit

LEMMA RoomTimersKeep ==
    ASSUME Fit, OwnerTimerFires \/ DissolutionTimerFires \/ IdleSweepDissolves
    PROVE  Fit'
<1>1. CASE OwnerTimerFires
  <2> DEFINE m == [memory EXCEPT !.owner = None]
  <2>1. Upkeep(memory, m) /\ m \in Memories
    BY Parts, TimersOnly DEF Upkeep
  <2>2. /\ UNCHANGED <<mapped, at, closing, crashes>>
        /\ \/ memory' = m /\ UNCHANGED room
           \/ /\ room.owner # None
              /\ transferOwnerToLiveMemberUnlocked(room, m, at, memory.owner)
    BY <1>1 DEF OwnerTimerFires
  <2> HIDE DEF m
  <2>3. SameRoom(room, room') /\ Upkeep(memory, memory')
    <3>1. CASE memory' = m /\ UNCHANGED room
      BY <2>1, <3>1, Parts, SameRoomItself
    <3>2. CASE room.owner # None
               /\ transferOwnerToLiveMemberUnlocked(room, m, at, memory.owner)
      <4>1. room.status # "none"
        BY <3>2, Parts DEF Fits, RoomInShape, NoRoom
      <4> QED
        BY <2>1, <3>2, <4>1, Parts, TransferOnlyOwner, UpkeepTwice
    <3> QED
      BY <2>2, <3>1, <3>2
  <2> QED
    BY <2>2, <2>3, Parts, FitsAnyOwner DEF Fit
<1>2. CASE DissolutionTimerFires
  <2>1. CASE Live = {}
    BY <1>2, <2>1, DissolvesFit DEF DissolutionTimerFires
  <2>2. CASE Live # {}
    <3>1. /\ memory' = [memory EXCEPT !.dissolution = FALSE]
          /\ UNCHANGED <<room, mapped, at, closing, crashes>>
      BY <1>2, <2>2 DEF DissolutionTimerFires
    <3>2. Upkeep(memory, memory')
      BY <3>1, Parts, TimersOnly
    <3> QED
      BY <3>1, <3>2, Parts, SameRoomItself, FitsAnyOwner DEF Fit
  <2> QED
    BY <2>1, <2>2
<1>3. CASE IdleSweepDissolves
  BY <1>3, DissolvesFit DEF IdleSweepDissolves
<1> QED
  BY <1>1, <1>2, <1>3

LEMMA StartupKeeps ==
    ASSUME Fit, StartupReconciles
    PROVE  Fit'
<1> DEFINE k == IF room.status = "game" THEN Reconciled(room) ELSE room
           r == [k EXCEPT !.connected = @ \cap Live, !.ready = @ \cap Live]
           member == [u \in User |-> IF u \in Absent(r) THEN "evict" ELSE memory.member[u]]
           owner == IF room.owner \in Absent(r) THEN room.owner ELSE memory.owner
           m == [memory EXCEPT !.startup = FALSE, !.member = member, !.owner = owner]
<1>1. /\ crashes' = crashes
      /\ IF getHumanRoomMemberIds(r, m) \subseteq r.departed
         THEN dissolveRoomUnlocked
         ELSE /\ room' = r
              /\ mapped' = IF room.status = "game" THEN MapsMissing(r) ELSE mapped
              /\ memory' = ArmIfDeserted(r, m, at)
              /\ UNCHANGED <<at, closing>>
  BY Parts DEF StartupReconciles, Memories
<1>2. /\ k \in Rooms /\ k.status = room.status /\ k.saved = room.saved
      /\ k.departed = room.departed /\ k.connected = room.connected
      /\ k.ready \subseteq room.ready
      /\ room.status # "game" => k = room
      /\ room.status = "game" => /\ k.seats = room.saved.players
                                 /\ k.watchers = Roster(room) \ room.saved.players
                                 /\ k.ready = {}
  BY Parts, ReconciledIs
<1> HIDE DEF k
<1>3. /\ r \in Rooms /\ r.status = room.status /\ r.saved = room.saved
      /\ r.departed = room.departed /\ r.connected \subseteq Live
      /\ r.ready \subseteq k.ready /\ r.seats = k.seats /\ r.watchers = k.watchers
  BY <1>2 DEF Rooms
<1> HIDE DEF r
<1>4. /\ m \in Memories /\ m.stage = memory.stage /\ m.game = memory.game /\ m.member = member
      /\ m.startup = FALSE
  <2>1. member \in [User -> {"none", "evict", "govern"}] /\ owner \in User \cup {None}
    BY Parts DEF Memories, Rooms
  <2> HIDE DEF member, owner
  <2> QED
    BY <2>1, Parts DEF Memories
<1>5. \A u \in User : u \in Absent(r) => m.member[u] = "evict"
  BY <1>4
<1> HIDE DEF m, member, owner
<1>6. CASE getHumanRoomMemberIds(r, m) \subseteq r.departed
  BY <1>1, <1>6, DissolvesFit
<1>7. CASE ~(getHumanRoomMemberIds(r, m) \subseteq r.departed)
  <2>1. /\ room' = r /\ memory' = ArmIfDeserted(r, m, at) /\ UNCHANGED <<at, closing, crashes>>
        /\ mapped' = IF room.status = "game" THEN MapsMissing(r) ELSE mapped
    BY <1>1, <1>7
  <2>2. Roster(r) = Roster(room)
    <3>1. CASE room.status = "game"
      BY <1>2, <1>3, <3>1, Parts DEF Roster, Fits, RoomInShape
    <3>2. CASE room.status # "game"
      BY <1>2, <1>3, <3>2 DEF Roster
    <3> QED
      BY <3>1, <3>2
  <2>3. room.status # "none"
    <3>1. CASE room.status = "none"
      <4>1. memory.game.players = {} /\ Roster(room) = {}
        BY <3>1, Parts, Values DEF Fits, RoomInShape, SessionFits
      <4> QED
        BY <1>4, <1>7, <2>2, <4>1 DEF getHumanRoomMemberIds
    <3> QED
      BY <3>1
  <2>4. RoomInShape(r)
    BY <1>2, <1>3, <2>2, <2>3, Parts DEF Fits, RoomInShape
  <2>5. SessionFits(r, m, at)
    BY <1>2, <1>3, <1>4, Parts DEF Fits, SessionFits
  <2>6. mapped' \in Maps /\ \A u \in User : mapped[u] = Here => mapped'[u] = Here
    BY <2>1, Parts, MapsMissingIs
  <2>7. MembersMapped(r, m, mapped', at)
    <3> SUFFICES ASSUME NEW u \in Roster(r), mapped'[u] # Here
                 PROVE  /\ r.status = "waiting" /\ u \in r.seats \ r.ready /\ at[u] # Here
                        /\ m.member[u] = "evict"
      BY <2>6 DEF MembersMapped
    <3>1. u \in User /\ room.status = "waiting" /\ u \in room.seats \ room.ready /\ at[u] # Here
      BY <2>2, <2>6, Parts DEF Fits, MembersMapped
    <3>2. u \in r.seats \ r.ready /\ u \notin r.connected
      BY <1>2, <1>3, <3>1, LiveAreHere
    <3> QED
      BY <1>3, <1>5, <3>1, <3>2 DEF Absent
  <2>8. PresenceFits(r, m, at, closing)
    BY <1>3, <2>2, Parts, LiveAreHere DEF Fits, PresenceFits
  <2>9. Fits(r, m, mapped', at, closing)
    BY <2>4, <2>5, <2>7, <2>8 DEF Fits
  <2>10. Upkeep(m, memory') /\ SameRoom(r, r)
    BY <1>3, <1>4, <2>1, TimersOnly, SameRoomItself
  <2>11. Fits(room', memory', mapped', at', closing')
    BY <2>1, <2>9, <2>10, FitsAnyOwner
  <2> QED
    BY <2>1, <2>11, Parts DEF Fit
<1> QED
  BY <1>6, <1>7

(***************************************************************************)
(* The theorems                                                            *)
(***************************************************************************)
LEMMA InitFits == Init => Fit
<1> SUFFICES ASSUME Init PROVE Fit
  OBVIOUS
<1>1. /\ room = NoRoom /\ memory = Empty /\ closing = {} /\ crashes = 0
      /\ mapped = [u \in User |-> None] /\ at = [u \in User |-> "lobby"]
  BY DEF Init
<1>2. at \in Places /\ mapped \in Maps /\ \A u \in User : at[u] # Here
  BY <1>1, Values DEF Places, Maps
<1>3. RoomInShape(room) /\ SessionFits(room, memory, at)
  BY <1>1, <1>2, Values DEF RoomInShape, SessionFits
<1>4. MembersMapped(room, memory, mapped, at) /\ PresenceFits(room, memory, at, closing)
  BY <1>1, <1>2, Values DEF MembersMapped, PresenceFits
<1> QED
  BY <1>1, <1>3, <1>4, ChoiceAssumption DEF Fit, Fits

LEMMA StepFits == Fit /\ [Next]_vars => Fit'
<1> SUFFICES ASSUME Fit, [Next]_vars PROVE Fit'
  OBVIOUS
<1>1. CASE UNCHANGED vars
  BY <1>1 DEF vars, Fit
<1>2. CASE Play
  BY <1>2, EndsKeeps, NextRoundKeeps DEF Play
<1>3. CASE Timers
  BY <1>3, RoomTimersKeep, StartupKeeps, DisconnectKeeps, EvictsKeeps, GovernsKeeps DEF Timers
<1>4. CASE Crash \/ \E u \in User : CrashInside(u)
  BY <1>4, CrashKeeps
<1>5. ASSUME NEW u \in User, Handlers(u)
      PROVE  Fit'
  BY <1>5, EntryKeeps, LeavesKeeps, SuspendsKeeps, SeatKeeps, OwnersActsKeep, GameKeeps
  DEF Handlers
<1>6. ASSUME NEW u \in User, Connects(u) \/ Drops(u) \/ MovesElsewhere(u)
      PROVE  Fit'
  BY <1>6, ConnectionKeeps
<1> QED
  BY <1>1, <1>2, <1>3, <1>4, <1>5, <1>6 DEF Next, Connections

(* Store, session, mappings and sockets of a room fit together in every     *)
(* reachable state: the inductive invariant behind the theorems below.      *)
THEOREM AlwaysFit == Spec => []Fit
BY InitFits, StepFits, PTL DEF Spec

(* Every key of the room and every timer keeps its type; nobody is both     *)
(* seated and watching, only who has a seat is ready, and nobody is in a    *)
(* room that is gone.                                                       *)
THEOREM TypeCorrect == Spec => []TypeOK
<1>1. Fit => TypeOK
  <2> SUFFICES ASSUME Fit PROVE TypeOK
    OBVIOUS
  <2>1. room.status = "none" => \A u \in User : at[u] # Here
    BY Parts
  <2> QED
    BY <2>1, Parts DEF TypeOK, Fits, RoomInShape, Rooms, Memories, Maps, Places
<1> QED
  BY <1>1, AlwaysFit, PTL

(* Nobody belongs to this room and to another one, except for who is about  *)
(* to be evicted after a crash in room:create.                              *)
THEOREM AlwaysOneRoom == Spec => []OneRoom
<1>1. Fit => OneRoom
  <2> SUFFICES ASSUME Fit, NEW u \in getHumanRoomMemberIds(room, memory), mapped[u] = Elsewhere
               PROVE  memory.startup \/ memory.member[u] = "evict"
    BY DEF OneRoom
  <2>1. u \in Roster(room)
    BY Parts, Values DEF getHumanRoomMemberIds, Fits, SessionFits
  <2> QED
    BY <2>1, Parts, Values DEF Fits, MembersMapped
<1> QED
  BY <1>1, AlwaysFit, PTL

(* The seats of the room are those of the session, and whoever has cards in *)
(* the snapshot is a member, wherever a crash came.                         *)
THEOREM PlayersStayMembers == Spec => []PlayersBelong
<1>1. Fit => PlayersBelong
  BY DEF Fit, Fits, RoomInShape, SessionFits, PlayersBelong, InSession
<1> QED
  BY <1>1, AlwaysFit, PTL

(* Who counts as connected is in the room, or a disconnect handler or the   *)
(* startup will see that he is not, as long as no socket closes while its   *)
(* join is under way; and nobody in the room is taken for one who left it.  *)
THEOREM AlwaysTracked ==
    ASSUME "drop" \notin Gap
    PROVE  Spec => []ConnectedIsTracked
<1>1. Fit => ConnectedIsTracked
  BY Parts DEF Fits, PresenceFits, ConnectedIsTracked
<1> QED
  BY <1>1, AlwaysFit, PTL
=============================================================================
