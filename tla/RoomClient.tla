------------------------------ MODULE RoomClient ------------------------------
(***************************************************************************)
(* The client of the MCP adapter and which room it believes its user to be *)
(* in (UnoSocketClient): create, join, rejoin, leave and dissolve, whose   *)
(* answers may be late or lost, the question that finds out what became of *)
(* them, the return after a lost connection, and what the server tells of  *)
(* its own accord.                                                         *)
(*                                                                         *)
(* The server is the memberships of this one user: requests that change    *)
(* them are handled in the order sent (the user's lock), user:current_room *)
(* is answered at any time.  An epoch is whether it is still the current   *)
(* one.  Rooms of others come and go; room codes are not drawn twice.      *)
(***************************************************************************)
EXTENDS Naturals, FiniteSets, SequencesExt

CONSTANTS
    Room, None,
    Home,           \* the room in which the user may be at the start
    Slots,                                        \* bound: calls under way
    MaxCalls,                                     \* bound: calls of the agent
    MaxTroubles,    \* bound: lost connections, late answers, failures and what others do
    Gap     \* which gaps of the client may be run into, of
            \* "overtake": a call is made while another one is under way,
            \* "leave": the connection is lost while a leave is under way

ASSUME RoomAssumption == None \notin Room /\ Home \in Room
ASSUME BoundAssumption ==
    /\ {Slots, MaxCalls, MaxTroubles} \subseteq Nat
    /\ Gap \subseteq {"overtake", "leave"}

VARIABLES
    client,     \* the fields of UnoSocketClient and its calls under way
    connected,  \* the socket is connected
    upstream,   \* the requests that the server has yet to handle
    inbox,      \* the answers and events on their way to the client
    server,     \* the rooms, the user's membership and his sockets
    spent       \* how much of the bounds

vars == <<client, connected, upstream, inbox, server, spent>>

Slot == 1..Slots
Connection == {"now", "old"}
Operation == {"create", "join", "rejoin", "leave", "dissolve"}
Question == {"discover", "reconcile"}
MaybeRoom == Room \cup {None}

Call == [op : Operation \cup Question \cup {"none", "connecting", "restore"},
         room : MaybeRoom, current : BOOLEAN]
Idle == [op |-> "none", room |-> None, current |-> FALSE]

TypeOK ==
    /\ client \in [membership : {"none", "active", "suspended", "unknown"},
                   room : MaybeRoom,
                   pending : {"none", "open", "taken"}, pendingRoom : MaybeRoom,
                   operating : BOOLEAN, started : BOOLEAN, call : [Slot -> Call]]
    /\ connected \in BOOLEAN
    /\ server \in [stage : [Room -> {"unborn", "waiting", "game", "gone"}],
                   mine : MaybeRoom, at : [Connection -> MaybeRoom],
                   departed : BOOLEAN]
    /\ spent \in [calls : 0..MaxCalls, troubles : 0..MaxTroubles]

Init ==
    /\ client = [membership |-> "none", room |-> None,
                 pending |-> "none", pendingRoom |-> None, operating |-> FALSE,
                 started |-> FALSE, call |-> [s \in Slot |-> Idle]]
    /\ connected = FALSE
    /\ upstream = <<>> /\ inbox = <<>>
    /\ \E stage \in [Room -> {"unborn", "waiting", "game"}],
          mine \in {None, Home}, departed \in BOOLEAN :
          /\ mine # None => stage[mine] # "unborn"
          /\ departed => mine # None /\ stage[mine] = "game"
          /\ server = [stage |-> stage, mine |-> mine, departed |-> departed,
                       at |-> [k \in Connection |-> None]]
    /\ spent = [calls |-> 0, troubles |-> 0]

-----------------------------------------------------------------------------
(* The client's membership and its epoch.                                   *)

(* Of the calls of an older epoch only two kinds still do something.        *)
Stale(c) ==
    [c EXCEPT !.call = [s \in Slot |->
        IF @[s].op \in {"connecting", "reconcile"} THEN [@[s] EXCEPT !.current = FALSE]
        ELSE Idle]]

resetRoomState(c) ==
    [Stale(c) EXCEPT !.operating = FALSE, !.pending = "none", !.pendingRoom = None,
                     !.membership = "none", !.room = None]
suspendRoom(c, r) ==
    [c EXCEPT !.membership = "suspended", !.room = r]
suspendUnknownMembership(c) ==
    [c EXCEPT !.membership = "unknown", !.room = None]
suspended(c, r) ==
    IF r = None THEN suspendUnknownMembership(c) ELSE suspendRoom(c, r)
activateRoom(c, r) == [c EXCEPT !.membership = "active", !.room = r]

beginMembershipOperation(c) ==
    [Stale(c) EXCEPT !.pending = "none", !.pendingRoom = None, !.operating = TRUE]
finishMembershipOperation(c, s) ==
    [c EXCEPT !.operating = @ /\ ~c.call[s].current, !.call[s] = Idle]

\* Faulty: the room that was left is restored as well.
FaultycurrentRoomCode(c) ==
    IF c.membership \in {"active", "suspended"} THEN c.room ELSE None

currentRoomCode(c) == IF c.membership = "active" THEN c.room ELSE None
InRoom(c, r) == c.membership = "active" /\ c.room = r
Away(c) == c.membership \in {"suspended", "unknown"}

-----------------------------------------------------------------------------
(* Requests.                                                                *)

Occurs ==
    spent.troubles < MaxTroubles /\ spent' = [spent EXCEPT !.troubles = @ + 1]

(* A call keeps its slot until neither it nor an answer to it is about.     *)
Free(c) ==
    {s \in Slot : /\ c.call[s] = Idle
                  /\ \A m \in Range(upstream) \cup Range(inbox) : m.slot # s}
FreeSlot(c) == CHOOSE s \in Free(c) : \A t \in Free(c) : s <= t

(* A client with a call under way, and the requests it sends.               *)
Quiet(c) == [client |-> c, sends |-> <<>>]
request(c, op, r) ==
    LET s == FreeSlot(c)
    IN  [client |-> [c EXCEPT !.call[s] = [op |-> op, room |-> r, current |-> TRUE]],
         sends |-> <<[slot |-> s, op |-> op, room |-> r, on |-> "now"]>>]

Becomes(step) ==
    client' = step.client /\ upstream' = upstream \o step.sends

Asking(c) == \E s \in Slot : c.call[s].op = "reconcile"
reconcilePendingMembership(c, up) ==
    IF c.pending # "open" \/ Asking(c) \/ ~up
    THEN Quiet(c)
    ELSE request([c EXCEPT !.pending = "taken"], "reconcile", c.pendingRoom)

\* Faulty: the room that refused to have the user back is still taken for his.
FaultyhandleRejoinFailure(c, r) == c

handleRejoinFailure(c, r) == suspendRoom(c, r)

(* After a lost answer the membership is only guessed, and asked for.       *)
handleAmbiguousMembershipTimeout(c, r) ==
    [suspended(c, r) EXCEPT !.pending = "open", !.pendingRoom = r]

-----------------------------------------------------------------------------
(* The tools of the adapter.                                                *)

UnderWay(c) == {s \in Slot : c.call[s] # Idle}

(* getClient: a server or a membership to come back to, and what is pending *)
(* is asked again first.                                                    *)
MayCall ==
    /\ client.started /\ (connected \/ Away(client))
    /\ reconcilePendingMembership(client, connected) = Quiet(client)
    /\ Cardinality(Free(client)) > 1
    /\ spent.calls < MaxCalls
    /\ spent' = [spent EXCEPT !.calls = @ + 1]
    /\ "overtake" \notin Gap =>
          \A s \in UnderWay(client) : client.call[s].op \in Question

Retry ==
    /\ client.started
    /\ Free(client) # {}
    /\ LET step == reconcilePendingMembership(client, connected)
       IN  step # Quiet(client) /\ Becomes(step)
    /\ UNCHANGED <<connected, inbox, server, spent>>

createRoom ==
    /\ MayCall
    /\ LET c == beginMembershipOperation(client)
       IN  Becomes(IF connected THEN request(c, "create", None)
                   ELSE Quiet([c EXCEPT !.operating = FALSE]))
    /\ UNCHANGED <<connected, inbox, server>>

joinRoom(r) ==
    /\ MayCall
    /\ LET c == beginMembershipOperation(client)
       IN  IF ~connected
           THEN LET s == FreeSlot(c)
                IN  /\ client' = [c EXCEPT !.call[s] =
                            [op |-> "connecting", room |-> r, current |-> TRUE]]
                    /\ UNCHANGED upstream
           ELSE Becomes(request(c, IF c.membership = "suspended" /\ c.room = r
                                   THEN "rejoin" ELSE "join", r))
    /\ UNCHANGED <<connected, inbox, server>>

(* joinRoom once ensureTransportConnected has the connection back.          *)
JoinGoesOn(s) ==
    /\ connected /\ client.call[s].op = "connecting" /\ Free(client) # {}
    /\ LET k == client.call[s]
           c == [client EXCEPT !.call[s] = Idle]
           back == client.membership = "suspended" /\ client.room = k.room
           step == request(c, IF back THEN "rejoin" ELSE "join", k.room)
       IN  IF k.current THEN Becomes(step)
           ELSE /\ client' = c
                /\ upstream' = IF back THEN upstream ELSE upstream \o step.sends
    /\ UNCHANGED <<connected, inbox, server, spent>>

leaveRoom ==
    /\ client.membership = "active" /\ MayCall
    /\ Becomes(request(beginMembershipOperation(client), "leave", client.room))
    /\ UNCHANGED <<connected, inbox, server>>

dissolveRoom ==
    /\ client.membership = "active" /\ MayCall
    /\ Becomes(request(beginMembershipOperation(client), "dissolve", client.room))
    /\ UNCHANGED <<connected, inbox, server>>

-----------------------------------------------------------------------------
(* Answers.                                                                 *)

(* What an answer to a call that is still the current one does.             *)
Applied(c, k, a) ==
    CASE k.op = "create" /\ a.ok -> activateRoom(c, a.room)
      [] k.op = "join" /\ a.ok ->
            IF a.rejoin THEN suspendRoom(c, k.room) ELSE activateRoom(c, k.room)
      [] k.op = "rejoin" ->
            IF a.ok THEN activateRoom(c, k.room)
            ELSE handleRejoinFailure(c, k.room)
      [] k.op = "restore" /\ InRoom(c, k.room) ->
            IF a.ok THEN activateRoom(c, k.room)
            ELSE handleRejoinFailure(c, k.room)
      [] k.op = "leave" /\ a.ok ->
            IF a.suspended THEN suspendRoom(c, k.room) ELSE resetRoomState(c)
      [] k.op = "dissolve" /\ a.ok -> resetRoomState(c)
      [] k.op = "discover" /\ a.room # None -> suspendRoom(c, a.room)
      [] k.op = "reconcile" ->
            IF a.room # None THEN suspendRoom(c, a.room) ELSE resetRoomState(c)
      [] OTHER -> c

(* The same for a call that gave up waiting.                                *)
GaveUp(c, k) ==
    CASE k.op \in Operation -> handleAmbiguousMembershipTimeout(c, k.room)
      [] k.op = "restore" /\ InRoom(c, k.room) ->
            handleAmbiguousMembershipTimeout(c, k.room)
      [] k.op = "reconcile" -> suspended(c, c.pendingRoom)
      [] OTHER -> c

\* Faulty: what was asked in vain is not asked again.
FaultyEnded(c, s, asked) ==
    LET k == client.call[s]
    IN  IF k.op \in Operation \cup {"connecting"}
        THEN finishMembershipOperation(c, s)
        ELSE [c EXCEPT !.call[s] = Idle,
                       !.pending = IF k.op = "reconcile" /\ @ = "taken" THEN "none" ELSE @]

(* The end of a call: c is what it made of the client.                      *)
Ended(c, s, asked) ==
    LET k == client.call[s]
    IN  IF k.op \in Operation \cup {"connecting"}
        THEN finishMembershipOperation(c, s)
        ELSE [c EXCEPT !.call[s] = Idle,
                       !.pending = IF k.op = "reconcile" /\ @ = "taken"
                                   THEN IF asked THEN "none" ELSE "open" ELSE @]

Answer(a) ==
    LET k == client.call[a.slot]
        c == IF k.current THEN Applied(client, k, a) ELSE client
        e == Ended(c, a.slot, TRUE)
    IN  CASE k.op = "join" /\ k.current /\ a.ok /\ a.rejoin ->
                LET step == request([c EXCEPT !.call[a.slot] = Idle], "rejoin", k.room)
                IN  Becomes(step)
          [] k.op = "reconcile" -> Becomes(reconcilePendingMembership(e, TRUE))
          [] OTHER -> Becomes(Quiet(e))

GivesUp(s) ==
    /\ client.call[s] # Idle /\ Free(client) # {}
    /\ LET k == client.call[s]
           c == IF k.current THEN GaveUp(client, k) ELSE client
           e == Ended(c, s, FALSE)
           again == k.op # "reconcile" \/ c.pending = "open"
       IN  Becomes(IF again THEN reconcilePendingMembership(e, connected) ELSE Quiet(e))
    /\ UNCHANGED <<connected, inbox, server>>

(* The ten seconds of a call are over: its answer can no longer come, or is *)
(* late.                                                                    *)
Lost(s) == \A m \in Range(upstream) \cup Range(inbox) : m.slot # s \/ m.on = "old"
LossNoticed == \E s \in Slot : Lost(s) /\ GivesUp(s) /\ UNCHANGED spent
AnswerLate ==
    /\ Occurs
    /\ \E s \in Slot : ~Lost(s) /\ GivesUp(s)

(* room:membership_ended                                                    *)
MembershipEnded(r) ==
    LET local == IF client.membership \in {"active", "suspended"} THEN client.room ELSE None
    IN  client' = IF \/ r = local
                     \/ client.membership = "unknown" /\ ~client.operating
                  THEN resetRoomState(client)
                  ELSE IF client.membership = "none" /\ ~client.operating
                  THEN [Stale(client) EXCEPT !.pending = "none", !.pendingRoom = None]
                  ELSE client

Receive ==
    /\ inbox # <<>> /\ Free(client) # {}
    /\ inbox' = Tail(inbox)
    /\ LET m == Head(inbox)
       IN  CASE m.type = "answer" ->
                  IF client.call[m.slot] = Idle THEN UNCHANGED <<client, upstream>>
                  ELSE Answer(m)
             [] m.type = "ended" -> MembershipEnded(m.room) /\ UNCHANGED upstream
    /\ UNCHANGED <<connected, server, spent>>

-----------------------------------------------------------------------------
(* The connection.                                                          *)

Connect ==
    /\ ~connected /\ Cardinality(Free(client)) > 1
    /\ connected' = TRUE
    /\ LET c == [client EXCEPT !.started = TRUE]
       IN  Becomes(IF ~client.started THEN request(c, "discover", None)
                   ELSE IF c.pending # "none" THEN reconcilePendingMembership(c, TRUE)
                   ELSE IF currentRoomCode(c) = None THEN Quiet(c)
                   ELSE request(c, "restore", currentRoomCode(c)))
    /\ UNCHANGED <<inbox, server, spent>>

(* What the server had received it still handles, for a socket that is gone.*)
Disconnect ==
    /\ connected /\ Occurs
    /\ "leave" \notin Gap => \A s \in Slot : client.call[s].op # "leave"
    /\ \A m \in Range(upstream) : m.on = "now"
    /\ connected' = FALSE
    /\ inbox' = <<>>
    /\ \E n \in 0..Len(upstream) :
          upstream' = [i \in 1..n |-> [upstream[i] EXCEPT !.on = "old"]]
    /\ server' = [server EXCEPT !.at = [now |-> None, old |-> server.at.now]]
    /\ UNCHANGED client

-----------------------------------------------------------------------------
(* The server.                                                              *)

Tell(told) == inbox' = inbox \o (IF connected THEN told ELSE <<>>)
Event(type, r) == [type |-> type, slot |-> 0, room |-> r, on |-> "now"]
Reply(m, ok) ==
    [type |-> "answer", slot |-> m.slot, on |-> "now", room |-> m.room, ok |-> ok,
     rejoin |-> FALSE, suspended |-> FALSE]

(* m is answered, if its socket is still there, after what else is told.    *)
Replies(m, told, answer) ==
    Tell(told \o IF m.on = "now" THEN <<answer>> ELSE <<>>)

Open(r) == server.stage[r] \in {"waiting", "game"}
Gone(s, r) ==
    [s EXCEPT !.stage[r] = "gone", !.mine = IF @ = r THEN None ELSE @,
              !.departed = @ /\ s.mine # r,
              !.at = [k \in Connection |-> IF @[k] = r THEN None ELSE @[k]]]
Inside(s, r, k) == [s EXCEPT !.mine = r, !.at[k] = r, !.departed = FALSE]
ensureNotInRoom(r) == server.mine \in {None, r}

Creates(m) ==
    \E r \in Room :
       /\ server.mine = None /\ server.stage[r] = "unborn"
       /\ server' = Inside([server EXCEPT !.stage[r] = "waiting"], r, m.on)
       /\ Replies(m, <<>>, [Reply(m, TRUE) EXCEPT !.room = r])

(* A game is not entered by joining: a member of it is told to rejoin.      *)
MayJoin(r) ==
    /\ ensureNotInRoom(r)
    /\ \/ server.stage[r] = "waiting"
       \/ server.stage[r] = "game" /\ server.mine = r
Joins(m) ==
    /\ MayJoin(m.room)
    /\ IF server.stage[m.room] = "waiting"
       THEN /\ server' = Inside(server, m.room, m.on)
            /\ Replies(m, <<>>, Reply(m, TRUE))
       ELSE /\ server' = server
            /\ Replies(m, <<>>, [Reply(m, TRUE) EXCEPT !.rejoin = TRUE])

MayRejoin(r) == Open(r) /\ ensureNotInRoom(r)
Rejoins(m) ==
    /\ MayRejoin(m.room)
    /\ server' = Inside(server, m.room, m.on)
    /\ Replies(m, <<>>, Reply(m, TRUE))

(* A player of a game is suspended, others leave, the last one ends it all. *)
MayLeave(k) == server.at[k] # None /\ server.mine = server.at[k]
Leaves(m) ==
    LET r == server.at[m.on]
    IN  /\ MayLeave(m.on)
        /\ \/ /\ server.stage[r] = "game"
              /\ server' = [server EXCEPT !.at[m.on] = None, !.departed = TRUE]
              /\ Replies(m, <<>>, [Reply(m, TRUE) EXCEPT !.suspended = TRUE])
           \/ /\ server' = [server EXCEPT !.at[m.on] = None, !.mine = None,
                                           !.departed = FALSE]
              /\ Replies(m, <<>>, Reply(m, TRUE))
           \/ /\ server' = Gone(server, r)
              /\ Replies(m, <<Event("ended", r)>>, Reply(m, TRUE))

(* Only the owner may dissolve a room.                                      *)
Dissolves(m) ==
    LET r == server.at[m.on]
    IN  /\ r # None
        /\ server' = Gone(server, r)
        /\ Replies(m, <<Event("ended", r)>>, Reply(m, TRUE))

(* A request that may be granted is refused if something fails.             *)
Granted(m) ==
    \/ m.op = "create" /\ server.mine = None /\ "unborn" \in Range(server.stage)
    \/ m.op = "join" /\ MayJoin(m.room)
    \/ m.op \in {"rejoin", "restore"} /\ MayRejoin(m.room)
    \/ m.op = "leave" /\ MayLeave(m.on)
Refuses(m) ==
    /\ m.op \notin Question
    /\ IF Granted(m) THEN Occurs ELSE UNCHANGED spent
    /\ server' = server
    /\ Replies(m, <<>>, Reply(m, FALSE))

(* user:current_room                                                        *)
TellsRoom(m) ==
    server' = server /\ Replies(m, <<>>, [Reply(m, TRUE) EXCEPT !.room = server.mine])

(* What needs no lock is answered at once: a question, and a request to     *)
(* leave of a socket that is in no room.                                    *)
AtOnce(m) ==
    \/ m.op \in Question
    \/ m.op \in {"leave", "dissolve"} /\ server.at[m.on] = None

Serves(m) ==
    \/ m.op = "create" /\ Creates(m)
    \/ m.op = "join" /\ Joins(m)
    \/ m.op \in {"rejoin", "restore"} /\ Rejoins(m)
    \/ m.op = "leave" /\ Leaves(m)
    \/ m.op = "dissolve" /\ Dissolves(m)
    \/ m.op \in Question /\ TellsRoom(m)

Handle ==
    /\ \E i \in 1..Len(upstream) :
          /\ AtOnce(upstream[i]) \/ \A j \in 1..(i - 1) : upstream[j].op \in Question
          /\ \/ Serves(upstream[i]) /\ UNCHANGED spent
             \/ Refuses(upstream[i])
          /\ upstream' = RemoveAt(upstream, i)
    /\ UNCHANGED <<client, connected>>

(* Others end the room, or put the user out of it; he hears of both.        *)
RoomEnds(r) ==
    /\ Occurs /\ Open(r)
    /\ server' = Gone(server, r)
    /\ Tell(IF server.mine = r THEN <<Event("ended", r)>> ELSE <<>>)
    /\ UNCHANGED <<client, connected, upstream>>

PutOut ==
    /\ Occurs /\ server.mine # None /\ ~server.departed
    /\ server' = [server EXCEPT !.mine = None,
                     !.at = [k \in Connection |-> IF @[k] = server.mine THEN None ELSE @[k]]]
    /\ Tell(<<Event("ended", server.mine)>>)
    /\ UNCHANGED <<client, connected, upstream>>

(* A member who is not there is removed from a waiting room without a word. *)
Evicted ==
    /\ server.mine # None /\ server.stage[server.mine] = "waiting"
    /\ server.at.now # server.mine
    /\ Occurs
    /\ server' = [server EXCEPT !.mine = None]
    /\ UNCHANGED <<client, connected, upstream, inbox>>

GameStarts(r) ==
    /\ Occurs /\ server.stage[r] = "waiting"
    /\ server' = [server EXCEPT !.stage[r] = "game"]
    /\ UNCHANGED <<client, connected, upstream, inbox>>

BackToRoom(r) ==
    /\ Occurs /\ server.stage[r] = "game"
    /\ server' = [server EXCEPT !.stage[r] = "waiting",
                                !.departed = @ /\ server.mine # r]
    /\ UNCHANGED <<client, connected, upstream, inbox>>

-----------------------------------------------------------------------------
Next ==
    \/ Retry \/ createRoom \/ leaveRoom \/ dissolveRoom
    \/ \E r \in Room : joinRoom(r)
    \/ \E s \in Slot : JoinGoesOn(s)
    \/ LossNoticed \/ AnswerLate
    \/ Receive \/ Connect \/ Disconnect \/ Handle \/ PutOut \/ Evicted
    \/ \E r \in Room : RoomEnds(r) \/ GameStarts(r) \/ BackToRoom(r)

Spec == Init /\ [][Next]_vars

Fairness ==
    /\ WF_vars(Connect) /\ WF_vars(Handle) /\ WF_vars(Receive)
    /\ WF_vars(LossNoticed) /\ WF_vars(Retry)
    /\ \A s \in Slot : WF_vars(JoinGoesOn(s))
FairSpec == Spec /\ Fairness

-----------------------------------------------------------------------------
Still ==
    /\ connected /\ upstream = <<>> /\ inbox = <<>>
    /\ \A s \in Slot : client.call[s] = Idle

(* Once everything is answered, a client that takes itself for present in a *)
(* room is: answers of calls that were overtaken, timed out or made through *)
(* a connection that is gone have not left it with a room it is not in.     *)
ActiveIsPresent ==
    Still /\ client.membership = "active" =>
        server.mine = client.room /\ server.at["now"] = client.room

(* A player who left his game for the autopilot returns because the agent   *)
(* asks for it, never because the connection came back.                     *)
LeaveSticks ==
    [][\A i \in 1..Len(upstream) :
         upstream[i].op = "restore" /\ upstream' = RemoveAt(upstream, i)
           => (server.departed => server'.departed)]_vars
=============================================================================
