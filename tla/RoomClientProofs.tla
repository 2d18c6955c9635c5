--------------------------- MODULE RoomClientProofs ---------------------------
(***************************************************************************)
(* A client that takes itself for present in a room is present, once       *)
(* everything is answered.                                                 *)
(*                                                                         *)
(* The invariant says what makes up for it while something is under way.   *)
(* It holds as long as calls are not overtaken: then at most one call that *)
(* may activate a room is about, and no request to leave comes after it.   *)
(***************************************************************************)
EXTENDS RoomClient, WellFoundedInduction, FiniteSetTheorems, TLAPS

-----------------------------------------------------------------------------
(* What is on the way.                                                      *)

Request ==
    {m \in [slot : Slot, op : Operation \cup Question \cup {"restore"},
            room : MaybeRoom, on : Connection] :
        m.op \in {"join", "rejoin", "restore"} => m.room \in Room}
Reaction ==
    [type : {"answer"}, slot : Slot, on : {"now"}, room : MaybeRoom,
     ok : BOOLEAN, rejoin : BOOLEAN, suspended : BOOLEAN]
Notice == [type : {"ended"}, slot : {0}, room : MaybeRoom, on : {"now"}]
Message == Reaction \cup Notice

(* The calls whose answers make the client active, and of them those that   *)
(* the agent makes.                                                         *)
Activating == {"create", "join", "rejoin", "restore"}
Entering == {"create", "join", "rejoin"}

Current(c, s, ops) == c.call[s].current /\ c.call[s].op \in ops
Asked(c, up, ops, i) == up[i].on = "now" /\ Current(c, up[i].slot, ops)
Answered(c, in, ops, j) == in[j].type = "answer" /\ Current(c, in[j].slot, ops)
Leaving(up, i) == up[i].on = "now" /\ up[i].op = "leave"
Ending(in, j, r) == in[j].type = "ended" /\ in[j].room = r

ClientOK(c) ==
    c \in [membership : {"none", "active", "suspended", "unknown"},
           room : MaybeRoom,
           pending : {"none", "open", "taken"}, pendingRoom : MaybeRoom,
           operating : BOOLEAN, started : BOOLEAN, call : [Slot -> Call]]
ServerOK(srv) ==
    srv \in [stage : [Room -> {"unborn", "waiting", "game", "gone"}],
             mine : MaybeRoom, at : [Connection -> MaybeRoom],
             departed : BOOLEAN]

-----------------------------------------------------------------------------
(* The parts of the invariant.                                              *)

(* Requests of a lost connection precede the others, and have been handled  *)
(* before a socket of the new one is in a room.                             *)
InOrder(conn, up, in, srv) ==
    /\ ~conn => in = <<>> /\ \A i \in DOMAIN up : up[i].on = "old"
    /\ \A i, j \in DOMAIN up : i < j /\ up[j].on = "old" => up[i].on = "old"
    /\ srv.at["now"] # None =>
          /\ srv.mine = srv.at["now"]
          /\ \A i \in DOMAIN up : up[i].on = "old" => up[i].op \in Question

Sensible(c) ==
    /\ c.membership # "none" \/ c.pending # "none" => c.started
    /\ ~c.started => \A s \in Slot : c.call[s].op = "none"
    /\ c.membership = "active" => c.room \in Room /\ c.pending = "none"
    /\ \A s \in Slot :
          c.call[s].op \in {"join", "rejoin", "restore", "leave", "dissolve", "connecting"}
             => c.call[s].room \in Room

(* A message belongs to the call in its slot, or to none.                   *)
Matched(c, up, in) ==
    /\ \A i \in DOMAIN up :
          c.call[up[i].slot].op # "none" =>
             /\ c.call[up[i].slot].op = up[i].op
             /\ c.call[up[i].slot].room = up[i].room
    /\ \A j \in DOMAIN in : in[j].type = "answer" =>
          /\ c.call[in[j].slot].op # "connecting"
          /\ c.call[in[j].slot].op \in {"join", "rejoin", "restore"}
                => c.call[in[j].slot].room = in[j].room

OnePerSlot(up, in) ==
    /\ \A i, j \in DOMAIN up : i # j => up[i].slot # up[j].slot
    /\ \A i, j \in DOMAIN in :
          i # j /\ in[i].type = "answer" => in[i].slot # in[j].slot
    /\ \A i \in DOMAIN up, j \in DOMAIN in : up[i].slot # in[j].slot

(* While a call may still activate a room nothing else is guessed.          *)
Sole(c, s) ==
    /\ c.pending = "none"
    /\ \A t \in Slot : t # s /\ c.call[t].current => c.call[t].op \in Question
OneAtATime(c, up, in) ==
    /\ \A i \in DOMAIN up : Asked(c, up, Entering, i) => Sole(c, up[i].slot)
    /\ \A j \in DOMAIN in : Answered(c, in, Entering, j) => Sole(c, in[j].slot)
    /\ \A s \in Slot : Current(c, s, {"connecting"}) =>
          Sole(c, s) /\ c.membership # "active"

(* No request to leave follows a call that activates a room.                *)
LeavesClaimed(c, up) ==
    c.membership = "active" =>
        \A i \in DOMAIN up : Leaving(up, i) => Current(c, up[i].slot, {"leave"})
LeavesFirst(c, up, in) ==
    /\ \A i, j \in DOMAIN up : Asked(c, up, Activating, i) /\ Leaving(up, j) => j < i
    /\ \A i \in DOMAIN up, j \in DOMAIN in :
          Answered(c, in, Activating, j) => ~Leaving(up, i)

(* An answer that activates a room tells the truth, or its end follows.     *)
Enters(c, in, j) ==
    /\ Answered(c, in, Activating, j) /\ in[j].ok
    /\ Answered(c, in, {"join"}, j) => ~in[j].rejoin
AnswersTrue(c, in, srv) ==
    \A j \in DOMAIN in : Enters(c, in, j) =>
        /\ in[j].room \in Room
        /\ \/ srv.at["now"] = in[j].room
           \/ \E i \in DOMAIN in : i > j /\ Ending(in, i, in[j].room)

(* The client is where it takes itself to be, or is about to hear of it.    *)
Backed(c, in, srv) ==
    c.membership = "active" =>
        \/ srv.at["now"] = c.room
        \/ \E j \in DOMAIN in : Ending(in, j, c.room)
        \/ \E s \in Slot : Current(c, s, {"restore"}) /\ c.call[s].room = c.room
        \/ \E j \in DOMAIN in : Answered(c, in, {"leave"}, j) /\ in[j].ok

(* Who left stays away: no request to leave outlives its connection, who is *)
(* active has not departed unless the answer that says so is on its way,    *)
(* and who asks to be let in again after a reconnect has neither departed   *)
(* nor asked to leave before.                                               *)
NoneLeftOver(up) == \A i \in DOMAIN up : up[i].op = "leave" => up[i].on = "now"
Stays(c, up, in, srv) ==
    c.membership = "active" =>
        /\ NoneLeftOver(up)
        /\ srv.departed =>
              \E j \in DOMAIN in : Answered(c, in, {"leave"}, j) /\ in[j].ok
EntersToStay(c, up, in, srv) ==
    \A j \in DOMAIN in : Enters(c, in, j) => NoneLeftOver(up) /\ ~srv.departed
RestoresNobodyElse(up, srv) ==
    \A i \in DOMAIN up : up[i].op = "restore" =>
        /\ ~srv.departed
        /\ \A j \in DOMAIN up : up[j].op = "leave" => i < j
Lasting(c, up, in, srv) ==
    "leave" \notin Gap =>
        /\ Stays(c, up, in, srv)
        /\ EntersToStay(c, up, in, srv)
        /\ RestoresNobodyElse(up, srv)

Typed(c, up, in, srv) ==
    ClientOK(c) /\ up \in Seq(Request) /\ in \in Seq(Message) /\ ServerOK(srv)
Sound(c, conn, up, in, srv) ==
    /\ Typed(c, up, in, srv)
    /\ InOrder(conn, up, in, srv)
    /\ Sensible(c)
    /\ Matched(c, up, in)
    /\ OnePerSlot(up, in)
    /\ OneAtATime(c, up, in)
    /\ LeavesClaimed(c, up)
    /\ LeavesFirst(c, up, in)
    /\ AnswersTrue(c, in, srv)
    /\ Lasting(c, up, in, srv)

-----------------------------------------------------------------------------
(* Lemmas about sequences and slots.                                        *)

LEMMA TailFacts ==
    ASSUME NEW S, NEW s \in Seq(S), s # <<>>
    PROVE  /\ Tail(s) \in Seq(S)
           /\ Len(s) \in Nat \ {0}
           /\ DOMAIN s = 1..Len(s)
           /\ DOMAIN Tail(s) = 1..(Len(s) - 1)
           /\ \A j \in 1..(Len(s) - 1) : Tail(s)[j] = s[j + 1]
OBVIOUS

LEMMA RemoveAtFacts ==
    ASSUME NEW S, NEW s \in Seq(S), NEW i \in 1..Len(s)
    PROVE  /\ RemoveAt(s, i) \in Seq(S)
           /\ DOMAIN RemoveAt(s, i) = 1..(Len(s) - 1)
           /\ \A k \in 1..(Len(s) - 1) :
                 RemoveAt(s, i)[k] = IF k < i THEN s[k] ELSE s[k + 1]
<1> DEFINE before == SubSeq(s, 1, i - 1)
           after == SubSeq(s, i + 1, Len(s))
<1>1. /\ before \in Seq(S) /\ Len(before) = i - 1
      /\ \A k \in 1..(i - 1) : before[k] = s[k]
  OBVIOUS
<1>2. /\ after \in Seq(S) /\ Len(after) = Len(s) - i
      /\ \A k \in 1..(Len(s) - i) : after[k] = s[i + k]
  OBVIOUS
<1> HIDE DEF before, after
<1>3. /\ before \o after \in Seq(S)
      /\ DOMAIN (before \o after) = 1..(Len(s) - 1)
      /\ \A k \in 1..(Len(s) - 1) :
            (before \o after)[k] = IF k < i THEN before[k] ELSE after[k - i + 1]
  <2>1. before \o after \in Seq(S) /\ Len(before \o after) = Len(s) - 1
    BY <1>1, <1>2
  <2>2. ASSUME NEW k \in 1..(Len(s) - 1)
        PROVE  (before \o after)[k] = IF k < i THEN before[k] ELSE after[k - i + 1]
    <3>1. k \in 1..(Len(before) + Len(after)) /\ k - Len(before) = k - i + 1
      BY <1>1, <1>2
    <3>2. (before \o after)[k] = IF k <= Len(before) THEN before[k]
                                 ELSE after[k - Len(before)]
      BY <1>1, <1>2, <3>1
    <3> QED
      BY <1>1, <3>1, <3>2
  <2> QED
    BY <2>1, <2>2
<1>4. RemoveAt(s, i) = before \o after
  BY DEF RemoveAt, before, after
<1>5. ASSUME NEW k \in 1..(Len(s) - 1)
      PROVE  RemoveAt(s, i)[k] = IF k < i THEN s[k] ELSE s[k + 1]
  <2>1. RemoveAt(s, i)[k] = IF k < i THEN before[k] ELSE after[k - i + 1]
    BY <1>3, <1>4
  <2>2. k < i => before[k] = s[k]
    BY <1>1
  <2>3. ~(k < i) => k - i + 1 \in 1..(Len(s) - i) /\ i + (k - i + 1) = k + 1
    OBVIOUS
  <2>4. ~(k < i) => after[k - i + 1] = s[i + (k - i + 1)]
    BY <1>2, <2>3
  <2> QED
    BY <2>1, <2>2, <2>3, <2>4
<1> QED
  BY <1>3, <1>4, <1>5

lessThan == {p \in Nat \X Nat : p[1] < p[2]}

(* A call finds a slot that neither a call nor a message uses.              *)
LEMMA FreeSlotIsFree ==
    ASSUME NEW c, Free(c) # {}
    PROVE  FreeSlot(c) \in Free(c)
<1>1. IsWellFoundedOn(lessThan, Nat)
  BY NatLessThanWellFounded DEF OpToRel, lessThan
<1>2. Free(c) \subseteq Nat
  BY DEF Free, Slot
<1>3. PICK s \in Free(c) : \A t \in Free(c) : <<t, s>> \notin lessThan
  BY <1>1, <1>2, WFMin, Zenon
<1>4. ASSUME NEW t \in Free(c) PROVE s <= t
  <2>1. s \in Nat /\ t \in Nat /\ <<t, s>> \notin lessThan
    BY <1>2, <1>3
  <2>2. t < s => <<t, s>> \in lessThan
    BY <2>1 DEF lessThan
  <2> QED
    BY <2>1, <2>2
<1> QED
  BY <1>3, <1>4 DEF FreeSlot

LEMMA FreeOfMessages ==
    ASSUME NEW c, NEW s \in Free(c)
    PROVE  /\ s \in Slot /\ c.call[s] = Idle
           /\ \A i \in DOMAIN upstream : upstream[i].slot # s
           /\ \A j \in DOMAIN inbox : inbox[j].slot # s
BY DEF Free, Range

-----------------------------------------------------------------------------
(* What a client forgets, and what it receives.                             *)

Calmer(c, d) ==
    \A s \in Slot :
        \/ d.call[s] \in {c.call[s], Idle}
        \/ c.call[s].op # "none" /\ d.call[s] = [c.call[s] EXCEPT !.current = FALSE]

NoneLive(c, up, in) ==
    /\ \A i \in DOMAIN up : ~Asked(c, up, Entering, i)
    /\ \A j \in DOMAIN in : ~Answered(c, in, Entering, j)
    /\ \A s \in Slot : ~Current(c, s, {"connecting"})

LEMMA CalmerCurrent ==
    ASSUME NEW c, NEW d, ClientOK(c), Calmer(c, d), NEW s \in Slot
    PROVE  /\ d.call[s].current => d.call[s] = c.call[s]
           /\ d.call[s].op \in {c.call[s].op, "none"}
           /\ d.call[s].op # "none" => d.call[s].room = c.call[s].room
<1>1. c.call[s] \in Call
  BY DEF ClientOK
<1>2. CASE d.call[s] = c.call[s]
  BY <1>2
<1>3. CASE d.call[s] = Idle
  BY <1>3 DEF Idle
<1>4. CASE d.call[s] = [c.call[s] EXCEPT !.current = FALSE]
  BY <1>1, <1>4 DEF Call
<1> QED
  BY <1>2, <1>3, <1>4 DEF Calmer

(* Of a client whose calls were ended or overtaken, and that may have read  *)
(* the first message, nothing more is claimed than before.                  *)
LEMMA ForgettingIsSound ==
    ASSUME NEW c, NEW conn \in BOOLEAN, NEW up, NEW in, NEW srv,
           Sound(c, conn, up, in, srv),
           NEW d, ClientOK(d), Sensible(d), Calmer(c, d),
           NEW rest, (rest = in) \/ (in # <<>> /\ rest = Tail(in)),
           \/ d.pending \in {"none", c.pending}
           \/ c.pending # "none"
           \/ NoneLive(d, up, rest),
           d.membership = "active" =>
              \A s \in Slot : ~Current(d, s, {"connecting"}),
           LeavesClaimed(d, up),
           "leave" \notin Gap => Stays(d, up, rest, srv)
    PROVE  Sound(d, conn, up, rest, srv)
<1>1. Typed(c, up, in, srv)
  BY DEF Sound
<1>2. /\ ClientOK(c) /\ up \in Seq(Request) /\ in \in Seq(Message)
      /\ ServerOK(srv)
  BY <1>1 DEF Typed
<1>3. PICK k \in {0, 1} :
         /\ rest \in Seq(Message)
         /\ DOMAIN rest = 1..(Len(in) - k) /\ Len(in) \in Nat
         /\ DOMAIN in = 1..Len(in)
         /\ \A j \in DOMAIN rest : j + k \in DOMAIN in /\ rest[j] = in[j + k]
  <2>1. CASE rest = in
    BY <1>2, <2>1
  <2>2. CASE in # <<>> /\ rest = Tail(in)
    BY <1>2, <2>2, TailFacts
  <2> QED
    BY <2>1, <2>2
<1>4. /\ \A i \in DOMAIN up : up[i] \in Request /\ up[i].slot \in Slot
      /\ \A j \in DOMAIN in : in[j] \in Message
      /\ \A j \in DOMAIN in : in[j].type = "answer" => in[j].slot \in Slot
  BY <1>2 DEF Request, Message, Reaction, Notice
<1>5. Typed(d, up, rest, srv)
  BY <1>2, <1>3 DEF Typed
<1>6. ASSUME NEW ops, NEW i \in DOMAIN up, Asked(d, up, ops, i)
      PROVE  Asked(c, up, ops, i)
  BY <1>2, <1>4, <1>6, CalmerCurrent DEF Asked, Current
<1>7. ASSUME NEW ops, NEW j \in DOMAIN rest, Answered(d, rest, ops, j)
      PROVE  /\ Answered(c, in, ops, j + k) /\ in[j + k].slot = rest[j].slot
             /\ j + k \in DOMAIN in
  <2>1. j + k \in DOMAIN in /\ rest[j] = in[j + k] /\ rest[j].slot \in Slot
    BY <1>3, <1>4, <1>7 DEF Answered
  <2>2. Current(c, rest[j].slot, ops)
    BY <1>2, <1>7, <2>1, CalmerCurrent DEF Answered, Current
  <2> QED
    BY <1>7, <2>1, <2>2 DEF Answered
<1>8. InOrder(conn, up, rest, srv)
  BY <1>3 DEF Sound, InOrder
<1>9. Matched(d, up, rest)
  <2>1. Matched(c, up, in)
    BY DEF Sound
  <2>2. ASSUME NEW i \in DOMAIN up, d.call[up[i].slot].op # "none"
        PROVE  /\ d.call[up[i].slot].op = up[i].op
               /\ d.call[up[i].slot].room = up[i].room
    BY <1>2, <1>4, <2>1, <2>2, CalmerCurrent DEF Matched
  <2>3. ASSUME NEW j \in DOMAIN rest, rest[j].type = "answer"
        PROVE  /\ d.call[rest[j].slot].op # "connecting"
               /\ d.call[rest[j].slot].op \in {"join", "rejoin", "restore"}
                     => d.call[rest[j].slot].room = rest[j].room
    <3>1. j + k \in DOMAIN in /\ rest[j] = in[j + k] /\ rest[j].slot \in Slot
      BY <1>3, <1>4, <2>3
    <3>2. /\ c.call[rest[j].slot].op # "connecting"
          /\ c.call[rest[j].slot].op \in {"join", "rejoin", "restore"}
                => c.call[rest[j].slot].room = rest[j].room
      BY <2>1, <2>3, <3>1 DEF Matched
    <3> QED
      BY <1>2, <3>1, <3>2, CalmerCurrent
  <2> QED
    BY <2>2, <2>3 DEF Matched
<1>10. OnePerSlot(up, rest)
  <2>1. OnePerSlot(up, in)
    BY DEF Sound
  <2>2. ASSUME NEW i \in DOMAIN rest, NEW j \in DOMAIN rest, i # j,
               rest[i].type = "answer"
        PROVE  rest[i].slot # rest[j].slot
    <3>1. i + k \in DOMAIN in /\ j + k \in DOMAIN in /\ i + k # j + k
      BY <1>3, <2>2
    <3> QED
      BY <1>3, <2>1, <2>2, <3>1 DEF OnePerSlot
  <2>3. ASSUME NEW i \in DOMAIN up, NEW j \in DOMAIN rest
        PROVE  up[i].slot # rest[j].slot
    BY <1>3, <2>1 DEF OnePerSlot
  <2> QED
    BY <2>1, <2>2, <2>3 DEF OnePerSlot
<1>11. OneAtATime(d, up, rest)
  <2>1. OneAtATime(c, up, in)
    BY DEF Sound
  <2>2. CASE NoneLive(d, up, rest)
    BY <2>2 DEF NoneLive, OneAtATime
  <2>3. CASE d.pending \in {"none", c.pending} \/ c.pending # "none"
    <3>1. ASSUME NEW s \in Slot, Sole(c, s)
          PROVE  Sole(d, s)
      <4>1. d.pending = "none"
        BY <2>3, <3>1 DEF Sole
      <4>2. ASSUME NEW t \in Slot, t # s, d.call[t].current
            PROVE  d.call[t].op \in Question
        BY <1>2, <3>1, <4>2, CalmerCurrent DEF Sole
      <4> QED
        BY <4>1, <4>2 DEF Sole
    <3>2. ASSUME NEW i \in DOMAIN up, Asked(d, up, Entering, i)
          PROVE  Sole(d, up[i].slot)
      BY <1>4, <1>6, <2>1, <3>1, <3>2 DEF OneAtATime
    <3>3. ASSUME NEW j \in DOMAIN rest, Answered(d, rest, Entering, j)
          PROVE  Sole(d, rest[j].slot)
      <4>1. Sole(c, rest[j].slot)
        BY <1>7, <2>1, <3>3 DEF OneAtATime
      <4>2. rest[j].slot \in Slot
        BY <1>3, <1>4, <3>3 DEF Answered
      <4> QED
        BY <3>1, <4>1, <4>2
    <3>4. ASSUME NEW s \in Slot, Current(d, s, {"connecting"})
          PROVE  Sole(d, s) /\ d.membership # "active"
      <4>1. Current(c, s, {"connecting"})
        BY <1>2, <3>4, CalmerCurrent DEF Current
      <4> QED
        BY <2>1, <3>1, <3>4, <4>1 DEF OneAtATime
    <3> QED
      BY <3>2, <3>3, <3>4 DEF OneAtATime
  <2> QED
    BY <2>2, <2>3
<1>12. LeavesFirst(d, up, rest)
  <2>1. LeavesFirst(c, up, in)
    BY DEF Sound
  <2> QED
    BY <1>6, <1>7, <2>1 DEF LeavesFirst
<1>13. ASSUME NEW j \in DOMAIN rest, Enters(d, rest, j)
       PROVE  Enters(c, in, j + k)
  <2>1. j + k \in DOMAIN in /\ rest[j] = in[j + k]
    BY <1>3
  <2>2. Answered(c, in, Activating, j + k) /\ in[j + k].ok
    BY <1>7, <1>13, <2>1 DEF Enters
  <2>3. ASSUME Answered(c, in, {"join"}, j + k) PROVE ~in[j + k].rejoin
    <3>1. Answered(d, rest, Activating, j)
      BY <1>13 DEF Enters
    <3>2. rest[j].slot \in Slot /\ d.call[rest[j].slot] = c.call[rest[j].slot]
      BY <1>2, <1>4, <2>1, <3>1, CalmerCurrent DEF Answered, Current
    <3>3. Answered(d, rest, {"join"}, j)
      BY <2>1, <2>3, <3>2 DEF Answered, Current
    <3> QED
      BY <1>13, <2>1, <3>3 DEF Enters
  <2> QED
    BY <2>2, <2>3 DEF Enters
<1>14. Lasting(d, up, rest, srv)
  <2>1. Lasting(c, up, in, srv)
    BY DEF Sound
  <2> QED
    BY <1>3, <1>13, <2>1 DEF Lasting, EntersToStay
<1>15. AnswersTrue(d, rest, srv)
  <2>1. AnswersTrue(c, in, srv)
    BY DEF Sound
  <2> SUFFICES ASSUME NEW j \in DOMAIN rest, Enters(d, rest, j)
               PROVE  /\ rest[j].room \in Room
                      /\ \/ srv.at["now"] = rest[j].room
                         \/ \E i \in DOMAIN rest :
                               i > j /\ Ending(rest, i, rest[j].room)
    BY DEF AnswersTrue
  <2>2. j + k \in DOMAIN in /\ rest[j] = in[j + k]
    BY <1>3
  <2>3. Enters(c, in, j + k)
    BY <1>13
  <2>4. CASE srv.at["now"] = in[j + k].room
    BY <2>1, <2>2, <2>3, <2>4 DEF AnswersTrue
  <2>5. ASSUME NEW i \in DOMAIN in, i > j + k, Ending(in, i, in[j + k].room)
        PROVE  \E h \in DOMAIN rest : h > j /\ Ending(rest, h, rest[j].room)
    <3>1. i - k \in DOMAIN rest /\ i - k > j /\ (i - k) + k = i
      <4>1. i \in 1..Len(in) /\ j \in 1..(Len(in) - k) /\ Len(in) \in Nat
        BY <1>3
      <4>2. i - k \in 1..(Len(in) - k) /\ i - k > j /\ (i - k) + k = i
        BY <2>5, <4>1
      <4> QED
        BY <1>3, <4>2
    <3>2. Ending(rest, i - k, rest[j].room)
      BY <1>3, <2>2, <2>5, <3>1 DEF Ending
    <3> QED
      BY <3>1, <3>2
  <2> QED
    BY <2>1, <2>2, <2>3, <2>4, <2>5 DEF AnswersTrue
<1> QED
  BY <1>5, <1>8, <1>9, <1>10, <1>11, <1>12, <1>15, <1>14 DEF Sound

-----------------------------------------------------------------------------
(* What a client asks for.                                                  *)

(* c with the call that request m belongs to, if anybody waits for it.      *)
Calling(c, m, awaited) ==
    IF awaited
    THEN [c EXCEPT !.call[m.slot] = [op |-> m.op, room |-> m.room, current |-> TRUE]]
    ELSE c

Unused(c, up, in, s) ==
    /\ c.call[s] = Idle
    /\ \A i \in DOMAIN up : up[i].slot # s
    /\ \A j \in DOMAIN in : in[j].slot # s

LEMMA CallingFields ==
    ASSUME NEW c, ClientOK(c), NEW m \in Request, NEW awaited \in BOOLEAN
    PROVE  LET d == Calling(c, m, awaited)
           IN  /\ ClientOK(d)
               /\ d.membership = c.membership /\ d.room = c.room
               /\ d.pending = c.pending /\ d.started = c.started
               /\ m.slot \in Slot
               /\ \A s \in Slot : s # m.slot => d.call[s] = c.call[s]
               /\ awaited => d.call[m.slot] =
                     [op |-> m.op, room |-> m.room, current |-> TRUE]
               /\ ~awaited => d.call[m.slot] = c.call[m.slot]
<1>1. m.slot \in Slot
  BY DEF Request
<1>2. [op |-> m.op, room |-> m.room, current |-> TRUE] \in Call
  BY DEF Request, Call
<1>3. c.call \in [Slot -> Call]
  BY DEF ClientOK
<1> QED
  BY <1>1, <1>2, <1>3 DEF ClientOK, Calling

LEMMA AppendFacts ==
    ASSUME NEW S, NEW s \in Seq(S), NEW m \in S
    PROVE  /\ s \o <<m>> \in Seq(S)
           /\ DOMAIN s = 1..Len(s) /\ Len(s) \in Nat
           /\ DOMAIN (s \o <<m>>) = 1..(Len(s) + 1)
           /\ \A i \in 1..Len(s) : (s \o <<m>>)[i] = s[i]
           /\ (s \o <<m>>)[Len(s) + 1] = m
OBVIOUS

LEMMA CallingIsSound ==
    ASSUME NEW c, NEW conn, NEW up, NEW in, NEW srv, Sound(c, conn, up, in, srv),
           NEW m \in Request, m.on = "now", NEW awaited \in BOOLEAN,
           Unused(c, up, in, m.slot),
           m.op \in {"leave", "dissolve"} => m.room \in Room,
           awaited => c.started,
           awaited /\ m.op \notin Question => NoneLive(c, up, in),
           awaited /\ m.op \in Entering => Sole(c, m.slot),
           m.op = "leave" =>
              /\ awaited
              /\ \A i \in DOMAIN up : ~Asked(c, up, Activating, i)
              /\ \A j \in DOMAIN in : ~Answered(c, in, Activating, j),
           m.op = "restore" /\ "leave" \notin Gap =>
              ~srv.departed /\ \A j \in DOMAIN up : up[j].op # "leave"
    PROVE  Sound(Calling(c, m, awaited), TRUE, up \o <<m>>, in, srv)
<1> DEFINE d == Calling(c, m, awaited)
           new == up \o <<m>>
           n == Len(up) + 1
<1>1. /\ ClientOK(c) /\ up \in Seq(Request) /\ in \in Seq(Message)
      /\ ServerOK(srv)
  BY DEF Sound, Typed
<1>2. /\ ClientOK(d)
      /\ d.membership = c.membership /\ d.room = c.room
      /\ d.pending = c.pending /\ d.started = c.started
      /\ m.slot \in Slot
      /\ \A s \in Slot : s # m.slot => d.call[s] = c.call[s]
      /\ awaited => d.call[m.slot] =
            [op |-> m.op, room |-> m.room, current |-> TRUE]
      /\ ~awaited => d.call[m.slot] = c.call[m.slot]
  BY <1>1, CallingFields
<1>3. /\ new \in Seq(Request)
      /\ DOMAIN up = 1..Len(up) /\ Len(up) \in Nat
      /\ DOMAIN new = 1..n
      /\ \A i \in DOMAIN up : new[i] = up[i] /\ i \in DOMAIN new /\ i < n
      /\ new[n] = m
  BY <1>1, AppendFacts
<1>4. /\ \A i \in DOMAIN up : up[i].slot \in Slot /\ up[i].slot # m.slot
      /\ \A j \in DOMAIN in : in[j].type = "answer" => in[j].slot \in Slot
      /\ \A j \in DOMAIN in : in[j].slot # m.slot
  BY <1>1 DEF Request, Message, Reaction, Notice, Unused
<1>5. \A i \in DOMAIN new : i \in DOMAIN up \/ i = n
  BY <1>3
<1>6. c.call[m.slot] = Idle
  BY DEF Unused
<1> HIDE DEF d, new, n
<1>7. ASSUME NEW ops, NEW i \in DOMAIN up
      PROVE  Asked(d, new, ops, i) <=> Asked(c, up, ops, i)
  BY <1>2, <1>3, <1>4 DEF Asked, Current
<1>8. ASSUME NEW ops, NEW j \in DOMAIN in
      PROVE  Answered(d, in, ops, j) <=> Answered(c, in, ops, j)
  BY <1>2, <1>4 DEF Answered, Current
<1>9. ASSUME NEW ops, Asked(d, new, ops, n)
      PROVE  awaited /\ m.op \in ops
  BY <1>2, <1>3, <1>6, <1>9 DEF Asked, Current, Idle
<1>10. Typed(d, new, in, srv)
  BY <1>1, <1>2, <1>3 DEF Typed
<1>11. InOrder(TRUE, new, in, srv)
  <2>1. InOrder(conn, up, in, srv)
    BY DEF Sound
  <2> QED
    BY <1>3, <1>5, <2>1 DEF InOrder
<1>12. Sensible(d)
  <2>1. Sensible(c)
    BY DEF Sound
  <2>2. m.op \in {"join", "rejoin", "restore"} => m.room \in Room
    BY DEF Request
  <2>3. m.op # "connecting"
    BY DEF Request, Operation, Question
  <2>4. ASSUME NEW s \in Slot,
               d.call[s].op \in {"join", "rejoin", "restore", "leave", "dissolve", "connecting"}
        PROVE  d.call[s].room \in Room
    <3>1. CASE s = m.slot /\ awaited
      BY <1>2, <2>2, <2>3, <2>4, <3>1
    <3>2. CASE ~(s = m.slot /\ awaited)
      BY <1>2, <2>1, <2>4, <3>2 DEF Sensible
    <3> QED
      BY <3>1, <3>2
  <2> QED
    BY <1>2, <1>6, <2>1, <2>4 DEF Sensible
<1>13. Matched(d, new, in)
  <2>1. Matched(c, up, in)
    BY DEF Sound
  <2>2. ASSUME NEW i \in DOMAIN new, d.call[new[i].slot].op # "none"
        PROVE  /\ d.call[new[i].slot].op = new[i].op
               /\ d.call[new[i].slot].room = new[i].room
    <3>1. CASE i = n
      BY <1>2, <1>3, <1>6, <2>2, <3>1 DEF Idle
    <3>2. CASE i \in DOMAIN up
      BY <1>2, <1>3, <1>4, <2>1, <2>2, <3>2 DEF Matched
    <3> QED
      BY <1>5, <3>1, <3>2
  <2>3. ASSUME NEW j \in DOMAIN in, in[j].type = "answer"
        PROVE  d.call[in[j].slot] = c.call[in[j].slot]
    BY <1>2, <1>4, <2>3
  <2> QED
    BY <2>1, <2>2, <2>3 DEF Matched
<1>14. OnePerSlot(new, in)
  <2>1. OnePerSlot(up, in)
    BY DEF Sound
  <2>2. ASSUME NEW i \in DOMAIN new, NEW j \in DOMAIN new, i # j
        PROVE  new[i].slot # new[j].slot
    BY <1>3, <1>4, <1>5, <2>1, <2>2 DEF OnePerSlot
  <2>3. ASSUME NEW i \in DOMAIN new, NEW j \in DOMAIN in
        PROVE  new[i].slot # in[j].slot
    BY <1>3, <1>4, <1>5, <2>1 DEF OnePerSlot
  <2> QED
    BY <2>1, <2>2, <2>3 DEF OnePerSlot
<1>15. OneAtATime(d, new, in)
  <2>1. OneAtATime(c, up, in)
    BY DEF Sound
  <2>2. ASSUME NEW s \in Slot, s # m.slot, Sole(c, s),
               ~awaited \/ m.op \in Question
        PROVE  Sole(d, s)
    <3>1. ASSUME NEW t \in Slot, t # s, d.call[t].current
          PROVE  d.call[t].op \in Question
      BY <1>2, <2>2, <3>1 DEF Sole
    <3> QED
      BY <1>2, <2>2, <3>1 DEF Sole
  <2>3. ASSUME NEW i \in DOMAIN new, Asked(d, new, Entering, i)
        PROVE  Sole(d, new[i].slot)
    <3>1. CASE i = n
      <4>1. awaited /\ m.op \in Entering
        BY <1>9, <2>3, <3>1
      <4>2. Sole(c, m.slot)
        BY <4>1
      <4>3. Sole(d, m.slot)
        BY <1>2, <4>2 DEF Sole
      <4> QED
        BY <1>3, <3>1, <4>3
    <3>2. CASE i \in DOMAIN up
      <4>1. Asked(c, up, Entering, i)
        BY <1>7, <2>3, <3>2
      <4>2. ~awaited \/ m.op \in Question
        BY <3>2, <4>1 DEF NoneLive
      <4> QED
        BY <1>3, <1>4, <2>1, <2>2, <3>2, <4>1, <4>2 DEF OneAtATime
    <3> QED
      BY <1>5, <3>1, <3>2
  <2>4. ASSUME NEW j \in DOMAIN in, Answered(d, in, Entering, j)
        PROVE  Sole(d, in[j].slot)
    <3>1. Answered(c, in, Entering, j)
      BY <1>8, <2>4
    <3>2. ~awaited \/ m.op \in Question
      BY <3>1 DEF NoneLive
    <3>3. in[j].slot \in Slot /\ in[j].slot # m.slot
      BY <1>4, <3>1 DEF Answered
    <3> QED
      BY <2>1, <2>2, <3>1, <3>2, <3>3 DEF OneAtATime
  <2>5. ASSUME NEW s \in Slot, Current(d, s, {"connecting"})
        PROVE  Sole(d, s) /\ d.membership # "active"
    <3>1. s # m.slot
      <4>1. m.op # "connecting"
        BY DEF Request, Operation, Question
      <4> QED
        BY <1>2, <1>6, <2>5, <4>1 DEF Current, Idle
    <3>2. Current(c, s, {"connecting"})
      BY <1>2, <2>5, <3>1 DEF Current
    <3>3. ~awaited \/ m.op \in Question
      BY <3>2 DEF NoneLive
    <3> QED
      BY <1>2, <2>1, <2>2, <3>1, <3>2, <3>3 DEF OneAtATime
  <2> QED
    BY <2>3, <2>4, <2>5 DEF OneAtATime
<1>16. LeavesClaimed(d, new)
  <2>1. LeavesClaimed(c, up)
    BY DEF Sound
  <2>2. ASSUME NEW i \in DOMAIN new, Leaving(new, i), d.membership = "active"
        PROVE  Current(d, new[i].slot, {"leave"})
    <3>1. CASE i = n
      BY <1>2, <1>3, <2>2, <3>1 DEF Leaving, Current
    <3>2. CASE i \in DOMAIN up
      <4>1. Leaving(up, i) /\ c.membership = "active"
        BY <1>2, <1>3, <2>2, <3>2 DEF Leaving
      <4>2. Current(c, up[i].slot, {"leave"})
        BY <2>1, <3>2, <4>1 DEF LeavesClaimed
      <4> QED
        BY <1>2, <1>3, <1>4, <3>2, <4>2 DEF Current
    <3> QED
      BY <1>5, <3>1, <3>2
  <2> QED
    BY <2>2 DEF LeavesClaimed
<1>17. LeavesFirst(d, new, in)
  <2>1. LeavesFirst(c, up, in)
    BY DEF Sound
  <2>2. ASSUME NEW j \in DOMAIN new, Leaving(new, j)
        PROVE  \/ j \in DOMAIN up /\ Leaving(up, j)
               \/ j = n /\ m.op = "leave"
    BY <1>3, <1>5, <2>2 DEF Leaving
  <2>3. ASSUME NEW i \in DOMAIN new, NEW j \in DOMAIN new,
               Asked(d, new, Activating, i), Leaving(new, j)
        PROVE  j < i
    <3>1. CASE i \in DOMAIN up
      BY <1>3, <1>7, <2>1, <2>2, <2>3, <3>1 DEF LeavesFirst
    <3>2. CASE i = n
      <4>1. m.op # "leave"
        BY <1>9, <2>3, <3>2 DEF Activating
      <4> QED
        BY <1>3, <2>2, <2>3, <3>2, <4>1
    <3> QED
      BY <1>5, <3>1, <3>2
  <2>4. ASSUME NEW i \in DOMAIN new, NEW j \in DOMAIN in,
               Answered(d, in, Activating, j)
        PROVE  ~Leaving(new, i)
    BY <1>8, <2>1, <2>2, <2>4 DEF LeavesFirst
  <2> QED
    BY <2>3, <2>4 DEF LeavesFirst
<1>18. AnswersTrue(d, in, srv)
  <2>1. AnswersTrue(c, in, srv)
    BY DEF Sound
  <2>2. ASSUME NEW j \in DOMAIN in, Enters(d, in, j)
        PROVE  Enters(c, in, j)
    BY <1>8, <2>2 DEF Enters
  <2> QED
    BY <2>1, <2>2 DEF AnswersTrue
<1>19. Lasting(d, new, in, srv)
  <2> SUFFICES ASSUME "leave" \notin Gap
               PROVE  /\ Stays(d, new, in, srv)
                      /\ EntersToStay(d, new, in, srv)
                      /\ RestoresNobodyElse(new, srv)
    BY DEF Lasting
  <2>1. /\ Stays(c, up, in, srv)
        /\ EntersToStay(c, up, in, srv)
        /\ RestoresNobodyElse(up, srv)
    BY DEF Sound, Lasting
  <2>2. NoneLeftOver(up) => NoneLeftOver(new)
    BY <1>3, <1>5 DEF NoneLeftOver
  <2>3. Stays(d, new, in, srv)
    BY <1>2, <1>8, <2>1, <2>2 DEF Stays
  <2>4. ASSUME NEW j \in DOMAIN in, Enters(d, in, j)
        PROVE  Enters(c, in, j)
    BY <1>8, <2>4 DEF Enters
  <2>5. EntersToStay(d, new, in, srv)
    BY <2>1, <2>2, <2>4 DEF EntersToStay
  <2>6. ASSUME NEW i \in DOMAIN new, new[i].op = "restore"
        PROVE  /\ ~srv.departed
               /\ \A j \in DOMAIN new : new[j].op = "leave" => i < j
    <3>1. CASE i \in DOMAIN up
      BY <1>3, <1>5, <2>1, <2>6, <3>1 DEF RestoresNobodyElse
    <3>2. CASE i = n
      BY <1>3, <1>5, <2>6, <3>2
    <3> QED
      BY <1>5, <3>1, <3>2
  <2>7. RestoresNobodyElse(new, srv)
    BY <2>6 DEF RestoresNobodyElse
  <2> QED
    BY <2>3, <2>5, <2>7
<1> QED
  BY <1>10, <1>11, <1>12, <1>13, <1>14, <1>15, <1>16, <1>17, <1>18, <1>19
     DEF Sound, d, new

LEMMA CallingIsBacked ==
    ASSUME NEW c, NEW up, NEW in \in Seq(Message), NEW srv, ClientOK(c),
           Backed(c, in, srv),
           NEW m \in Request, NEW awaited \in BOOLEAN, Unused(c, up, in, m.slot)
    PROVE  Backed(Calling(c, m, awaited), in, srv)
<1> DEFINE d == Calling(c, m, awaited)
<1>1. /\ d.membership = c.membership /\ d.room = c.room
      /\ m.slot \in Slot
      /\ \A s \in Slot : s # m.slot => d.call[s] = c.call[s]
  BY CallingFields
<1>2. c.call[m.slot] = Idle /\ \A j \in DOMAIN in : in[j].slot # m.slot
  BY DEF Unused
<1>3. \A j \in DOMAIN in : in[j].type = "answer" => in[j].slot \in Slot
  BY DEF Message, Reaction, Notice
<1> HIDE DEF d
<1>4. ASSUME NEW s \in Slot, Current(c, s, {"restore"})
      PROVE  d.call[s] = c.call[s]
  BY <1>1, <1>2, <1>4 DEF Current, Idle
<1>5. ASSUME NEW j \in DOMAIN in, Answered(c, in, {"leave"}, j)
      PROVE  Answered(d, in, {"leave"}, j)
  BY <1>1, <1>2, <1>3, <1>5 DEF Answered, Current
<1>6. Backed(d, in, srv)
  BY <1>1, <1>4, <1>5 DEF Backed, Current
<1> QED
  BY <1>6 DEF d

-----------------------------------------------------------------------------
(* What the server tells.                                                   *)

(* What arrives at the client: notices, and at last the answer to a request *)
(* of the connection there is.                                              *)
Heard(in, conn, told, on, answer) ==
    in \o (IF conn THEN told \o IF on = "now" THEN <<answer>> ELSE <<>> ELSE <<>>)

LEMMA ConcatFacts ==
    ASSUME NEW S, NEW s \in Seq(S), NEW t \in Seq(S)
    PROVE  /\ s \o t \in Seq(S)
           /\ Len(s \o t) = Len(s) + Len(t)
           /\ \A k \in 1..Len(s) : (s \o t)[k] = s[k]
           /\ \A k \in 1..Len(t) : (s \o t)[Len(s) + k] = t[k]
<1>1. ASSUME NEW k \in 1..Len(t)
      PROVE  (s \o t)[Len(s) + k] = t[k]
  <2>1. Len(s) + k \in 1..(Len(s) + Len(t)) /\ ~(Len(s) + k <= Len(s))
        /\ (Len(s) + k) - Len(s) = k
    OBVIOUS
  <2>2. (s \o t)[Len(s) + k] = t[(Len(s) + k) - Len(s)]
    BY <2>1
  <2> QED
    BY <2>1, <2>2
<1> QED
  BY <1>1

LEMMA HeardFacts ==
    ASSUME NEW in \in Seq(Message), NEW conn \in BOOLEAN, NEW told \in Seq(Notice),
           NEW on, NEW answer, on = "now" => answer \in Reaction
    PROVE  LET more == Heard(in, conn, told, on, answer)
           IN  /\ more \in Seq(Message)
               /\ ~conn => more = in
               /\ \A j \in DOMAIN in : j \in DOMAIN more /\ more[j] = in[j]
               /\ \A j \in DOMAIN more \ DOMAIN in :
                     /\ \A k \in DOMAIN in : j > k
                     /\ conn
                     /\ \/ more[j] \in Notice
                        \/ on = "now" /\ more[j] = answer /\ j = Len(more)
               /\ conn => \A k \in DOMAIN told :
                             \E j \in DOMAIN more \ DOMAIN in : more[j] = told[k]
               /\ conn /\ on = "now" => /\ Len(more) \in DOMAIN more \ DOMAIN in
                                        /\ more[Len(more)] = answer
<1> DEFINE reply == IF on = "now" THEN <<answer>> ELSE <<>>
           news == told \o reply
           more == Heard(in, conn, told, on, answer)
<1>1. CASE ~conn
  BY <1>1 DEF Heard
<1>2. CASE conn
  <2>1. /\ reply \in Seq(Message)
        /\ Len(reply) = IF on = "now" THEN 1 ELSE 0
        /\ on = "now" => reply[1] = answer
    <3>1. CASE on = "now"
      <4>1. reply = <<answer>> /\ answer \in Message
        BY <3>1 DEF Message
      <4> QED
        BY <3>1, <4>1
    <3>2. CASE on # "now"
      BY <3>2
    <3> QED
      BY <3>1, <3>2
  <2>2. told \in Seq(Message)
    BY DEF Message
  <2> HIDE DEF reply
  <2>3. /\ news \in Seq(Message) /\ Len(news) = Len(told) + Len(reply)
        /\ \A k \in 1..Len(told) : news[k] = told[k]
        /\ on = "now" => news[Len(told) + 1] = answer
    <3>1. /\ news \in Seq(Message) /\ Len(news) = Len(told) + Len(reply)
          /\ \A k \in 1..Len(told) : news[k] = told[k]
          /\ \A k \in 1..Len(reply) : news[Len(told) + k] = reply[k]
      BY <2>1, <2>2, ConcatFacts
    <3> QED
      BY <2>1, <3>1
  <2>4. more = in \o news
    BY <1>2 DEF Heard, reply
  <2>5. Len(told) \in Nat /\ Len(in) \in Nat /\ Len(news) \in Nat
    BY <2>3
  <2> HIDE DEF news, more
  <2>6. /\ more \in Seq(Message) /\ Len(more) = Len(in) + Len(news)
        /\ \A j \in 1..Len(in) : more[j] = in[j]
        /\ \A k \in 1..Len(news) : more[Len(in) + k] = news[k]
    <3>1. /\ in \o news \in Seq(Message) /\ Len(in \o news) = Len(in) + Len(news)
          /\ \A j \in 1..Len(in) : (in \o news)[j] = in[j]
          /\ \A k \in 1..Len(news) : (in \o news)[Len(in) + k] = news[k]
      <4>1. ASSUME NEW s \in Seq(Message), NEW t \in Seq(Message)
            PROVE  /\ s \o t \in Seq(Message) /\ Len(s \o t) = Len(s) + Len(t)
                   /\ \A j \in 1..Len(s) : (s \o t)[j] = s[j]
                   /\ \A k \in 1..Len(t) : (s \o t)[Len(s) + k] = t[k]
        BY ConcatFacts
      <4>2. in \in Seq(Message) /\ news \in Seq(Message)
        BY <2>3
      <4> QED
        BY <4>1, <4>2
    <3> QED
      BY <2>4, <3>1
  <2>7. /\ DOMAIN more = 1..Len(more) /\ DOMAIN in = 1..Len(in)
        /\ DOMAIN told = 1..Len(told)
    BY <2>6
  <2>8. ASSUME NEW j \in DOMAIN in
        PROVE  j \in DOMAIN more /\ more[j] = in[j]
    BY <2>5, <2>6, <2>7
  <2>9. ASSUME NEW j \in DOMAIN more \ DOMAIN in
        PROVE  /\ \A k \in DOMAIN in : j > k
               /\ \/ more[j] \in Notice
                  \/ on = "now" /\ more[j] = answer /\ j = Len(more)
    <3>1. j \in Nat /\ j > Len(in) /\ j - Len(in) \in 1..Len(news)
          /\ Len(in) + (j - Len(in)) = j
      BY <2>5, <2>6, <2>7, <2>9
    <3>2. more[j] = news[j - Len(in)]
      BY <2>6, <3>1
    <3>5. \A k \in DOMAIN in : j > k
      BY <2>5, <2>7, <3>1
    <3>3. CASE j - Len(in) \in 1..Len(told)
      <4>1. news[j - Len(in)] = told[j - Len(in)]
        BY <2>3, <3>3
      <4>2. told[j - Len(in)] \in Notice
        BY <3>3
      <4> QED
        BY <3>2, <3>5, <4>1, <4>2
    <3>4. CASE j - Len(in) \notin 1..Len(told)
      <4>1. on = "now" /\ j - Len(in) = Len(told) + 1
        BY <2>1, <2>3, <2>5, <3>1, <3>4
      <4>2. j = Len(more)
        BY <2>1, <2>3, <2>5, <2>6, <3>1, <4>1
      <4> QED
        BY <2>3, <3>2, <3>5, <4>1, <4>2
    <3> QED
      BY <3>3, <3>4
  <2>10. ASSUME NEW k \in DOMAIN told
         PROVE  \E j \in DOMAIN more \ DOMAIN in : more[j] = told[k]
    <3>1. k \in 1..Len(told) /\ k \in 1..Len(news)
      BY <2>1, <2>3, <2>5, <2>7
    <3>2. Len(in) + k \in DOMAIN more \ DOMAIN in
      BY <2>5, <2>6, <2>7, <3>1
    <3>3. more[Len(in) + k] = told[k]
      BY <2>3, <2>6, <3>1
    <3> QED
      BY <3>2, <3>3
  <2>11. ASSUME on = "now"
         PROVE  Len(more) \in DOMAIN more \ DOMAIN in /\ more[Len(more)] = answer
    <3>1. Len(news) = Len(told) + 1 /\ Len(news) \in 1..Len(news)
      BY <2>1, <2>3, <2>5, <2>11
    <3>2. more[Len(in) + Len(news)] = news[Len(news)]
      BY <2>6, <3>1
    <3>3. news[Len(news)] = answer
      BY <2>3, <2>11, <3>1
    <3> QED
      BY <2>5, <2>6, <2>7, <3>1, <3>2, <3>3
  <2> QED
    BY <1>2, <2>6, <2>8, <2>9, <2>10, <2>11 DEF more
<1> QED
  BY <1>1, <1>2

(* What happens without a request of the user: he may be put out of his     *)
(* room, and is told.                                                       *)
LEMMA NewsIsSound ==
    ASSUME NEW c, NEW conn \in BOOLEAN, NEW up, NEW in, NEW srv,
           Sound(c, conn, up, in, srv),
           NEW s, ServerOK(s), s.at["now"] \in {srv.at["now"], None},
           s.at["now"] # None => s.mine = s.at["now"],
           s.departed => srv.departed,
           NEW told \in Seq(Notice),
           s.at["now"] # srv.at["now"] =>
              \E k \in DOMAIN told : told[k].room = srv.at["now"]
    PROVE  LET more == in \o (IF conn THEN told ELSE <<>>)
           IN  /\ Sound(c, conn, up, more, s)
               /\ conn /\ Backed(c, in, srv) => Backed(c, more, s)
<1> DEFINE more == in \o (IF conn THEN told ELSE <<>>)
<1>1. /\ ClientOK(c) /\ up \in Seq(Request) /\ in \in Seq(Message)
  BY DEF Sound, Typed
<1>2. /\ more \in Seq(Message)
      /\ ~conn => more = in
      /\ \A j \in DOMAIN in : j \in DOMAIN more /\ more[j] = in[j]
      /\ \A j \in DOMAIN more \ DOMAIN in :
            /\ \A k \in DOMAIN in : j > k
            /\ conn /\ more[j] \in Notice
      /\ conn => \A k \in DOMAIN told :
                    \E j \in DOMAIN more \ DOMAIN in : more[j] = told[k]
  <2> DEFINE none == CHOOSE none : FALSE
             same == Heard(in, conn, told, "old", none)
  <2>1. same = more
    BY DEF Heard
  <2> HIDE DEF same, more
  <2>2. /\ same \in Seq(Message)
        /\ ~conn => same = in
        /\ \A j \in DOMAIN in : j \in DOMAIN same /\ same[j] = in[j]
        /\ \A j \in DOMAIN same \ DOMAIN in :
              /\ \A k \in DOMAIN in : j > k
              /\ conn /\ same[j] \in Notice
        /\ conn => \A k \in DOMAIN told :
                      \E j \in DOMAIN same \ DOMAIN in : same[j] = told[k]
    BY <1>1, HeardFacts DEF same
  <2> QED
    BY <2>1, <2>2
<1> HIDE DEF more
<1>3. /\ \A j \in DOMAIN more \ DOMAIN in : more[j].type = "ended" /\ more[j].slot = 0
      /\ \A k \in DOMAIN told : told[k].type = "ended"
      /\ \A i \in DOMAIN up : up[i].slot # 0
      /\ \A j \in DOMAIN in : in[j].type = "answer" => in[j].slot # 0
  <2>1. /\ \A m \in Notice : m.type = "ended" /\ m.slot = 0
        /\ \A m \in Message : m.type = "answer" => m.slot # 0
        /\ \A m \in Request : m.slot # 0
    BY DEF Notice, Request, Message, Reaction, Slot
  <2>2. /\ \A k \in DOMAIN told : told[k] \in Notice
        /\ \A i \in DOMAIN up : up[i] \in Request
        /\ \A j \in DOMAIN in : in[j] \in Message
    BY <1>1
  <2> QED
    BY <1>2, <2>1, <2>2
<1>4. ASSUME NEW ops, NEW j \in DOMAIN more, Answered(c, more, ops, j)
      PROVE  j \in DOMAIN in /\ Answered(c, in, ops, j)
  BY <1>2, <1>3, <1>4 DEF Answered
<1>5. ASSUME conn, s.at["now"] # srv.at["now"]
      PROVE  \E j \in DOMAIN more :
                (\A k \in DOMAIN in : j > k) /\ Ending(more, j, srv.at["now"])
  <2>1. PICK k \in DOMAIN told : told[k].room = srv.at["now"]
    BY <1>5
  <2>2. PICK j \in DOMAIN more \ DOMAIN in : more[j] = told[k]
    BY <1>2, <1>5
  <2> QED
    BY <1>2, <1>3, <2>1, <2>2 DEF Ending
<1>6. Typed(c, up, more, s)
  BY <1>1, <1>2 DEF Typed
<1>7. InOrder(conn, up, more, s)
  <2>1. InOrder(conn, up, in, srv)
    BY DEF Sound
  <2> QED
    BY <1>2, <2>1 DEF InOrder
<1>8. Matched(c, up, more)
  <2>1. Matched(c, up, in)
    BY DEF Sound
  <2> QED
    BY <1>2, <1>3, <2>1 DEF Matched
<1>9. OnePerSlot(up, more)
  <2>1. OnePerSlot(up, in)
    BY DEF Sound
  <2>2. ASSUME NEW i \in DOMAIN more, NEW j \in DOMAIN more, i # j,
               more[i].type = "answer"
        PROVE  more[i].slot # more[j].slot
    <3>1. i \in DOMAIN in /\ more[i] = in[i]
      BY <1>2, <1>3, <2>2
    <3>2. CASE j \in DOMAIN in
      BY <1>2, <2>1, <2>2, <3>1, <3>2 DEF OnePerSlot
    <3>3. CASE j \notin DOMAIN in
      BY <1>2, <1>3, <2>2, <3>1, <3>3
    <3> QED
      BY <3>2, <3>3
  <2>3. ASSUME NEW i \in DOMAIN up, NEW j \in DOMAIN more
        PROVE  up[i].slot # more[j].slot
    BY <1>2, <1>3, <2>1 DEF OnePerSlot
  <2> QED
    BY <2>1, <2>2, <2>3 DEF OnePerSlot
<1>10. OneAtATime(c, up, more)
  <2>1. OneAtATime(c, up, in)
    BY DEF Sound
  <2> QED
    BY <1>2, <1>4, <2>1 DEF OneAtATime
<1>11. LeavesFirst(c, up, more)
  <2>1. LeavesFirst(c, up, in)
    BY DEF Sound
  <2> QED
    BY <1>4, <2>1 DEF LeavesFirst
<1>12. AnswersTrue(c, more, s)
  <2>1. AnswersTrue(c, in, srv)
    BY DEF Sound
  <2> SUFFICES ASSUME NEW j \in DOMAIN more, Enters(c, more, j)
               PROVE  /\ more[j].room \in Room
                      /\ \/ s.at["now"] = more[j].room
                         \/ \E i \in DOMAIN more :
                               i > j /\ Ending(more, i, more[j].room)
    BY DEF AnswersTrue
  <2>2. j \in DOMAIN in /\ more[j] = in[j]
    BY <1>2, <1>4 DEF Enters
  <2>3. Enters(c, in, j)
    BY <2>2 DEF Enters, Answered
  <2>4. conn
    <3>1. InOrder(conn, up, in, srv)
      BY DEF Sound
    <3> QED
      BY <2>2, <3>1 DEF InOrder
  <2>5. CASE srv.at["now"] = in[j].room /\ s.at["now"] # srv.at["now"]
    BY <1>5, <2>1, <2>2, <2>3, <2>4, <2>5 DEF AnswersTrue
  <2>6. CASE \E i \in DOMAIN in : i > j /\ Ending(in, i, in[j].room)
    BY <1>2, <2>1, <2>2, <2>3, <2>6 DEF AnswersTrue, Ending
  <2> QED
    BY <2>1, <2>2, <2>3, <2>5, <2>6 DEF AnswersTrue
<1>13. ASSUME conn, Backed(c, in, srv)
       PROVE  Backed(c, more, s)
  BY <1>2, <1>5, <1>13 DEF Backed, Ending, Answered
<1>14. Lasting(c, up, more, s)
  <2>1. Lasting(c, up, in, srv)
    BY DEF Sound
  <2>2. Stays(c, up, in, srv) => Stays(c, up, more, s)
    BY <1>2 DEF Stays, Answered
  <2>3. ASSUME NEW j \in DOMAIN more, Enters(c, more, j)
        PROVE  j \in DOMAIN in /\ Enters(c, in, j)
    BY <1>2, <1>4, <2>3 DEF Enters, Answered
  <2>4. EntersToStay(c, up, in, srv) => EntersToStay(c, up, more, s)
    BY <2>3 DEF EntersToStay
  <2>5. RestoresNobodyElse(up, srv) => RestoresNobodyElse(up, s)
    BY DEF RestoresNobodyElse
  <2> QED
    BY <2>1, <2>2, <2>4, <2>5 DEF Lasting
<1>15. Sound(c, conn, up, more, s)
  BY <1>6, <1>7, <1>8, <1>9, <1>10, <1>11, <1>12, <1>14 DEF Sound, LeavesClaimed
<1> QED
  BY <1>13, <1>15 DEF more

-----------------------------------------------------------------------------
(* What the server handles.                                                 *)

(* Request i was preceded by questions only.                                *)
InTurn(up, i) == \A k \in 1..(i - 1) : up[k].op \in Question

LEMMA HandledIsSound ==
    ASSUME NEW c, NEW conn \in BOOLEAN, NEW up, NEW in, NEW srv,
           Sound(c, conn, up, in, srv),
           NEW i \in 1..Len(up), NEW m, m = up[i],
           m.on = "now" /\ m.op \in Activating => InTurn(up, i),
           NEW s, ServerOK(s),
           s.at["now"] # None => s.mine = s.at["now"],
           s.at["now"] \notin {srv.at["now"], None} => m.on = "now" /\ InTurn(up, i),
           NEW told \in Seq(Notice), NEW answer \in Reaction, answer.slot = m.slot,
           srv.at["now"] \notin {s.at["now"], None} =>
              \/ \E k \in DOMAIN told : told[k].room = srv.at["now"]
              \/ Leaving(up, i) /\ answer.ok,
           m.op \in {"join", "rejoin", "restore"} => answer.room = m.room,
           m.on = "now" /\ m.op \in Activating /\ answer.ok /\ (m.op = "join" => ~answer.rejoin)
              => s.at["now"] = answer.room /\ answer.room \in Room /\ ~s.departed,
           s.departed => \/ srv.departed
                         \/ m.op = "leave" /\ answer.ok /\ InTurn(up, i)
    PROVE  LET more == Heard(in, conn, told, m.on, answer)
           IN  /\ Sound(c, conn, RemoveAt(up, i), more, s)
               /\ conn /\ Backed(c, in, srv) => Backed(c, more, s)
<1> DEFINE more == Heard(in, conn, told, m.on, answer)
           left == RemoveAt(up, i)
           was(k) == IF k < i THEN k ELSE k + 1
<1>1. /\ ClientOK(c) /\ up \in Seq(Request) /\ in \in Seq(Message) /\ ServerOK(srv)
  BY DEF Sound, Typed
<1>2. /\ more \in Seq(Message)
      /\ ~conn => more = in
      /\ \A j \in DOMAIN in : j \in DOMAIN more /\ more[j] = in[j]
      /\ \A j \in DOMAIN more \ DOMAIN in :
            /\ \A k \in DOMAIN in : j > k
            /\ conn
            /\ \/ more[j] \in Notice
               \/ m.on = "now" /\ more[j] = answer /\ j = Len(more)
      /\ conn => \A k \in DOMAIN told :
                    \E j \in DOMAIN more \ DOMAIN in : more[j] = told[k]
      /\ conn /\ m.on = "now" => /\ Len(more) \in DOMAIN more \ DOMAIN in
                                 /\ more[Len(more)] = answer
  BY <1>1, HeardFacts, SMTT(90)
<1>3. /\ left \in Seq(Request)
      /\ DOMAIN up = 1..Len(up) /\ i \in DOMAIN up
      /\ \A k \in DOMAIN left : /\ was(k) \in DOMAIN up /\ was(k) # i
                                /\ left[k] = up[was(k)]
      /\ \A h, k \in DOMAIN left : h < k => was(h) < was(k)
      /\ \A h, k \in DOMAIN left : was(h) < was(k) => h < k
      /\ \A h, k \in DOMAIN left : h # k => was(h) # was(k)
  <2>1. /\ left \in Seq(Request)
        /\ DOMAIN left = 1..(Len(up) - 1)
        /\ \A k \in 1..(Len(up) - 1) : left[k] = IF k < i THEN up[k] ELSE up[k + 1]
    BY <1>1, RemoveAtFacts
  <2>2. DOMAIN up = 1..Len(up) /\ Len(up) \in Nat
    BY <1>1
  <2> QED
    BY <2>1, <2>2
<1> HIDE DEF more, left, was
<1>4. /\ \A j \in DOMAIN in : in[j] \in Message
      /\ \A j \in DOMAIN in : in[j].type = "answer" => in[j].slot \in Slot
      /\ \A k \in DOMAIN up : up[k] \in Request /\ up[k].slot \in Slot /\ up[k].slot # 0
      /\ m \in Request /\ m.slot \in Slot
      /\ answer.type = "answer" /\ answer \in Message
      /\ \A n \in Notice : n.type = "ended" /\ n.slot = 0
      /\ \A j \in DOMAIN in : in[j].type = "answer" => in[j].slot # 0
  <2>1. /\ \A n \in Notice : n.type = "ended" /\ n.slot = 0
        /\ \A n \in Message : n.type = "answer" => n.slot \in Slot
        /\ \A n \in Request : n.slot \in Slot
        /\ \A n \in Reaction : n.type = "answer" /\ n \in Message
        /\ 0 \notin Slot
    BY DEF Notice, Request, Message, Reaction, Slot
  <2>2. /\ \A k \in DOMAIN up : up[k] \in Request
        /\ \A j \in DOMAIN in : in[j] \in Message
    BY <1>1
  <2> QED
    BY <1>3, <2>1, <2>2
<1>5. \A k \in DOMAIN told : told[k] \in Notice
  OBVIOUS
<1>6. ASSUME NEW j \in DOMAIN more
      PROVE  \/ j \in DOMAIN in /\ more[j] = in[j]
             \/ j \notin DOMAIN in /\ more[j].type = "ended" /\ more[j].slot = 0
             \/ /\ j \notin DOMAIN in /\ conn /\ m.on = "now"
                /\ j = Len(more) /\ more[j] = answer
  BY <1>2, <1>4
<1>7. ASSUME NEW j \in DOMAIN in
      PROVE  conn
  BY <1>7 DEF Sound, InOrder
<1>8. ASSUME NEW k \in DOMAIN told, conn
      PROVE  \E j \in DOMAIN more :
                /\ \A h \in DOMAIN in : j > h
                /\ Ending(more, j, told[k].room)
  BY <1>2, <1>4, <1>5, <1>8 DEF Ending
<1>9. ASSUME NEW ops, NEW k \in DOMAIN left, Asked(c, left, ops, k)
      PROVE  Asked(c, up, ops, was(k))
  BY <1>3, <1>9 DEF Asked
<1>10. ASSUME NEW ops, NEW j \in DOMAIN more, Answered(c, more, ops, j), "none" \notin ops
       PROVE  \/ j \in DOMAIN in /\ more[j] = in[j] /\ Answered(c, in, ops, j)
              \/ /\ more[j] = answer /\ Asked(c, up, ops, i) /\ m.op \in ops
                 /\ j = Len(more) /\ conn
  <2>1. CASE j \in DOMAIN in /\ more[j] = in[j]
    BY <1>10, <2>1 DEF Answered
  <2>2. CASE more[j].type = "ended"
    BY <1>10, <2>2 DEF Answered
  <2>3. CASE more[j] = answer /\ conn /\ m.on = "now" /\ j = Len(more)
    <3>1. Current(c, m.slot, ops)
      BY <1>10, <2>3 DEF Answered
    <3>2. Matched(c, up, in)
      BY DEF Sound
    <3>3. c.call[m.slot].op = m.op
      BY <1>3, <1>10, <3>1, <3>2 DEF Matched, Current
    <3> QED
      BY <2>3, <3>1, <3>3 DEF Asked, Current
  <2> QED
    BY <1>6, <2>1, <2>2, <2>3
<1>11. ASSUME NEW k \in DOMAIN left, Leaving(left, k)
       PROVE  Leaving(up, was(k))
  BY <1>3, <1>11 DEF Leaving
<1>12. Typed(c, left, more, s)
  BY <1>1, <1>2, <1>3 DEF Typed
<1>13. InOrder(conn, left, more, s)
  <2>1. InOrder(conn, up, in, srv)
    BY DEF Sound
  <2>2. ASSUME ~conn
        PROVE  more = <<>> /\ \A k \in DOMAIN left : left[k].on = "old"
    BY <1>2, <1>3, <2>1, <2>2 DEF InOrder
  <2>3. ASSUME NEW h \in DOMAIN left, NEW k \in DOMAIN left, h < k, left[k].on = "old"
        PROVE  left[h].on = "old"
    BY <1>3, <2>1, <2>3 DEF InOrder
  <2>4. ASSUME s.at["now"] # None, NEW k \in DOMAIN left, left[k].on = "old"
        PROVE  left[k].op \in Question
    <3>1. up[was(k)].on = "old" /\ left[k] = up[was(k)] /\ was(k) \in DOMAIN up /\ was(k) # i
      BY <1>3, <2>4
    <3>2. CASE s.at["now"] = srv.at["now"]
      BY <2>1, <2>4, <3>1, <3>2 DEF InOrder
    <3>3. CASE m.on = "now" /\ InTurn(up, i)
      <4>1. ~(i < was(k))
        BY <1>3, <2>1, <3>1, <3>3 DEF InOrder
      <4>2. was(k) \in 1..(i - 1)
        BY <1>3, <3>1, <4>1
      <4> QED
        BY <3>1, <3>3, <4>2 DEF InTurn
    <3> QED
      BY <2>4, <3>2, <3>3
  <2> QED
    BY <2>2, <2>3, <2>4 DEF InOrder
<1>14. Matched(c, left, more)
  <2>1. Matched(c, up, in)
    BY DEF Sound
  <2>2. ASSUME NEW k \in DOMAIN left, c.call[left[k].slot].op # "none"
        PROVE  /\ c.call[left[k].slot].op = left[k].op
               /\ c.call[left[k].slot].room = left[k].room
    BY <1>3, <2>1, <2>2 DEF Matched
  <2>3. ASSUME NEW j \in DOMAIN more, more[j].type = "answer"
        PROVE  /\ c.call[more[j].slot].op # "connecting"
               /\ c.call[more[j].slot].op \in {"join", "rejoin", "restore"}
                     => c.call[more[j].slot].room = more[j].room
    <3>1. CASE j \in DOMAIN in /\ more[j] = in[j]
      BY <2>1, <2>3, <3>1 DEF Matched
    <3>2. CASE more[j] = answer
      <4>1. c.call[m.slot].op # "none" =>
               c.call[m.slot].op = m.op /\ c.call[m.slot].room = m.room
        BY <1>3, <2>1 DEF Matched
      <4>2. m.op # "connecting"
        BY <1>4 DEF Request, Operation, Question
      <4> QED
        BY <3>2, <4>1, <4>2
    <3> QED
      BY <1>6, <2>3, <3>1, <3>2
  <2> QED
    BY <2>2, <2>3 DEF Matched
<1>15. OnePerSlot(left, more)
  <2>1. OnePerSlot(up, in)
    BY DEF Sound
  <2>2. ASSUME NEW h \in DOMAIN left, NEW k \in DOMAIN left, h # k
        PROVE  left[h].slot # left[k].slot
    BY <1>3, <2>1, <2>2 DEF OnePerSlot
  <2>3. ASSUME NEW h \in DOMAIN more, NEW k \in DOMAIN more, h # k,
               more[h].type = "answer"
        PROVE  more[h].slot # more[k].slot
    <3>1. CASE h \in DOMAIN in /\ more[h] = in[h]
      <4>1. in[h].slot # m.slot
        BY <1>3, <2>1, <3>1 DEF OnePerSlot
      <4>2. in[h].slot # 0
        BY <1>4, <2>3, <3>1
      <4>3. k \in DOMAIN in /\ more[k] = in[k] => in[h].slot # in[k].slot
        BY <2>1, <2>3, <3>1 DEF OnePerSlot
      <4> QED
        BY <1>6, <3>1, <4>1, <4>2, <4>3
    <3>2. CASE h = Len(more) /\ more[h] = answer
      <4>1. k \in DOMAIN in /\ more[k] = in[k] => m.slot # in[k].slot
        BY <1>3, <2>1 DEF OnePerSlot
      <4>2. m.slot # 0
        BY <1>3, <1>4
      <4> QED
        BY <1>6, <2>3, <3>2, <4>1, <4>2
    <3> QED
      BY <1>6, <2>3, <3>1, <3>2
  <2>4. ASSUME NEW h \in DOMAIN left, NEW k \in DOMAIN more
        PROVE  left[h].slot # more[k].slot
    <3>1. /\ was(h) \in DOMAIN up /\ was(h) # i /\ left[h] = up[was(h)]
          /\ up[was(h)].slot # 0 /\ up[was(h)].slot # m.slot
      BY <1>3, <1>4, <2>1 DEF OnePerSlot
    <3>2. k \in DOMAIN in /\ more[k] = in[k] => up[was(h)].slot # in[k].slot
      BY <2>1, <3>1 DEF OnePerSlot
    <3> QED
      BY <1>6, <3>1, <3>2
  <2> QED
    BY <2>2, <2>3, <2>4 DEF OnePerSlot
<1>16. OneAtATime(c, left, more)
  <2>1. OneAtATime(c, up, in)
    BY DEF Sound
  <2>2. ASSUME NEW k \in DOMAIN left, Asked(c, left, Entering, k)
        PROVE  Sole(c, left[k].slot)
    BY <1>3, <1>9, <2>1, <2>2 DEF OneAtATime
  <2>3. ASSUME NEW j \in DOMAIN more, Answered(c, more, Entering, j)
        PROVE  Sole(c, more[j].slot)
    <3>1. "none" \notin Entering
      BY DEF Entering
    <3> QED
      BY <1>3, <1>10, <2>1, <2>3, <3>1 DEF OneAtATime
  <2> QED
    BY <2>1, <2>2, <2>3 DEF OneAtATime
<1>17. LeavesFirst(c, left, more)
  <2>1. LeavesFirst(c, up, in)
    BY DEF Sound
  <2>2. ASSUME NEW h \in DOMAIN left, NEW k \in DOMAIN left,
               Asked(c, left, Activating, h), Leaving(left, k)
        PROVE  k < h
    BY <1>3, <1>9, <1>11, <2>1, <2>2 DEF LeavesFirst
  <2>3. ASSUME NEW k \in DOMAIN left, NEW j \in DOMAIN more,
               Answered(c, more, Activating, j), Leaving(left, k)
        PROVE  FALSE
    <3>1. was(k) \in DOMAIN up /\ was(k) # i /\ Leaving(up, was(k))
      BY <1>3, <1>11, <2>3
    <3>2. "none" \notin Activating
      BY DEF Activating
    <3>3. CASE j \in DOMAIN in /\ Answered(c, in, Activating, j)
      BY <2>1, <3>1, <3>3 DEF LeavesFirst
    <3>4. CASE Asked(c, up, Activating, i) /\ m.op \in Activating
      <4>1. was(k) < i
        BY <1>3, <2>1, <3>1, <3>4 DEF LeavesFirst
      <4>2. InTurn(up, i)
        BY <3>4 DEF Asked
      <4>3. was(k) \in 1..(i - 1)
        BY <1>3, <3>1, <4>1
      <4>4. up[was(k)].op \in Question
        BY <4>2, <4>3 DEF InTurn
      <4> QED
        BY <3>1, <4>4 DEF Leaving, Question
    <3> QED
      BY <1>10, <2>3, <3>2, <3>3, <3>4
  <2> QED
    BY <2>2, <2>3 DEF LeavesFirst
<1>18. LeavesClaimed(c, left)
  <2>1. LeavesClaimed(c, up)
    BY DEF Sound
  <2> QED
    BY <1>3, <1>11, <2>1 DEF LeavesClaimed
<1>19. AnswersTrue(c, more, s)
  <2>1. AnswersTrue(c, in, srv)
    BY DEF Sound
  <2> SUFFICES ASSUME NEW j \in DOMAIN more, Enters(c, more, j)
               PROVE  /\ more[j].room \in Room
                      /\ \/ s.at["now"] = more[j].room
                         \/ \E h \in DOMAIN more :
                               h > j /\ Ending(more, h, more[j].room)
    BY DEF AnswersTrue
  <2>2. Answered(c, more, Activating, j) /\ more[j].ok
        /\ (Answered(c, more, {"join"}, j) => ~more[j].rejoin)
    BY DEF Enters
  <2>3. "none" \notin Activating
    BY DEF Activating
  <2>4. CASE j \in DOMAIN in /\ more[j] = in[j] /\ Answered(c, in, Activating, j)
    <3>1. Enters(c, in, j)
      BY <2>2, <2>4 DEF Enters, Answered
    <3>2. conn
      BY <1>7, <2>4
    <3>3. in[j].room \in Room
      BY <2>1, <2>4, <3>1 DEF AnswersTrue
    <3>4. CASE srv.at["now"] = in[j].room
      <4>1. srv.at["now"] # None
        BY <3>3, <3>4, RoomAssumption
      <4>2. ~Leaving(up, i)
        <5>1. LeavesFirst(c, up, in)
          BY DEF Sound
        <5> QED
          BY <1>3, <2>4, <5>1 DEF LeavesFirst
      <4>3. CASE s.at["now"] = srv.at["now"]
        BY <2>4, <3>3, <3>4, <4>3
      <4>4. CASE \E k \in DOMAIN told : told[k].room = srv.at["now"]
        BY <1>8, <2>4, <3>2, <3>3, <3>4, <4>4
      <4> QED
        BY <4>1, <4>2, <4>3, <4>4
    <3>5. CASE \E h \in DOMAIN in : h > j /\ Ending(in, h, in[j].room)
      BY <1>2, <2>4, <3>3, <3>5 DEF Ending
    <3> QED
      BY <2>1, <2>4, <3>1, <3>4, <3>5 DEF AnswersTrue
  <2>5. CASE /\ more[j] = answer /\ Asked(c, up, Activating, i)
             /\ m.op \in Activating /\ j = Len(more) /\ conn
    <3>1. m.on = "now" /\ Current(c, m.slot, Activating)
      BY <2>5 DEF Asked
    <3>2. c.call[m.slot].op = m.op
      <4>1. Matched(c, up, in)
        BY DEF Sound
      <4> QED
        BY <1>3, <2>3, <3>1, <4>1 DEF Matched, Current
    <3>3. m.op = "join" => ~answer.rejoin
      BY <1>4, <2>2, <2>5, <3>1, <3>2 DEF Answered, Current
    <3> QED
      BY <2>2, <2>5, <3>1, <3>3
  <2> QED
    BY <1>10, <2>2, <2>3, <2>4, <2>5
<1>20. ASSUME conn, Backed(c, in, srv)
       PROVE  Backed(c, more, s)
  <2> SUFFICES ASSUME c.membership = "active"
               PROVE  \/ s.at["now"] = c.room
                      \/ \E j \in DOMAIN more : Ending(more, j, c.room)
                      \/ \E t \in Slot : Current(c, t, {"restore"}) /\ c.call[t].room = c.room
                      \/ \E j \in DOMAIN more :
                            Answered(c, more, {"leave"}, j) /\ more[j].ok
    BY DEF Backed
  <2>1. CASE srv.at["now"] = c.room
    <3>1. srv.at["now"] # None
      BY <2>1, RoomAssumption DEF Sound, Sensible
    <3>2. CASE \E k \in DOMAIN told : told[k].room = srv.at["now"]
      BY <1>8, <1>20, <2>1, <3>2
    <3>3. CASE Leaving(up, i) /\ answer.ok
      <4>1. Current(c, m.slot, {"leave"})
        BY <1>3, <3>3 DEF Sound, LeavesClaimed
      <4>2. Len(more) \in DOMAIN more /\ more[Len(more)] = answer
        BY <1>2, <1>20, <3>3 DEF Leaving
      <4>3. Answered(c, more, {"leave"}, Len(more)) /\ more[Len(more)].ok
        BY <1>4, <3>3, <4>1, <4>2 DEF Answered
      <4> QED
        BY <4>2, <4>3
    <3> QED
      BY <2>1, <3>1, <3>2, <3>3
  <2>2. CASE \E j \in DOMAIN in : Ending(in, j, c.room)
    BY <1>2, <2>2 DEF Ending
  <2>3. CASE \E j \in DOMAIN in : Answered(c, in, {"leave"}, j) /\ in[j].ok
    BY <1>2, <2>3 DEF Answered
  <2> QED
    BY <1>20, <2>1, <2>2, <2>3 DEF Backed
<1>21. Lasting(c, left, more, s)
  <2> SUFFICES ASSUME "leave" \notin Gap
               PROVE  /\ Stays(c, left, more, s)
                      /\ EntersToStay(c, left, more, s)
                      /\ RestoresNobodyElse(left, s)
    BY DEF Lasting
  <2>1. /\ Stays(c, up, in, srv)
        /\ EntersToStay(c, up, in, srv)
        /\ RestoresNobodyElse(up, srv)
    BY DEF Sound, Lasting
  <2>2. NoneLeftOver(up) => NoneLeftOver(left)
    BY <1>3 DEF NoneLeftOver
  <2>3. Stays(c, left, more, s)
    <3> SUFFICES ASSUME c.membership = "active"
                 PROVE  /\ NoneLeftOver(left)
                        /\ s.departed => \E j \in DOMAIN more :
                              Answered(c, more, {"leave"}, j) /\ more[j].ok
      BY DEF Stays
    <3>1. NoneLeftOver(up)
      BY <2>1 DEF Stays
    <3>2. CASE srv.departed
      <4>1. PICK j \in DOMAIN in : Answered(c, in, {"leave"}, j) /\ in[j].ok
        BY <2>1, <3>2 DEF Stays
      <4>2. /\ j \in DOMAIN more
            /\ Answered(c, more, {"leave"}, j) /\ more[j].ok
        BY <1>2, <4>1 DEF Answered
      <4> QED
        BY <2>2, <3>1, <4>2
    <3>3. CASE m.op = "leave" /\ answer.ok
      <4>1. Leaving(up, i) /\ m.on = "now"
        BY <1>3, <3>1, <3>3 DEF NoneLeftOver, Leaving
      <4>2. Current(c, m.slot, {"leave"})
        BY <1>3, <4>1 DEF Sound, LeavesClaimed
      <4>3. conn
        BY <1>3, <4>1 DEF Sound, InOrder
      <4>4. Len(more) \in DOMAIN more /\ more[Len(more)] = answer
        BY <1>2, <4>1, <4>3
      <4>5. Answered(c, more, {"leave"}, Len(more)) /\ more[Len(more)].ok
        BY <1>4, <3>3, <4>2, <4>4 DEF Answered
      <4> QED
        BY <2>2, <3>1, <4>4, <4>5
    <3> QED
      BY <2>2, <3>1, <3>2, <3>3
  <2>4. ASSUME NEW j \in DOMAIN more, Enters(c, more, j)
        PROVE  NoneLeftOver(left) /\ ~s.departed
    <3>1. Answered(c, more, Activating, j) /\ more[j].ok
          /\ (Answered(c, more, {"join"}, j) => ~more[j].rejoin)
          /\ "none" \notin Activating
      BY <2>4 DEF Enters, Activating
    <3>2. CASE j \in DOMAIN in /\ more[j] = in[j] /\ Answered(c, in, Activating, j)
      <4>1. Enters(c, in, j)
        BY <3>1, <3>2 DEF Enters, Answered
      <4>2. NoneLeftOver(up) /\ ~srv.departed
        BY <2>1, <3>2, <4>1 DEF EntersToStay
      <4>3. ~Leaving(up, i)
        BY <1>3, <3>2 DEF Sound, LeavesFirst
      <4>4. m.op # "leave"
        BY <1>3, <4>2, <4>3 DEF NoneLeftOver, Leaving
      <4> QED
        BY <2>2, <4>2, <4>4
    <3>3. CASE /\ more[j] = answer /\ Asked(c, up, Activating, i)
               /\ m.op \in Activating /\ j = Len(more) /\ conn
      <4>1. m.on = "now" /\ Current(c, m.slot, Activating)
        BY <3>3 DEF Asked
      <4>2. c.call[m.slot].op = m.op
        <5>1. Matched(c, up, in)
          BY DEF Sound
        <5> QED
          BY <1>3, <3>1, <4>1, <5>1 DEF Matched, Current
      <4>3. m.op = "join" => ~answer.rejoin
        BY <1>4, <3>1, <3>3, <4>1, <4>2 DEF Answered, Current
      <4>4. ~s.departed /\ InTurn(up, i)
        BY <3>1, <3>3, <4>1, <4>3
      <4>5. ASSUME NEW k \in DOMAIN left, left[k].op = "leave"
            PROVE  left[k].on = "now"
        <5>1. /\ was(k) \in DOMAIN up /\ was(k) # i /\ left[k] = up[was(k)]
              /\ was(k) \in Nat /\ i \in Nat
          BY <1>3
        <5>2. ~(was(k) < i)
          <6>1. was(k) < i => was(k) \in 1..(i - 1)
            BY <1>3, <5>1
          <6> QED
            BY <4>4, <4>5, <5>1, <6>1 DEF InTurn, Question
        <5>3. i < was(k)
          BY <5>1, <5>2
        <5>4. up[was(k)].on # "old"
          BY <1>3, <4>1, <5>1, <5>3 DEF Sound, InOrder
        <5>5. up[was(k)].on \in Connection
          BY <1>4, <5>1 DEF Request
        <5> QED
          BY <5>1, <5>4, <5>5 DEF Connection
      <4> QED
        BY <4>4, <4>5 DEF NoneLeftOver
    <3> QED
      BY <1>10, <3>1, <3>2, <3>3
  <2>5. ASSUME NEW k \in DOMAIN left, left[k].op = "restore"
        PROVE  /\ ~s.departed
               /\ \A j \in DOMAIN left : left[j].op = "leave" => k < j
    <3>1. /\ was(k) \in DOMAIN up /\ left[k] = up[was(k)]
          /\ was(k) \in Nat /\ i \in Nat
      BY <1>3
    <3>2. /\ ~srv.departed
          /\ \A j \in DOMAIN up : up[j].op = "leave" => was(k) < j
      BY <2>1, <2>5, <3>1 DEF RestoresNobodyElse
    <3>3. ~(m.op = "leave" /\ InTurn(up, i))
      <4>1. ASSUME m.op = "leave" PROVE was(k) \in 1..(i - 1)
        BY <1>3, <3>1, <3>2, <4>1
      <4> QED
        BY <2>5, <3>1, <4>1 DEF InTurn, Question
    <3>4. ASSUME NEW j \in DOMAIN left, left[j].op = "leave"
          PROVE  k < j
      BY <1>3, <3>2, <3>4
    <3> QED
      BY <3>2, <3>3, <3>4
  <2> QED
    BY <2>3, <2>4, <2>5 DEF EntersToStay, RestoresNobodyElse
<1>22. Sound(c, conn, left, more, s)
  BY <1>12, <1>13, <1>14, <1>15, <1>16, <1>17, <1>18, <1>19, <1>21 DEF Sound
<1> QED
  BY <1>20, <1>22 DEF more, left

-----------------------------------------------------------------------------
(* The steps of the server.                                                 *)

Steady ==
    /\ connected \in BOOLEAN
    /\ Sound(client, connected, upstream, inbox, server)
    /\ connected => Backed(client, inbox, server)

LEMMA AtFacts ==
    ASSUME NEW srv, ServerOK(srv)
    PROVE  /\ srv.at = [now |-> srv.at["now"], old |-> srv.at["old"]]
           /\ srv.at["now"] \in MaybeRoom /\ srv.at["old"] \in MaybeRoom
           /\ srv.mine \in MaybeRoom
BY DEF ServerOK, Connection

LEMMA InsideFields ==
    ASSUME NEW srv, ServerOK(srv), NEW r \in Room, NEW k \in Connection
    PROVE  LET s == Inside(srv, r, k)
           IN  /\ ServerOK(s) /\ s.mine = r /\ ~s.departed
               /\ k = "now" => s.at["now"] = r
               /\ k = "old" => s.at["now"] = srv.at["now"]
BY DEF ServerOK, Inside, MaybeRoom, Connection

LEMMA GoneFields ==
    ASSUME NEW srv, ServerOK(srv), NEW r \in Room
    PROVE  LET s == Gone(srv, r)
           IN  /\ ServerOK(s)
               /\ s.mine = IF srv.mine = r THEN None ELSE srv.mine
               /\ s.at["now"] = IF srv.at["now"] = r THEN None ELSE srv.at["now"]
               /\ s.departed => srv.departed
<1> DEFINE at == [k \in Connection |-> IF srv.at[k] = r THEN None ELSE srv.at[k]]
           s == Gone(srv, r)
<1>1. at \in [Connection -> MaybeRoom]
  BY DEF ServerOK, MaybeRoom
<1>2. at["now"] = IF srv.at["now"] = r THEN None ELSE srv.at["now"]
  BY DEF Connection
<1>3. s = [srv EXCEPT !.stage[r] = "gone", !.mine = IF @ = r THEN None ELSE @,
                      !.departed = @ /\ srv.mine # r, !.at = at]
  BY DEF Gone, ServerOK
<1> HIDE DEF at
<1>4. [srv.stage EXCEPT ![r] = "gone"]
         \in [Room -> {"unborn", "waiting", "game", "gone"}]
  BY DEF ServerOK
<1>5. s = [srv EXCEPT !.stage = [srv.stage EXCEPT ![r] = "gone"],
                      !.mine = IF srv.mine = r THEN None ELSE srv.mine,
                      !.departed = srv.departed /\ srv.mine # r, !.at = at]
  BY <1>3 DEF ServerOK
<1>6. srv.mine \in MaybeRoom /\ None \in MaybeRoom
  BY DEF ServerOK, MaybeRoom
<1> HIDE DEF s
<1>7. /\ s.at = at
      /\ s.mine = IF srv.mine = r THEN None ELSE srv.mine
      /\ s.departed => srv.departed
  BY <1>5 DEF ServerOK
<1>8. ServerOK(s)
  BY <1>1, <1>4, <1>5, <1>6 DEF ServerOK
<1>9. /\ ServerOK(s)
      /\ s.mine = IF srv.mine = r THEN None ELSE srv.mine
      /\ s.at["now"] = IF srv.at["now"] = r THEN None ELSE srv.at["now"]
      /\ s.departed => srv.departed
  BY <1>2, <1>7, <1>8
<1> QED
  BY <1>9 DEF s

LEMMA RepliesHeard ==
    ASSUME NEW m, NEW told, NEW answer, Replies(m, told, answer)
    PROVE  inbox' = Heard(inbox, connected, told, m.on, answer)
BY DEF Replies, Tell, Heard

LEMMA ReplyFields ==
    ASSUME NEW m \in Request, NEW ok \in BOOLEAN
    PROVE  /\ Reply(m, ok) \in Reaction /\ Reply(m, ok).slot = m.slot
           /\ Reply(m, ok).room = m.room /\ Reply(m, ok).ok = ok
           /\ [Reply(m, ok) EXCEPT !.rejoin = TRUE] \in Reaction
           /\ [Reply(m, ok) EXCEPT !.rejoin = TRUE].slot = m.slot
           /\ [Reply(m, ok) EXCEPT !.rejoin = TRUE].room = m.room
           /\ [Reply(m, ok) EXCEPT !.rejoin = TRUE].rejoin = TRUE
           /\ [Reply(m, ok) EXCEPT !.suspended = TRUE] \in Reaction
           /\ [Reply(m, ok) EXCEPT !.suspended = TRUE].slot = m.slot
           /\ [Reply(m, ok) EXCEPT !.suspended = TRUE].room = m.room
           /\ [Reply(m, ok) EXCEPT !.suspended = TRUE].ok = ok
BY DEF Reply, Reaction, Request

LEMMA EventFields ==
    ASSUME NEW r \in MaybeRoom
    PROVE  /\ <<Event("ended", r)>> \in Seq(Notice)
           /\ <<>> \in Seq(Notice)
           /\ 1 \in DOMAIN <<Event("ended", r)>>
           /\ <<Event("ended", r)>>[1].room = r
<1>1. Event("ended", r) \in Notice /\ Event("ended", r).room = r
  BY DEF Event, Notice
<1> QED
  BY <1>1

(* What is known of a request that is handled.                              *)
LEMMA RequestFacts ==
    ASSUME Steady, NEW i \in 1..Len(upstream)
    PROVE  LET m == upstream[i]
           IN  /\ m \in Request /\ m.slot \in Slot /\ m.on \in Connection
               /\ m.room \in MaybeRoom
               /\ m.op \in {"join", "rejoin", "restore"} => m.room \in Room
               /\ ServerOK(server)
               /\ server.at["now"] # None => server.mine = server.at["now"]
               /\ m.on = "old" /\ m.op \notin Question => server.at["now"] = None
<1>1. /\ upstream \in Seq(Request) /\ ServerOK(server)
      /\ InOrder(connected, upstream, inbox, server)
  BY DEF Steady, Sound, Typed
<1>2. upstream[i] \in Request /\ i \in DOMAIN upstream
  BY <1>1
<1> QED
  BY <1>1, <1>2 DEF Request, InOrder

LEMMA HandledIsSteady ==
    ASSUME Steady,
           NEW i \in 1..Len(upstream), NEW m, m = upstream[i],
           m.on = "now" /\ m.op \in Activating => InTurn(upstream, i),
           ServerOK(server'),
           server'.at["now"] # None => server'.mine = server'.at["now"],
           server'.at["now"] \notin {server.at["now"], None} =>
              m.on = "now" /\ InTurn(upstream, i),
           NEW told \in Seq(Notice), NEW answer \in Reaction, answer.slot = m.slot,
           server.at["now"] \notin {server'.at["now"], None} =>
              \/ \E k \in DOMAIN told : told[k].room = server.at["now"]
              \/ Leaving(upstream, i) /\ answer.ok,
           m.op \in {"join", "rejoin", "restore"} => answer.room = m.room,
           m.on = "now" /\ m.op \in Activating /\ answer.ok /\ (m.op = "join" => ~answer.rejoin)
              => /\ server'.at["now"] = answer.room /\ answer.room \in Room
                 /\ ~server'.departed,
           server'.departed => \/ server.departed
                               \/ m.op = "leave" /\ answer.ok /\ InTurn(upstream, i),
           Replies(m, told, answer), upstream' = RemoveAt(upstream, i),
           UNCHANGED <<client, connected>>
    PROVE  Steady'
<1> DEFINE more == Heard(inbox, connected, told, m.on, answer)
<1>1. Sound(client, connected, upstream, inbox, server) /\ connected \in BOOLEAN
  BY DEF Steady
<1>2. /\ Sound(client, connected, RemoveAt(upstream, i), more, server')
      /\ connected /\ Backed(client, inbox, server) => Backed(client, more, server')
  BY <1>1, HandledIsSound, ZenonT(90)
<1>3. inbox' = more
  BY RepliesHeard
<1> HIDE DEF more
<1> QED
  BY <1>1, <1>2, <1>3 DEF Steady

LEMMA RoomTold ==
    ASSUME NEW m \in Request, NEW r \in MaybeRoom
    PROVE  /\ [Reply(m, TRUE) EXCEPT !.room = r] \in Reaction
           /\ [Reply(m, TRUE) EXCEPT !.room = r].slot = m.slot
           /\ [Reply(m, TRUE) EXCEPT !.room = r].room = r
BY DEF Reply, Reaction, Request

LEMMA CreatesKeeps ==
    ASSUME Steady, NEW i \in 1..Len(upstream), upstream[i].op = "create",
           InTurn(upstream, i), Creates(upstream[i]),
           upstream' = RemoveAt(upstream, i), UNCHANGED <<client, connected>>
    PROVE  Steady'
<1> DEFINE m == upstream[i]
<1>1. /\ m \in Request /\ m.slot \in Slot /\ m.on \in Connection
      /\ ServerOK(server)
      /\ server.at["now"] # None => server.mine = server.at["now"]
  BY RequestFacts
<1>2. PICK r \in Room :
         /\ server.mine = None /\ server.stage[r] = "unborn"
         /\ server' = Inside([server EXCEPT !.stage[r] = "waiting"], r, m.on)
         /\ Replies(m, <<>>, [Reply(m, TRUE) EXCEPT !.room = r])
  BY DEF Creates
<1> DEFINE s == [server EXCEPT !.stage[r] = "waiting"]
           answer == [Reply(m, TRUE) EXCEPT !.room = r]
<1>3. ServerOK(s) /\ s.at = server.at
  BY <1>1 DEF ServerOK
<1>10. server' = Inside(s, r, m.on) /\ Replies(m, <<>>, answer)
  BY <1>2
<1>11. r \in MaybeRoom
  BY DEF MaybeRoom
<1>6. answer \in Reaction /\ answer.slot = m.slot /\ answer.room = r
  BY <1>1, <1>11, RoomTold
<1> HIDE DEF answer, s, m
<1>4. /\ ServerOK(server') /\ server'.mine = r /\ ~server'.departed
      /\ m.on = "now" => server'.at["now"] = r
      /\ m.on = "old" => server'.at["now"] = server.at["now"]
  BY <1>1, <1>3, <1>10, InsideFields
<1>5. server.at["now"] = None
  BY <1>1, <1>2
<1>7. <<>> \in Seq(Notice)
  OBVIOUS
<1>8. m.on \in {"now", "old"} /\ m.op = "create"
  BY <1>1 DEF Connection, m
<1> QED
  BY <1>4, <1>5, <1>6, <1>7, <1>8, <1>10, HandledIsSteady DEF m

LEMMA EntryKeeps ==
    ASSUME Steady, NEW i \in 1..Len(upstream),
           upstream[i].op \in {"join", "rejoin", "restore"},
           InTurn(upstream, i),
           server' = Inside(server, upstream[i].room, upstream[i].on),
           ensureNotInRoom(upstream[i].room),
           Replies(upstream[i], <<>>, Reply(upstream[i], TRUE)),
           upstream' = RemoveAt(upstream, i), UNCHANGED <<client, connected>>
    PROVE  Steady'
<1> DEFINE m == upstream[i]
           answer == Reply(m, TRUE)
<1>1. /\ m \in Request /\ m.slot \in Slot /\ m.on \in Connection
      /\ m.room \in Room /\ ServerOK(server)
      /\ server.at["now"] # None => server.mine = server.at["now"]
      /\ m.on = "old" => server.at["now"] = None
  BY RequestFacts DEF Question
<1>2. /\ ServerOK(server') /\ server'.mine = m.room /\ ~server'.departed
      /\ m.on = "now" => server'.at["now"] = m.room
      /\ m.on = "old" => server'.at["now"] = server.at["now"]
  BY <1>1, InsideFields
<1>3. server.mine \in {None, m.room}
  BY DEF ensureNotInRoom
<1>4. server.at["now"] \in {None, m.room}
  BY <1>1, <1>3
<1>5. answer \in Reaction /\ answer.slot = m.slot /\ answer.room = m.room
  BY <1>1, ReplyFields DEF MaybeRoom
<1>6. <<>> \in Seq(Notice)
  OBVIOUS
<1>7. m.on \in {"now", "old"} /\ m.op \in {"join", "rejoin", "restore"}
  BY <1>1 DEF Connection
<1>8. Replies(m, <<>>, answer)
  OBVIOUS
<1> HIDE DEF answer, m
<1> QED
  BY <1>1, <1>2, <1>4, <1>5, <1>6, <1>7, <1>8, HandledIsSteady DEF m

(* The server is left as it is, and the answer makes nobody active.         *)
LEMMA RefusalKeeps ==
    ASSUME Steady, NEW i \in 1..Len(upstream),
           AtOnce(upstream[i]) \/ InTurn(upstream, i),
           server' = server,
           NEW answer \in Reaction, answer.slot = upstream[i].slot,
           upstream[i].op \in {"join", "rejoin", "restore"} =>
              answer.room = upstream[i].room,
           upstream[i].op \in Activating /\ answer.ok =>
              upstream[i].op = "join" /\ answer.rejoin,
           Replies(upstream[i], <<>>, answer),
           upstream' = RemoveAt(upstream, i), UNCHANGED <<client, connected>>
    PROVE  Steady'
<1> DEFINE m == upstream[i]
<1>1. /\ ServerOK(server)
      /\ server.at["now"] # None => server.mine = server.at["now"]
  BY RequestFacts
<1>2. <<>> \in Seq(Notice)
  OBVIOUS
<1>3. m.op \in Activating => InTurn(upstream, i)
  BY DEF AtOnce, Activating, Question
<1> QED
  BY <1>1, <1>2, <1>3, HandledIsSteady

LEMMA LeavesKeeps ==
    ASSUME Steady, NEW i \in 1..Len(upstream), upstream[i].op = "leave",
           AtOnce(upstream[i]) \/ InTurn(upstream, i), Leaves(upstream[i]),
           upstream' = RemoveAt(upstream, i), UNCHANGED <<client, connected>>
    PROVE  Steady'
<1> DEFINE m == upstream[i]
           r == server.at[m.on]
<1>1. /\ m \in Request /\ m.slot \in Slot /\ m.on \in Connection
      /\ m.room \in MaybeRoom /\ ServerOK(server)
      /\ server.at["now"] # None => server.mine = server.at["now"]
      /\ m.on = "old" => server.at["now"] = None
      /\ m.op = "leave"
  BY RequestFacts DEF Question
<1>2. r # None /\ server.mine = r /\ r \in Room
  BY <1>1 DEF Leaves, MayLeave, ServerOK, MaybeRoom
<1>3. /\ <<>> \in Seq(Notice)
      /\ <<Event("ended", r)>> \in Seq(Notice)
  BY <1>2, EventFields DEF MaybeRoom
<1>4. m.op \notin Activating /\ m.op \notin {"join", "rejoin", "restore"}
  BY <1>1 DEF Activating
<1>5. m.on = "now" => Leaving(upstream, i)
  BY <1>1 DEF Leaving
<1>6. m.on \in {"now", "old"}
  BY <1>1 DEF Connection
<1>12. InTurn(upstream, i)
  BY <1>1, <1>2 DEF AtOnce, Question
<1>7. ASSUME NEW answer \in Reaction, answer.slot = m.slot, answer.ok,
             NEW told \in Seq(Notice), Replies(m, told, answer),
             ServerOK(server'), server'.at["now"] = None
      PROVE  Steady'
  BY <1>1, <1>4, <1>5, <1>6, <1>7, <1>12, HandledIsSteady
<1> DEFINE away == [server.at EXCEPT ![m.on] = None]
<1>8. /\ away \in [Connection -> MaybeRoom] /\ away["now"] = None
  BY <1>1, <1>6 DEF ServerOK, MaybeRoom
<1>9. CASE /\ server' = [server EXCEPT !.at[m.on] = None, !.departed = TRUE]
           /\ Replies(m, <<>>, [Reply(m, TRUE) EXCEPT !.suspended = TRUE])
  <2>1. ServerOK(server') /\ server'.at = away
    BY <1>1, <1>8, <1>9 DEF ServerOK
  <2>2. /\ [Reply(m, TRUE) EXCEPT !.suspended = TRUE] \in Reaction
        /\ [Reply(m, TRUE) EXCEPT !.suspended = TRUE].slot = m.slot
        /\ [Reply(m, TRUE) EXCEPT !.suspended = TRUE].ok
    BY <1>1, ReplyFields
  <2> HIDE DEF m, away
  <2> QED
    BY <1>3, <1>7, <1>8, <1>9, <2>1, <2>2
<1>10. CASE /\ server' = [server EXCEPT !.at[m.on] = None, !.mine = None,
                                         !.departed = FALSE]
            /\ Replies(m, <<>>, Reply(m, TRUE))
  <2>1. ServerOK(server') /\ server'.at = away
    BY <1>1, <1>8, <1>10 DEF ServerOK, MaybeRoom
  <2>2. Reply(m, TRUE) \in Reaction /\ Reply(m, TRUE).slot = m.slot /\ Reply(m, TRUE).ok
    BY <1>1, ReplyFields
  <2> HIDE DEF m, away
  <2> QED
    BY <1>3, <1>7, <1>8, <1>10, <2>1, <2>2
<1>11. CASE /\ server' = Gone(server, r)
            /\ Replies(m, <<Event("ended", r)>>, Reply(m, TRUE))
  <2>1. /\ ServerOK(server')
        /\ server'.at["now"] = IF server.at["now"] = r THEN None ELSE server.at["now"]
    BY <1>1, <1>2, <1>11, GoneFields
  <2>2. server'.at["now"] = None
    BY <1>1, <1>2, <1>6, <2>1
  <2>3. Reply(m, TRUE) \in Reaction /\ Reply(m, TRUE).slot = m.slot /\ Reply(m, TRUE).ok
    BY <1>1, ReplyFields
  <2> HIDE DEF m
  <2> QED
    BY <1>3, <1>7, <1>11, <2>1, <2>2, <2>3
<1> QED
  BY <1>9, <1>10, <1>11 DEF Leaves

LEMMA DissolvesKeeps ==
    ASSUME Steady, NEW i \in 1..Len(upstream), upstream[i].op = "dissolve",
           Dissolves(upstream[i]),
           upstream' = RemoveAt(upstream, i), UNCHANGED <<client, connected>>
    PROVE  Steady'
<1> DEFINE m == upstream[i]
           r == server.at[m.on]
           answer == Reply(m, TRUE)
           told == <<Event("ended", r)>>
<1>1. /\ m \in Request /\ m.slot \in Slot /\ m.on \in Connection
      /\ m.room \in MaybeRoom /\ ServerOK(server)
      /\ server.at["now"] # None => server.mine = server.at["now"]
      /\ m.on = "old" => server.at["now"] = None
      /\ m.op = "dissolve"
  BY RequestFacts DEF Question
<1>2. r # None /\ r \in Room
  BY <1>1 DEF Dissolves, ServerOK, MaybeRoom
<1>3. told \in Seq(Notice) /\ 1 \in DOMAIN told /\ told[1].room = r
  BY <1>2, EventFields DEF MaybeRoom
<1>4. m.op \notin Activating /\ m.op \notin {"join", "rejoin", "restore"}
  BY <1>1 DEF Activating
<1>5. m.on \in {"now", "old"}
  BY <1>1 DEF Connection
<1>6. /\ ServerOK(server')
      /\ server'.mine = IF server.mine = r THEN None ELSE server.mine
      /\ server'.at["now"] = IF server.at["now"] = r THEN None ELSE server.at["now"]
      /\ server'.departed => server.departed
  BY <1>1, <1>2, GoneFields DEF Dissolves
<1>7. server'.at["now"] = None /\ server.at["now"] \in {None, r}
  BY <1>1, <1>5, <1>6
<1>8. answer \in Reaction /\ answer.slot = m.slot
  BY <1>1, ReplyFields
<1>9. Replies(m, told, answer)
  BY DEF Dissolves
<1> HIDE DEF answer, told, m
<1> QED
  BY <1>3, <1>4, <1>6, <1>7, <1>8, <1>9, HandledIsSteady DEF m

LEMMA HandleKeeps == Steady /\ Handle => Steady'
<1> SUFFICES ASSUME Steady, NEW i \in 1..Len(upstream),
                    \/ AtOnce(upstream[i])
                    \/ \A j \in 1..(i - 1) : upstream[j].op \in Question,
                    Serves(upstream[i]) \/ Refuses(upstream[i]),
                    upstream' = RemoveAt(upstream, i), UNCHANGED <<client, connected>>
             PROVE  Steady'
  BY DEF Handle
<1> DEFINE m == upstream[i]
<1>1. AtOnce(m) \/ InTurn(upstream, i)
  BY DEF InTurn
<1>2. /\ m \in Request /\ m.room \in MaybeRoom /\ ServerOK(server)
  BY RequestFacts
<1>3. m.op \in {"create", "join", "rejoin", "restore"} => InTurn(upstream, i)
  BY <1>1 DEF AtOnce, Question
<1>4. CASE m.op = "create" /\ Creates(m)
  BY <1>3, <1>4, CreatesKeeps
<1>5. CASE m.op = "join" /\ Joins(m)
  <2>1. CASE server.stage[m.room] = "waiting"
    BY <1>3, <1>5, <2>1, EntryKeeps DEF Joins, MayJoin
  <2>2. CASE server.stage[m.room] # "waiting"
    <3> DEFINE answer == [Reply(m, TRUE) EXCEPT !.rejoin = TRUE]
    <3>1. /\ answer \in Reaction /\ answer.slot = m.slot /\ answer.room = m.room
          /\ answer.rejoin
      BY <1>2, ReplyFields
    <3>2. server' = server /\ Replies(m, <<>>, answer)
      BY <1>5, <2>2 DEF Joins
    <3> HIDE DEF answer
    <3> QED
      BY <1>1, <1>5, <3>1, <3>2, RefusalKeeps
  <2> QED
    BY <2>1, <2>2
<1>6. CASE m.op \in {"rejoin", "restore"} /\ Rejoins(m)
  BY <1>3, <1>6, EntryKeeps DEF Rejoins, MayRejoin
<1>7. CASE m.op = "leave" /\ Leaves(m)
  BY <1>1, <1>7, LeavesKeeps
<1>8. CASE m.op = "dissolve" /\ Dissolves(m)
  BY <1>8, DissolvesKeeps
<1>9. CASE m.op \in Question /\ TellsRoom(m)
  <2> DEFINE answer == [Reply(m, TRUE) EXCEPT !.room = server.mine]
  <2>1. answer \in Reaction /\ answer.slot = m.slot
    <3>1. server.mine \in MaybeRoom
      BY <1>2, AtFacts
    <3> QED
      BY <1>2, <3>1, RoomTold
  <2>2. server' = server /\ Replies(m, <<>>, answer)
    BY <1>9 DEF TellsRoom
  <2>3. m.op \notin Activating
    BY <1>9 DEF Question, Activating
  <2> HIDE DEF answer
  <2> QED
    BY <1>1, <2>1, <2>2, <2>3, RefusalKeeps DEF Activating
<1>10. CASE Refuses(m)
  <2> DEFINE answer == Reply(m, FALSE)
  <2>1. /\ answer \in Reaction /\ answer.slot = m.slot /\ answer.room = m.room
        /\ ~answer.ok
    BY <1>2, ReplyFields
  <2>2. server' = server /\ Replies(m, <<>>, answer)
    BY <1>10 DEF Refuses
  <2> HIDE DEF answer
  <2> QED
    BY <1>1, <2>1, <2>2, RefusalKeeps
<1> QED
  BY <1>4, <1>5, <1>6, <1>7, <1>8, <1>9, <1>10 DEF Serves

-----------------------------------------------------------------------------
(* What happens on the server without the user.                             *)

LEMMA NewsIsSteady ==
    ASSUME Steady, ServerOK(server'),
           server'.at["now"] \in {server.at["now"], None},
           server'.at["now"] # None => server'.mine = server'.at["now"],
           server'.departed => server.departed,
           NEW told \in Seq(Notice),
           server'.at["now"] # server.at["now"] =>
              \E k \in DOMAIN told : told[k].room = server.at["now"],
           Tell(told), UNCHANGED <<client, connected, upstream>>
    PROVE  Steady'
<1> DEFINE more == inbox \o (IF connected THEN told ELSE <<>>)
<1>1. Sound(client, connected, upstream, inbox, server) /\ connected \in BOOLEAN
  BY DEF Steady
<1>2. /\ Sound(client, connected, upstream, more, server')
      /\ connected /\ Backed(client, inbox, server) => Backed(client, more, server')
  BY <1>1, NewsIsSound
<1>3. inbox' = more
  BY DEF Tell
<1> HIDE DEF more
<1> QED
  BY <1>1, <1>2, <1>3 DEF Steady

LEMMA UntoldIsSteady ==
    ASSUME Steady, ServerOK(server'), server'.at["now"] = server.at["now"],
           server'.at["now"] # None => server'.mine = server'.at["now"],
           server'.departed => server.departed,
           UNCHANGED <<client, connected, upstream, inbox>>
    PROVE  Steady'
<1>1. inbox \in Seq(Message)
  BY DEF Steady, Sound, Typed
<1>2. <<>> \in Seq(Notice)
  OBVIOUS
<1>3. Tell(<<>>)
  BY <1>1 DEF Tell
<1> QED
  BY <1>2, <1>3, NewsIsSteady

LEMMA ServerFacts ==
    ASSUME Steady
    PROVE  /\ ServerOK(server)
           /\ server.at["now"] # None => server.mine = server.at["now"]
BY DEF Steady, Sound, Typed, InOrder

LEMMA RoomEndsKeeps ==
    ASSUME Steady, NEW r \in Room, RoomEnds(r)
    PROVE  Steady'
<1> DEFINE told == IF server.mine = r THEN <<Event("ended", r)>> ELSE <<>>
<1>1. /\ ServerOK(server)
      /\ server.at["now"] # None => server.mine = server.at["now"]
  BY ServerFacts
<1>2. /\ ServerOK(server')
      /\ server'.mine = IF server.mine = r THEN None ELSE server.mine
      /\ server'.at["now"] = IF server.at["now"] = r THEN None ELSE server.at["now"]
      /\ server'.departed => server.departed
  BY <1>1, GoneFields DEF RoomEnds
<1>3. /\ told \in Seq(Notice)
      /\ server.mine = r => 1 \in DOMAIN told /\ told[1].room = r
  BY EventFields DEF MaybeRoom
<1>4. Tell(told)
  BY DEF RoomEnds
<1>5. r # None
  BY RoomAssumption
<1> HIDE DEF told
<1> QED
  BY <1>1, <1>2, <1>3, <1>4, <1>5, NewsIsSteady DEF RoomEnds

LEMMA PutOutKeeps ==
    ASSUME Steady, PutOut
    PROVE  Steady'
<1> DEFINE r == server.mine
           told == <<Event("ended", r)>>
           at == [k \in Connection |-> IF server.at[k] = r THEN None ELSE server.at[k]]
<1>1. /\ ServerOK(server) /\ r \in MaybeRoom
      /\ server.at["now"] # None => server.mine = server.at["now"]
  BY ServerFacts, AtFacts
<1>2. at \in [Connection -> MaybeRoom] /\ at["now"] = None
  BY <1>1 DEF ServerOK, MaybeRoom, Connection
<1>3. server' = [server EXCEPT !.mine = None, !.at = at]
  BY <1>1 DEF PutOut, ServerOK
<1> HIDE DEF at
<1>4. ServerOK(server') /\ server'.at = at /\ server'.departed = server.departed
  BY <1>1, <1>2, <1>3 DEF ServerOK, MaybeRoom
<1>5. told \in Seq(Notice) /\ 1 \in DOMAIN told /\ told[1].room = r
  BY <1>1, EventFields
<1>6. Tell(told)
  BY DEF PutOut
<1> HIDE DEF told
<1> QED
  BY <1>1, <1>2, <1>4, <1>5, <1>6, NewsIsSteady DEF PutOut

LEMMA QuietChangesKeep ==
    ASSUME Steady, Evicted \/ \E r \in Room : GameStarts(r) \/ BackToRoom(r)
    PROVE  Steady'
<1>1. /\ ServerOK(server)
      /\ server.at["now"] # None => server.mine = server.at["now"]
  BY ServerFacts
<1>2. CASE Evicted
  <2>1. server' = [server EXCEPT !.mine = None] /\ server.at["now"] = None
    BY <1>1, <1>2 DEF Evicted
  <2>2. /\ ServerOK(server') /\ server'.at = server.at
        /\ server'.departed = server.departed
    BY <1>1, <2>1 DEF ServerOK, MaybeRoom
  <2> QED
    BY <1>2, <2>1, <2>2, UntoldIsSteady DEF Evicted
<1>3. ASSUME NEW r \in Room, GameStarts(r)
      PROVE  Steady'
  <2>1. /\ ServerOK(server') /\ server'.at = server.at /\ server'.mine = server.mine
        /\ server'.departed => server.departed
    BY <1>1, <1>3 DEF GameStarts, ServerOK
  <2> QED
    BY <1>1, <1>3, <2>1, UntoldIsSteady DEF GameStarts
<1>4. ASSUME NEW r \in Room, BackToRoom(r)
      PROVE  Steady'
  <2>1. /\ ServerOK(server') /\ server'.at = server.at /\ server'.mine = server.mine
        /\ server'.departed => server.departed
    BY <1>1, <1>4 DEF BackToRoom, ServerOK
  <2> QED
    BY <1>1, <1>4, <2>1, UntoldIsSteady DEF BackToRoom
<1> QED
  BY <1>2, <1>3, <1>4

-----------------------------------------------------------------------------
(* The operators of the client.                                             *)

(* d is c but for its membership and what it forgets.                       *)
Forgets(c, d) ==
    /\ ClientOK(d) /\ Calmer(c, d) /\ d.started = c.started
    /\ d.pending \in {"none", c.pending} \/ c.pending # "none"

LEMMA ForgetsAgain ==
    ASSUME NEW c, NEW d, NEW e, ClientOK(c), Forgets(c, d), Forgets(d, e)
    PROVE  Forgets(c, e)
<1>1. ClientOK(d) /\ ClientOK(e) /\ Calmer(c, d) /\ Calmer(d, e)
  BY DEF Forgets
<1>2. ASSUME NEW s \in Slot
      PROVE  \/ e.call[s] \in {c.call[s], Idle}
             \/ c.call[s].op # "none" /\ e.call[s] = [c.call[s] EXCEPT !.current = FALSE]
  <2>1. c.call[s] \in Call /\ d.call[s] \in Call
    BY <1>1 DEF ClientOK
  <2>2. CASE d.call[s] = Idle
    BY <1>1, <2>2 DEF Calmer, Idle
  <2>3. CASE d.call[s] = c.call[s]
    BY <1>1, <2>3 DEF Calmer
  <2>4. CASE /\ c.call[s].op # "none"
             /\ d.call[s] = [c.call[s] EXCEPT !.current = FALSE]
    BY <1>1, <2>1, <2>4 DEF Calmer, Call
  <2> QED
    BY <1>1, <2>2, <2>3, <2>4 DEF Calmer
<1>3. Calmer(c, e)
  BY <1>2 DEF Calmer
<1>4. e.started = c.started /\ (e.pending \in {"none", c.pending} \/ c.pending # "none")
  BY DEF Forgets
<1> QED
  BY <1>1, <1>3, <1>4 DEF Forgets

LEMMA StaleFields ==
    ASSUME NEW c, ClientOK(c)
    PROVE  /\ Forgets(c, Stale(c))
           /\ Stale(c).membership = c.membership /\ Stale(c).room = c.room
           /\ Stale(c).pending = c.pending
           /\ Stale(c).pendingRoom = c.pendingRoom
           /\ \A s \in Slot : /\ ~Stale(c).call[s].current \/ Stale(c).call[s] = Idle
                              /\ Stale(c).call[s].op \in {"none", "connecting", "reconcile"}
<1> DEFINE call == [s \in Slot |->
              IF c.call[s].op \in {"connecting", "reconcile"}
              THEN [c.call[s] EXCEPT !.current = FALSE] ELSE Idle]
<1>1. \A s \in Slot : c.call[s] \in Call
  BY DEF ClientOK
<1>2. Idle \in Call
  BY DEF Idle, Call, MaybeRoom
<1>3. call \in [Slot -> Call]
  BY <1>1, <1>2 DEF Call
<1>4. \A s \in Slot :
         /\ ~call[s].current \/ call[s] = Idle
         /\ call[s].op \in {"none", "connecting", "reconcile"}
         /\ \/ call[s] \in {c.call[s], Idle}
            \/ /\ c.call[s].op # "none"
               /\ call[s] = [c.call[s] EXCEPT !.current = FALSE]
  BY <1>1 DEF Idle, Call
<1>5. Stale(c) = [c EXCEPT !.call = call]
  BY DEF Stale, ClientOK
<1> HIDE DEF call
<1>6. Stale(c).call = call
  BY <1>5 DEF ClientOK
<1>7. Calmer(c, Stale(c))
  BY <1>4, <1>6 DEF Calmer
<1>8. /\ ClientOK(Stale(c)) /\ Stale(c).started = c.started
      /\ Stale(c).membership = c.membership /\ Stale(c).room = c.room
      /\ Stale(c).pending = c.pending
      /\ Stale(c).pendingRoom = c.pendingRoom
  BY <1>3, <1>5 DEF ClientOK
<1> QED
  BY <1>4, <1>6, <1>7, <1>8 DEF Forgets

(* The membership is another; the calls are the same.                       *)
LEMMA MembershipFields ==
    ASSUME NEW c, ClientOK(c), NEW r \in MaybeRoom
    PROVE  /\ Forgets(c, suspendRoom(c, r)) /\ suspendRoom(c, r).membership = "suspended"
           /\ Forgets(c, activateRoom(c, r)) /\ activateRoom(c, r).membership = "active"
           /\ activateRoom(c, r).room = r /\ activateRoom(c, r).pending = c.pending
           /\ activateRoom(c, r).call = c.call
           /\ suspendRoom(c, r).call = c.call /\ suspendRoom(c, r).pending = c.pending
           /\ suspended(c, r).membership # "active"
           /\ suspended(c, r).membership \in {"suspended", "unknown"}
           /\ Forgets(c, suspended(c, r))
           /\ suspended(c, r).call = c.call
           /\ suspended(c, r).pending = c.pending
BY DEF ClientOK, Forgets, Calmer, suspendRoom, activateRoom, suspended,
       suspendUnknownMembership, MaybeRoom

LEMMA ResetFields ==
    ASSUME NEW c, ClientOK(c)
    PROVE  /\ Forgets(c, resetRoomState(c))
           /\ resetRoomState(c).membership = "none"
           /\ \A s \in Slot : resetRoomState(c).call[s].op \in {"none", "connecting", "reconcile"}
<1> DEFINE d == Stale(c)
<1>1. /\ Forgets(c, d)
      /\ \A s \in Slot : d.call[s].op \in {"none", "connecting", "reconcile"}
  BY StaleFields
<1>2. resetRoomState(c) = [d EXCEPT !.operating = FALSE, !.pending = "none",
              !.pendingRoom = None, !.membership = "none", !.room = None]
  BY DEF resetRoomState
<1> HIDE DEF d
<1> DEFINE e == resetRoomState(c)
<1> HIDE DEF e
<1>3. /\ ClientOK(e) /\ e.call = d.call /\ e.membership = "none"
      /\ e.pending = "none" /\ e.started = d.started
  BY <1>1, <1>2 DEF ClientOK, Forgets, MaybeRoom, e
<1>4. Forgets(c, e)
  BY <1>1, <1>3 DEF Forgets, Calmer
<1> QED
  BY <1>1, <1>3, <1>4 DEF e

LEMMA BeginFields ==
    ASSUME NEW c, ClientOK(c)
    PROVE  LET d == beginMembershipOperation(c)
           IN  /\ Forgets(c, d)
               /\ d.membership = c.membership /\ d.room = c.room
               /\ d.pending = "none"
               /\ \A s \in Slot : ~d.call[s].current \/ d.call[s] = Idle
<1> DEFINE e == Stale(c)
           d == beginMembershipOperation(c)
<1>1. /\ Forgets(c, e) /\ e.membership = c.membership /\ e.room = c.room
      /\ \A s \in Slot : ~e.call[s].current \/ e.call[s] = Idle
  BY StaleFields
<1>2. d = [e EXCEPT !.pending = "none", !.pendingRoom = None, !.operating = TRUE]
  BY DEF beginMembershipOperation
<1> HIDE DEF e, d
<1>3. /\ ClientOK(d) /\ d.call = e.call /\ d.membership = e.membership
      /\ d.room = e.room /\ d.pending = "none" /\ d.started = e.started
  BY <1>1, <1>2 DEF ClientOK, Forgets, MaybeRoom
<1>4. Forgets(c, d)
  BY <1>1, <1>3 DEF Forgets, Calmer
<1> QED
  BY <1>1, <1>3, <1>4 DEF d

LEMMA IdleFields ==
    ASSUME NEW c, ClientOK(c), NEW s \in Slot
    PROVE  LET d == [c EXCEPT !.call[s] = Idle]
           IN  /\ Forgets(c, d) /\ d.call[s] = Idle
               /\ d.membership = c.membership /\ d.room = c.room
               /\ d.pending = c.pending
               /\ \A t \in Slot : t # s => d.call[t] = c.call[t]
<1>1. Idle \in Call
  BY DEF Idle, Call, MaybeRoom
<1> QED
  BY <1>1 DEF ClientOK, Forgets, Calmer

LEMMA EndedFields ==
    ASSUME NEW c, ClientOK(c), NEW s \in Slot, NEW asked \in BOOLEAN
    PROVE  LET d == Ended(c, s, asked)
           IN  /\ Forgets(c, d) /\ d.call[s] = Idle
               /\ d.membership = c.membership /\ d.room = c.room
               /\ d.pending = c.pending \/ c.pending = "taken"
               /\ \A t \in Slot : t # s => d.call[t] = c.call[t]
<1> DEFINE d == Ended(c, s, asked)
           e == [c EXCEPT !.call[s] = Idle]
<1>1. /\ Forgets(c, e) /\ e.call[s] = Idle
      /\ e.membership = c.membership /\ e.room = c.room
      /\ e.pending = c.pending
      /\ \A t \in Slot : t # s => e.call[t] = c.call[t]
  BY IdleFields
<1>2. PICK operating \in BOOLEAN, pending \in {"none", "open", "taken"} :
         /\ pending = c.pending \/ c.pending = "taken"
         /\ d = [e EXCEPT !.operating = operating, !.pending = pending]
  <2>1. CASE client.call[s].op \in Operation \cup {"connecting"}
    <3>1. d = [c EXCEPT !.operating = c.operating /\ ~c.call[s].current, !.call[s] = Idle]
      BY <2>1 DEF Ended, finishMembershipOperation
    <3>2. d = [e EXCEPT !.operating = c.operating /\ ~c.call[s].current,
                        !.pending = c.pending]
      BY <3>1 DEF ClientOK
    <3>3. (c.operating /\ ~c.call[s].current) \in BOOLEAN /\ c.pending \in {"none", "open", "taken"}
      BY DEF ClientOK
    <3> QED
      BY <3>2, <3>3
  <2>2. CASE client.call[s].op \notin Operation \cup {"connecting"}
    <3> DEFINE now == IF client.call[s].op = "reconcile" /\ c.pending = "taken"
                      THEN IF asked THEN "none" ELSE "open" ELSE c.pending
    <3>1. d = [c EXCEPT !.call[s] = Idle, !.pending = now]
      BY <2>2 DEF Ended, ClientOK
    <3>2. now \in {"none", "open", "taken"} /\ (now = c.pending \/ c.pending = "taken")
      BY DEF ClientOK
    <3> HIDE DEF now
    <3>3. d = [e EXCEPT !.operating = c.operating, !.pending = now]
      BY <3>1 DEF ClientOK
    <3>4. c.operating \in BOOLEAN
      BY DEF ClientOK
    <3> QED
      BY <3>2, <3>3, <3>4
  <2> QED
    BY <2>1, <2>2
<1> HIDE DEF d, e
<1>3. /\ ClientOK(d) /\ d.call = e.call /\ d.membership = e.membership
      /\ d.room = e.room /\ d.pending = pending /\ d.started = e.started
  BY <1>1, <1>2 DEF ClientOK, Forgets
<1>4. /\ Forgets(c, d) /\ d.call[s] = Idle
      /\ d.membership = c.membership /\ d.room = c.room
      /\ d.pending = c.pending \/ c.pending = "taken"
      /\ \A t \in Slot : t # s => d.call[t] = c.call[t]
  BY <1>1, <1>2, <1>3 DEF Forgets, Calmer
<1> QED
  BY <1>4 DEF d

-----------------------------------------------------------------------------
(* The steps of the client.                                                 *)

LEMMA ForgettingIsSteady ==
    ASSUME NEW c, NEW conn \in BOOLEAN, NEW up, NEW in, NEW srv,
           Sound(c, conn, up, in, srv), NEW d, Forgets(c, d),
           NEW rest, (rest = in) \/ (in # <<>> /\ rest = Tail(in)),
           d.membership # "none" => c.started,
           d.membership = "active" =>
              /\ d.room \in Room /\ d.pending = "none"
              /\ \A s \in Slot : ~Current(d, s, {"connecting"})
              /\ LeavesClaimed(d, up)
              /\ conn => Backed(d, rest, srv)
              /\ "leave" \notin Gap => Stays(d, up, rest, srv)
    PROVE  /\ Sound(d, conn, up, rest, srv)
           /\ conn => Backed(d, rest, srv)
<1>1. /\ ClientOK(c) /\ Sensible(c) /\ ClientOK(d) /\ Calmer(c, d)
      /\ d.started = c.started
      /\ d.pending \in {"none", c.pending} \/ c.pending # "none"
  BY DEF Sound, Typed, Forgets
<1>2. Sensible(d)
  <2>1. ASSUME NEW s \in Slot, d.call[s].op # "none"
        PROVE  d.call[s].op = c.call[s].op /\ d.call[s].room = c.call[s].room
    BY <1>1, <2>1, CalmerCurrent
  <2>2. ASSUME NEW s \in Slot
        PROVE  d.call[s].op \in {c.call[s].op, "none"}
    BY <1>1, CalmerCurrent
  <2> QED
    BY <1>1, <2>1, <2>2 DEF Sensible
<1>3. /\ LeavesClaimed(d, up) /\ (conn => Backed(d, rest, srv))
      /\ "leave" \notin Gap => Stays(d, up, rest, srv)
  BY DEF LeavesClaimed, Backed, Stays
<1> QED
  BY <1>1, <1>2, <1>3, ForgettingIsSound

(* The first message, if it is an answer.                                   *)
LEMMA HeadFacts ==
    ASSUME Steady, inbox # <<>>
    PROVE  /\ connected
           /\ inbox \in Seq(Message) /\ 1 \in DOMAIN inbox
           /\ Head(inbox) = inbox[1] /\ inbox[1] \in Message
           /\ \A j \in DOMAIN inbox : j # 1 => /\ j - 1 \in DOMAIN Tail(inbox)
                                               /\ Tail(inbox)[j - 1] = inbox[j]
           /\ inbox[1].type = "answer" => inbox[1] \in Reaction
<1>1. inbox \in Seq(Message) /\ InOrder(connected, upstream, inbox, server)
  BY DEF Steady, Sound, Typed
<1>2. connected
  BY <1>1 DEF InOrder
<1>3. /\ DOMAIN inbox = 1..Len(inbox) /\ Len(inbox) \in Nat \ {0}
      /\ DOMAIN Tail(inbox) = 1..(Len(inbox) - 1)
      /\ \A j \in 1..(Len(inbox) - 1) : Tail(inbox)[j] = inbox[j + 1]
  BY <1>1, TailFacts
<1>4. 1 \in DOMAIN inbox /\ inbox[1] \in Message /\ Head(inbox) = inbox[1]
  BY <1>1, <1>3
<1>5. ASSUME NEW j \in DOMAIN inbox, j # 1
      PROVE  j - 1 \in DOMAIN Tail(inbox) /\ Tail(inbox)[j - 1] = inbox[j]
  BY <1>3, <1>5
<1>6. inbox[1].type = "answer" => inbox[1] \in Reaction
  BY <1>4 DEF Message, Notice
<1> QED
  BY <1>1, <1>2, <1>4, <1>5, <1>6

LEMMA AppliedFields ==
    ASSUME Steady, inbox # <<>>, NEW a, a = inbox[1], a.type = "answer",
           NEW k, k = client.call[a.slot], k.current
    PROVE  LET c == Applied(client, k, a)
           IN  /\ Forgets(client, c)
               /\ c.membership # "none" => client.started
               /\ \/ c.membership \in {"none", "suspended"}
                  \/ /\ c = client
                     /\ ~(k.op = "restore" /\ InRoom(client, k.room))
                     /\ ~(k.op = "leave" /\ a.ok)
                  \/ /\ c = activateRoom(client, a.room)
                     /\ Enters(client, inbox, 1)
                     /\ k.op = "restore" => client.membership = "active"
<1> DEFINE c == Applied(client, k, a)
<1>1. ClientOK(client) /\ Matched(client, upstream, inbox)
  BY DEF Steady, Sound, Typed
<1>2. /\ a \in Reaction /\ a.slot \in Slot /\ a.room \in MaybeRoom /\ 1 \in DOMAIN inbox
  BY HeadFacts DEF Reaction
<1>3. k \in Call /\ k.room \in MaybeRoom
  BY <1>1, <1>2 DEF ClientOK, Call
<1>4. k.op \in {"join", "rejoin", "restore"} => k.room = a.room
  BY <1>1, <1>2 DEF Matched
<1>5. Forgets(client, client)
  BY <1>1 DEF Forgets, Calmer
<1>6. /\ \A r \in MaybeRoom : /\ Forgets(client, suspendRoom(client, r))
                              /\ suspendRoom(client, r).membership = "suspended"
                              /\ suspendRoom(client, r).call = client.call
                              /\ Forgets(client, activateRoom(client, r))
      /\ Forgets(client, resetRoomState(client))
      /\ resetRoomState(client).membership = "none"
  BY <1>1, MembershipFields, ResetFields
<1>7. /\ k.op # "none" => client.started
      /\ client.membership # "none" => client.started
  BY <1>2 DEF Steady, Sound, Sensible
<1>8. Answered(client, inbox, {k.op}, 1)
  BY DEF Answered, Current
<1>9. k.op \in Activating /\ a.ok /\ (k.op = "join" => ~a.rejoin) => Enters(client, inbox, 1)
  BY <1>8 DEF Enters, Answered, Current
<1>10. CASE k.op = "create"
  <2>1. c = IF a.ok THEN activateRoom(client, a.room) ELSE client
    BY <1>10 DEF Applied
  <2> HIDE DEF c
  <2>2. Forgets(client, c)
    BY <1>2, <1>5, <1>6, <2>1
  <2>3. k.op \in Activating
    BY <1>10 DEF Activating
  <2>4. a.ok => Enters(client, inbox, 1)
    BY <1>9, <1>10, <2>3
  <2> QED
    BY <1>7, <1>10, <2>1, <2>2, <2>4 DEF c
<1>11. CASE k.op = "join"
  <2>1. c = IF ~a.ok THEN client
            ELSE IF a.rejoin THEN suspendRoom(client, a.room)
            ELSE activateRoom(client, a.room)
    BY <1>4, <1>11 DEF Applied
  <2> HIDE DEF c
  <2>2. Forgets(client, c)
    BY <1>2, <1>5, <1>6, <2>1
  <2>3. k.op \in Activating
    BY <1>11 DEF Activating
  <2>4. a.ok /\ ~a.rejoin => Enters(client, inbox, 1)
    BY <1>9, <2>3
  <2>6. a.ok /\ a.rejoin => c.membership = "suspended"
    BY <1>2, <1>6, <2>1
  <2> QED
    BY <1>7, <1>11, <2>1, <2>2, <2>4, <2>6 DEF c
<1>12. CASE k.op = "rejoin"
  <2>1. c = IF a.ok THEN activateRoom(client, a.room) ELSE suspendRoom(client, a.room)
    BY <1>4, <1>12 DEF Applied, handleRejoinFailure
  <2> HIDE DEF c
  <2>2. Forgets(client, c)
    BY <1>2, <1>5, <1>6, <2>1
  <2>3. k.op \in Activating
    BY <1>12 DEF Activating
  <2>4. a.ok => Enters(client, inbox, 1)
    BY <1>9, <1>12, <2>3
  <2>6. ~a.ok => c.membership = "suspended"
    BY <1>2, <1>6, <2>1
  <2> QED
    BY <1>7, <1>12, <2>1, <2>2, <2>4, <2>6 DEF c
<1>13. CASE k.op = "restore"
  <2>1. c = IF ~InRoom(client, k.room) THEN client
            ELSE IF a.ok THEN activateRoom(client, a.room)
            ELSE suspendRoom(client, a.room)
    BY <1>4, <1>13 DEF Applied, handleRejoinFailure
  <2> HIDE DEF c
  <2>2. Forgets(client, c)
    BY <1>2, <1>5, <1>6, <2>1
  <2>3. k.op \in Activating
    BY <1>13 DEF Activating
  <2>4. a.ok => Enters(client, inbox, 1)
    BY <1>9, <1>13, <2>3
  <2>6. InRoom(client, k.room) /\ ~a.ok => c.membership = "suspended"
    BY <1>2, <1>6, <2>1
  <2>7. InRoom(client, k.room) => client.membership = "active"
    BY DEF InRoom
  <2> QED
    BY <1>7, <1>13, <2>1, <2>2, <2>4, <2>6, <2>7 DEF c
<1>14. CASE k.op = "leave"
  <2>1. c = IF ~a.ok THEN client
            ELSE IF a.suspended THEN suspendRoom(client, k.room)
            ELSE resetRoomState(client)
    BY <1>14 DEF Applied
  <2> HIDE DEF c
  <2>2. Forgets(client, c)
    BY <1>3, <1>5, <1>6, <2>1
  <2>4. a.ok => c.membership \in {"none", "suspended"}
    BY <1>3, <1>6, <2>1
  <2> QED
    BY <1>7, <1>14, <2>1, <2>2, <2>4 DEF c
<1>15. CASE k.op \notin {"create", "join", "rejoin", "restore", "leave"}
  <2>1. \/ c = client
        \/ c = resetRoomState(client)
        \/ c = suspendRoom(client, a.room) /\ k.op # "none"
    BY <1>15 DEF Applied
  <2> HIDE DEF c
  <2>2. Forgets(client, c)
    BY <1>2, <1>5, <1>6, <2>1
  <2>4. c = client \/ c.membership \in {"none", "suspended"}
    BY <1>2, <1>6, <2>1
  <2> QED
    BY <1>6, <1>7, <1>15, <2>1, <2>2, <2>4 DEF c
<1> QED
  BY <1>10, <1>11, <1>12, <1>13, <1>14, <1>15

(* An answer is taken from the inbox, and its call is over.                 *)
LEMMA AnsweredIsSteady ==
    ASSUME Steady, inbox # <<>>, NEW a, a = inbox[1], a.type = "answer",
           NEW k, k = client.call[a.slot],
           NEW c, c = IF k.current THEN Applied(client, k, a) ELSE client,
           NEW e, Forgets(c, e), e.call[a.slot] = Idle,
           e.membership = c.membership, e.room = c.room,
           e.pending = c.pending \/ c.pending = "taken",
           \A t \in Slot : t # a.slot => e.call[t] = c.call[t]
    PROVE  /\ Sound(e, connected, upstream, Tail(inbox), server)
           /\ connected => Backed(e, Tail(inbox), server)
<1> DEFINE s == a.slot
           rest == Tail(inbox)
<1>1. /\ Sound(client, connected, upstream, inbox, server) /\ connected \in BOOLEAN
      /\ ClientOK(client) /\ upstream \in Seq(Request)
  BY DEF Steady, Sound, Typed
<1>2. /\ connected /\ 1 \in DOMAIN inbox /\ s \in Slot /\ inbox \in Seq(Message)
      /\ \A j \in DOMAIN inbox : j # 1 => /\ j - 1 \in DOMAIN rest
                                          /\ rest[j - 1] = inbox[j]
  BY HeadFacts DEF Reaction
<1>3. Backed(client, inbox, server)
  BY <1>2 DEF Steady
<1>4. /\ client.membership # "none" => client.started
      /\ client.membership = "active" => client.room \in Room /\ client.pending = "none"
  BY <1>1 DEF Sound, Sensible
<1>5. Forgets(client, c) /\ (c.membership # "none" => client.started)
  <2>1. CASE k.current
    BY <2>1, AppliedFields
  <2>2. CASE ~k.current
    BY <1>1, <1>4, <2>2 DEF Forgets, Calmer
  <2> QED
    BY <2>1, <2>2
<1>6. Forgets(client, e)
  BY <1>1, <1>5, ForgetsAgain
<1>7. \A i \in DOMAIN upstream : upstream[i].slot # s /\ upstream[i].slot \in Slot
  <2>1. OnePerSlot(upstream, inbox)
    BY <1>1 DEF Sound
  <2>2. \A i \in DOMAIN upstream : upstream[i] \in Request
    BY <1>1
  <2> QED
    BY <1>2, <2>1, <2>2 DEF OnePerSlot, Request
<1>13. \A t \in Slot : e.call[t].current => t # s /\ e.call[t] = c.call[t]
  <2>1. ~Idle.current
    BY DEF Idle
  <2>2. e.call[s] = Idle /\ \A t \in Slot : t # s => e.call[t] = c.call[t]
    OBVIOUS
  <2> HIDE DEF s
  <2> QED
    BY <2>1, <2>2
<1>8. CASE e.membership # "active"
  BY <1>1, <1>5, <1>6, <1>8, ForgettingIsSteady
<1>9. CASE /\ client.membership = "active" /\ c = client
           /\ ~(k.current /\ k.op = "restore" /\ k.room = client.room)
           /\ ~(k.current /\ k.op = "leave" /\ a.ok)
  <2>1. e.membership = "active" /\ e.room \in Room /\ e.room = client.room /\ e.pending = "none"
    BY <1>4, <1>9
  <2>2. \A t \in Slot : ~Current(e, t, {"connecting"})
    <3>1. \A t \in Slot : ~Current(client, t, {"connecting"})
      BY <1>1, <1>9 DEF Sound, OneAtATime
    <3> QED
      BY <1>9, <1>13, <3>1 DEF Current
  <2>3. LeavesClaimed(e, upstream)
    <3>1. LeavesClaimed(client, upstream)
      BY <1>1 DEF Sound
    <3> QED
      BY <1>7, <1>9, <3>1 DEF LeavesClaimed, Current
  <2>4. ASSUME NEW j \in DOMAIN inbox, Answered(client, inbox, {"leave"}, j), inbox[j].ok
        PROVE  \E i \in DOMAIN rest : Answered(e, rest, {"leave"}, i) /\ rest[i].ok
    <3>1. j # 1
      BY <1>9, <2>4 DEF Answered, Current
    <3>2. inbox[j].slot # s
      BY <1>1, <1>2, <2>4, <3>1 DEF Sound, OnePerSlot, Answered
    <3>3. inbox[j].slot \in Slot
      BY <1>2, <2>4 DEF Answered, Message, Reaction, Notice
    <3>4. j - 1 \in DOMAIN rest /\ rest[j - 1] = inbox[j]
      BY <1>2, <3>1
    <3>5. Answered(e, rest, {"leave"}, j - 1) /\ rest[j - 1].ok
      BY <1>9, <2>4, <3>2, <3>3, <3>4 DEF Answered, Current
    <3> QED
      BY <3>4, <3>5
  <2>5. Backed(e, rest, server)
    <3>1. CASE server.at["now"] = client.room
      BY <2>1, <3>1 DEF Backed
    <3>2. ASSUME NEW j \in DOMAIN inbox, Ending(inbox, j, client.room)
          PROVE  Backed(e, rest, server)
      <4>1. j # 1
        BY <3>2 DEF Ending
      <4>2. j - 1 \in DOMAIN rest /\ Ending(rest, j - 1, e.room)
        BY <1>2, <2>1, <3>2, <4>1 DEF Ending
      <4> QED
        BY <4>2 DEF Backed
    <3>3. ASSUME NEW t \in Slot, Current(client, t, {"restore"}),
                 client.call[t].room = client.room
          PROVE  Backed(e, rest, server)
      <4>1. t # s
        BY <1>9, <3>3 DEF Current
      <4>2. Current(e, t, {"restore"}) /\ e.call[t].room = e.room
        BY <1>9, <2>1, <3>3, <4>1 DEF Current
      <4> QED
        BY <4>2 DEF Backed
    <3>4. (\E j \in DOMAIN rest : Answered(e, rest, {"leave"}, j) /\ rest[j].ok)
             => Backed(e, rest, server)
      BY DEF Backed
    <3> QED
      BY <1>3, <1>9, <2>4, <3>1, <3>2, <3>3, <3>4 DEF Backed
  <2>6. "leave" \notin Gap => Stays(e, upstream, rest, server)
    <3>1. "leave" \notin Gap => Stays(client, upstream, inbox, server)
      BY <1>1 DEF Sound, Lasting
    <3> QED
      BY <1>9, <2>4, <3>1 DEF Stays
  <2> QED
    BY <1>1, <1>5, <1>6, <2>1, <2>2, <2>3, <2>5, <2>6, ForgettingIsSteady
<1>10. CASE /\ k.current /\ c = activateRoom(client, a.room)
            /\ Enters(client, inbox, 1)
            /\ k.op = "restore" => client.membership = "active"
  <2>1. /\ c.membership = "active" /\ c.room = a.room /\ c.pending = client.pending
        /\ c.call = client.call
    <3>1. a.room \in MaybeRoom
      BY HeadFacts DEF Reaction
    <3> QED
      BY <1>1, <1>10, <3>1, MembershipFields
  <2>2. /\ a.room \in Room
        /\ \/ server.at["now"] = a.room
           \/ \E i \in DOMAIN inbox : i > 1 /\ Ending(inbox, i, a.room)
    BY <1>1, <1>2, <1>10 DEF Sound, AnswersTrue
  <2>3. k.op \in Activating
    BY <1>10 DEF Enters, Answered, Current
  <2>4. k.op \in Entering => Sole(client, s)
    BY <1>1, <1>2, <1>10 DEF Sound, OneAtATime, Answered, Current
  <2>5. client.pending = "none"
    BY <1>4, <1>10, <2>3, <2>4 DEF Activating, Entering, Sole
  <2>6. e.membership = "active" /\ e.room = a.room /\ e.pending = "none"
    BY <2>1, <2>5
  <2>7. ASSUME NEW t \in Slot, Current(e, t, {"connecting"})
        PROVE  FALSE
    <3>1. t # s /\ e.call[t] = client.call[t]
      <4>1. e.call[t].current
        BY <2>7 DEF Current
      <4>2. t # s /\ e.call[t] = c.call[t]
        BY <1>13, <4>1
      <4>3. c.call = client.call
        BY <2>1
      <4> QED
        BY <4>2, <4>3
    <3>2. Current(client, t, {"connecting"})
      BY <2>7, <3>1 DEF Current
    <3>3. CASE client.membership = "active"
      BY <1>1, <3>2, <3>3 DEF Sound, OneAtATime
    <3>4. CASE k.op \in Entering
      BY <2>4, <3>1, <3>2, <3>4 DEF Sole, Current, Question
    <3> QED
      BY <1>10, <2>3, <3>3, <3>4 DEF Activating, Entering
  <2>8. LeavesClaimed(e, upstream)
    <3>1. Answered(client, inbox, Activating, 1)
      BY <1>10 DEF Enters
    <3> QED
      BY <1>1, <1>2, <3>1 DEF Sound, LeavesFirst, LeavesClaimed
  <2>9. Backed(e, rest, server)
    <3>1. CASE server.at["now"] = a.room
      BY <2>6, <3>1 DEF Backed
    <3>2. ASSUME NEW i \in DOMAIN inbox, i > 1, Ending(inbox, i, a.room)
          PROVE  Backed(e, rest, server)
      <4>1. i - 1 \in DOMAIN rest /\ rest[i - 1] = inbox[i]
        BY <1>2, <3>2
      <4>2. Ending(rest, i - 1, e.room)
        BY <2>6, <3>2, <4>1 DEF Ending
      <4> QED
        BY <4>1, <4>2 DEF Backed
    <3> QED
      BY <2>2, <3>1, <3>2
  <2>10. "leave" \notin Gap => Stays(e, upstream, rest, server)
    <3>1. "leave" \notin Gap => EntersToStay(client, upstream, inbox, server)
      BY <1>1 DEF Sound, Lasting
    <3> QED
      BY <1>2, <1>10, <3>1 DEF EntersToStay, Stays
  <2> QED
    BY <1>1, <1>5, <1>6, <2>2, <2>6, <2>7, <2>8, <2>9, <2>10, ForgettingIsSteady
<1>11. CASE ~k.current /\ e.membership = "active"
  BY <1>9, <1>11
<1>12. CASE k.current /\ e.membership = "active"
  <2>1. \/ /\ c = client
           /\ ~(k.op = "restore" /\ InRoom(client, k.room))
           /\ ~(k.op = "leave" /\ a.ok)
        \/ /\ c = activateRoom(client, a.room)
           /\ Enters(client, inbox, 1)
           /\ k.op = "restore" => client.membership = "active"
    BY <1>12, AppliedFields
  <2> QED
    BY <1>9, <1>10, <1>12, <2>1 DEF InRoom
<1> QED
  BY <1>8, <1>11, <1>12

(* A client that waits for nothing but answers to its questions.            *)
OnlyAsks(c) == \A s \in Slot : c.call[s].current => c.call[s].op \in Question

LEMMA OnlyAsksFacts ==
    ASSUME NEW c, OnlyAsks(c), NEW up \in Seq(Request), NEW in \in Seq(Message)
    PROVE  /\ NoneLive(c, up, in)
           /\ \A i \in DOMAIN up : ~Asked(c, up, Activating, i)
           /\ \A j \in DOMAIN in : ~Answered(c, in, Activating, j)
<1>1. /\ \A i \in DOMAIN up : up[i].slot \in Slot
      /\ \A j \in DOMAIN in : in[j].type = "answer" => in[j].slot \in Slot
  BY DEF Request, Message, Reaction, Notice
<1> QED
  BY <1>1 DEF OnlyAsks, NoneLive, Asked, Answered, Current, Activating,
              Entering, Question

LEMMA FreeOfCalmer ==
    ASSUME NEW c, NEW d, Calmer(c, d), Free(c) # {}
    PROVE  Free(d) # {}
<1>1. PICK s \in Free(c) : TRUE
  OBVIOUS
<1>2. s \in Slot /\ c.call[s] = Idle /\ Idle.op = "none"
  BY <1>1 DEF Free, Idle
<1>3. d.call[s] = Idle
  BY <1>2 DEF Calmer
<1>4. s \in Free(d)
  BY <1>1, <1>3 DEF Free
<1> QED
  BY <1>4

LEMMA RequestIsSteady ==
    ASSUME NEW c, NEW conn, NEW in,
           (in = inbox) \/ (inbox # <<>> /\ in = Tail(inbox)),
           inbox \in Seq(Message),
           NEW srv, Sound(c, conn, upstream, in, srv), Free(c) # {}, c.started,
           NEW op \in Operation \cup Question \cup {"restore"},
           NEW r \in MaybeRoom,
           op \in {"join", "rejoin", "restore", "leave", "dissolve"} => r \in Room,
           op \in Operation => OnlyAsks(c),
           op \in Entering => c.pending = "none",
           op = "restore" => NoneLive(c, upstream, in),
           op = "restore" /\ "leave" \notin Gap =>
              ~srv.departed /\ \A j \in DOMAIN upstream : upstream[j].op # "leave"
    PROVE  LET step == request(c, op, r)
           IN  /\ Sound(step.client, TRUE, upstream \o step.sends, in, srv)
               /\ Backed(c, in, srv) => Backed(step.client, in, srv)
               /\ step.client.membership = c.membership
               /\ step.client.room = c.room
               /\ FreeSlot(c) \in Slot
               /\ step.client.call[FreeSlot(c)] =
                     [op |-> op, room |-> r, current |-> TRUE]
<1> DEFINE s == FreeSlot(c)
           m == [slot |-> s, op |-> op, room |-> r, on |-> "now"]
           step == request(c, op, r)
<1>1. s \in Free(c)
  BY FreeSlotIsFree
<1>2. /\ s \in Slot /\ c.call[s] = Idle
      /\ \A i \in DOMAIN upstream : upstream[i].slot # s
      /\ \A j \in DOMAIN inbox : inbox[j].slot # s
  BY <1>1, FreeOfMessages
<1>3. /\ ClientOK(c) /\ upstream \in Seq(Request) /\ in \in Seq(Message)
  BY DEF Sound, Typed
<1>4. \A j \in DOMAIN in : in[j].slot # s
  <2>1. CASE in = inbox
    BY <1>2, <2>1
  <2>2. CASE inbox # <<>> /\ in = Tail(inbox)
    <3>1. /\ DOMAIN inbox = 1..Len(inbox) /\ Len(inbox) \in Nat \ {0}
          /\ DOMAIN in = 1..(Len(inbox) - 1)
          /\ \A j \in 1..(Len(inbox) - 1) : in[j] = inbox[j + 1]
      BY <2>2, TailFacts
    <3> QED
      BY <1>2, <3>1
  <2> QED
    BY <2>1, <2>2
<1>5. m \in Request /\ m.slot = s /\ m.op = op /\ m.room = r /\ m.on = "now"
  BY <1>2 DEF Request, Connection
<1>6. step.client = Calling(c, m, TRUE) /\ step.sends = <<m>>
  BY <1>5 DEF request, Calling
<1>7. Unused(c, upstream, in, m.slot)
  BY <1>2, <1>4, <1>5 DEF Unused
<1>8. op \in {"leave", "dissolve"} => op \in Operation
  BY DEF Operation
<1>9. op \in Entering => op \in Operation
  BY DEF Operation, Entering
<1>10. OnlyAsks(c) => /\ NoneLive(c, upstream, in)
                      /\ \A i \in DOMAIN upstream : ~Asked(c, upstream, Activating, i)
                      /\ \A j \in DOMAIN in : ~Answered(c, in, Activating, j)
  BY <1>3, OnlyAsksFacts
<1>11. op \in Entering => Sole(c, s)
  BY <1>9 DEF OnlyAsks, Sole
<1> HIDE DEF s, m, step
<1>12. Sound(Calling(c, m, TRUE), TRUE, upstream \o <<m>>, in, srv)
  BY <1>5, <1>7, <1>8, <1>10, <1>11, CallingIsSound
<1>13. Backed(c, in, srv) => Backed(Calling(c, m, TRUE), in, srv)
  BY <1>3, <1>5, <1>7, CallingIsBacked
<1>14. /\ Calling(c, m, TRUE).membership = c.membership
       /\ Calling(c, m, TRUE).room = c.room
       /\ Calling(c, m, TRUE).call[m.slot] =
             [op |-> m.op, room |-> m.room, current |-> TRUE]
  BY <1>3, <1>5, CallingFields
<1>15. s = FreeSlot(c)
  BY DEF s
<1> QED
  BY <1>2, <1>5, <1>6, <1>12, <1>13, <1>14, <1>15 DEF step

(* The question that finds out what became of a call, if it is asked.       *)
LEMMA ReconcileIsSteady ==
    ASSUME NEW c, NEW conn \in BOOLEAN, NEW in,
           (in = inbox) \/ (inbox # <<>> /\ in = Tail(inbox)),
           inbox \in Seq(Message),
           NEW srv, Sound(c, conn, upstream, in, srv), Free(c) # {},
           NEW up \in BOOLEAN, up => conn, conn => Backed(c, in, srv)
    PROVE  LET step == reconcilePendingMembership(c, up)
           IN  /\ Sound(step.client, conn, upstream \o step.sends, in, srv)
               /\ conn => Backed(step.client, in, srv)
<1> DEFINE step == reconcilePendingMembership(c, up)
           d == [c EXCEPT !.pending = "taken"]
<1>1. ClientOK(c) /\ upstream \in Seq(Request) /\ Sensible(c)
  BY DEF Sound, Typed
<1>2. CASE c.pending # "open" \/ Asking(c) \/ ~up
  <2>1. step = Quiet(c)
    BY <1>2 DEF reconcilePendingMembership
  <2>2. step.client = c /\ upstream \o step.sends = upstream
    BY <1>1, <2>1 DEF Quiet
  <2> HIDE DEF step
  <2>3. /\ Sound(step.client, conn, upstream \o step.sends, in, srv)
        /\ conn => Backed(step.client, in, srv)
    BY <2>2
  <2> QED
    BY <2>3 DEF step
<1>3. CASE ~(c.pending # "open" \/ Asking(c) \/ ~up)
  <2>1. step = request(d, "reconcile", c.pendingRoom)
    BY <1>3 DEF reconcilePendingMembership
  <2>2. /\ Forgets(c, d) /\ Calmer(c, d) /\ d.membership = c.membership
        /\ d.started
        /\ c.membership # "active"
    BY <1>1, <1>3 DEF Forgets, Calmer, ClientOK, Sensible
  <2>3. /\ c.pendingRoom \in MaybeRoom
        /\ "reconcile" \in Operation \cup Question \cup {"restore"}
        /\ "reconcile" \notin Operation /\ "reconcile" \notin Entering
    BY <1>1 DEF ClientOK, Operation, Question, Entering
  <2> HIDE DEF step, d
  <2>4. c.membership # "none" => c.started
    BY <1>1 DEF Sensible
  <2>5. Sound(d, conn, upstream, in, srv) /\ (conn => Backed(d, in, srv))
    BY <2>2, <2>4, ForgettingIsSteady
  <2>6. Free(d) # {}
    BY <2>2, FreeOfCalmer
  <2>7. conn = TRUE
    BY <1>3
  <2>8. /\ Sound(step.client, TRUE, upstream \o step.sends, in, srv)
        /\ Backed(d, in, srv) => Backed(step.client, in, srv)
    BY <2>1, <2>2, <2>3, <2>5, <2>6, RequestIsSteady
  <2>9. /\ Sound(step.client, conn, upstream \o step.sends, in, srv)
        /\ conn => Backed(step.client, in, srv)
    BY <2>5, <2>7, <2>8
  <2> QED
    BY <2>9 DEF step
<1> QED
  BY <1>2, <1>3

(* What an active client needs to stay one.                                 *)
LEMMA ActiveFacts ==
    ASSUME NEW conn, NEW up, NEW in, NEW srv, Sound(client, conn, up, in, srv),
           client.membership = "active"
    PROVE  /\ client.room \in Room /\ client.pending = "none"
           /\ \A s \in Slot : ~Current(client, s, {"connecting"})
           /\ LeavesClaimed(client, up)
<1>1. Sensible(client) /\ OneAtATime(client, up, in) /\ LeavesClaimed(client, up)
  BY DEF Sound
<1>2. client.room \in Room /\ client.pending = "none"
  BY <1>1 DEF Sensible
<1>3. \A s \in Slot : ~Current(client, s, {"connecting"})
  BY <1>1 DEF OneAtATime
<1> QED
  BY <1>1, <1>2, <1>3

LEMMA StartedFacts ==
    ASSUME Steady
    PROVE  /\ ClientOK(client) /\ upstream \in Seq(Request) /\ inbox \in Seq(Message)
           /\ client.membership # "none" => client.started
           /\ \A s \in Slot : client.call[s].op # "none" => client.started
           /\ Forgets(client, client)
BY DEF Steady, Sound, Typed, Sensible, Forgets, Calmer

LEMMA EndedKeeps ==
    ASSUME Steady, inbox # <<>>, inbox[1].type = "ended",
           MembershipEnded(inbox[1].room), inbox' = Tail(inbox),
           UNCHANGED <<upstream, connected, server>>
    PROVE  Steady'
<1>1. /\ Sound(client, connected, upstream, inbox, server) /\ connected \in BOOLEAN
  BY DEF Steady
<1>2. /\ connected /\ 1 \in DOMAIN inbox
      /\ \A j \in DOMAIN inbox : j # 1 => /\ j - 1 \in DOMAIN Tail(inbox)
                                          /\ Tail(inbox)[j - 1] = inbox[j]
  BY HeadFacts
<1>3. /\ ClientOK(client) /\ (client.membership # "none" => client.started)
      /\ Forgets(client, client)
  BY StartedFacts
<1>4. ASSUME NEW d, Forgets(client, d), d.membership = "none", client' = d
      PROVE  Steady'
  <2>1. /\ Sound(d, connected, upstream, Tail(inbox), server)
        /\ connected => Backed(d, Tail(inbox), server)
    BY <1>1, <1>3, <1>4, ForgettingIsSteady
  <2> QED
    BY <1>1, <1>4, <2>1 DEF Steady
<1>5. CASE client' = resetRoomState(client)
  BY <1>3, <1>4, <1>5, ResetFields
<1>6. CASE /\ client' = [Stale(client) EXCEPT !.pending = "none", !.pendingRoom = None]
           /\ client.membership = "none"
  <2> DEFINE e == Stale(client)
             d == [e EXCEPT !.pending = "none", !.pendingRoom = None]
  <2>1. Forgets(client, e) /\ e.membership = "none"
    BY <1>3, <1>6, StaleFields
  <2> HIDE DEF e
  <2>2. /\ ClientOK(d) /\ d.call = e.call /\ d.membership = "none"
        /\ d.pending = "none" /\ d.started = e.started
    BY <2>1 DEF ClientOK, Forgets, MaybeRoom
  <2>3. Forgets(client, d)
    BY <2>1, <2>2 DEF Forgets, Calmer
  <2>4. client' = d
    BY <1>6 DEF e
  <2> HIDE DEF d
  <2> QED
    BY <1>4, <2>2, <2>3, <2>4
<1>7. CASE /\ client' = client
           /\ client.membership = "active" => inbox[1].room # client.room
  <2>1. ASSUME NEW j \in DOMAIN inbox, Answered(client, inbox, {"leave"}, j), inbox[j].ok
        PROVE  \E i \in DOMAIN Tail(inbox) :
                  Answered(client, Tail(inbox), {"leave"}, i) /\ Tail(inbox)[i].ok
    <3>1. j # 1
      BY <2>1 DEF Answered
    <3>2. /\ j - 1 \in DOMAIN Tail(inbox)
          /\ Answered(client, Tail(inbox), {"leave"}, j - 1) /\ Tail(inbox)[j - 1].ok
      BY <1>2, <2>1, <3>1 DEF Answered
    <3> QED
      BY <3>2
  <2>2. Backed(client, Tail(inbox), server)
    <3> SUFFICES ASSUME client.membership = "active"
                 PROVE  Backed(client, Tail(inbox), server)
      BY DEF Backed
    <3>1. Backed(client, inbox, server)
      BY <1>2 DEF Steady
    <3>2. ASSUME NEW j \in DOMAIN inbox, Ending(inbox, j, client.room)
          PROVE  \E i \in DOMAIN Tail(inbox) : Ending(Tail(inbox), i, client.room)
      <4>1. j # 1
        BY <1>7, <3>2 DEF Ending
      <4>2. j - 1 \in DOMAIN Tail(inbox) /\ Ending(Tail(inbox), j - 1, client.room)
        BY <1>2, <3>2, <4>1 DEF Ending
      <4> QED
        BY <4>2
    <3> QED
      BY <2>1, <3>1, <3>2 DEF Backed
  <2>3. client.membership = "active" =>
           /\ client.room \in Room /\ client.pending = "none"
           /\ \A s \in Slot : ~Current(client, s, {"connecting"})
           /\ LeavesClaimed(client, upstream)
    BY <1>1, ActiveFacts
  <2>4. "leave" \notin Gap => Stays(client, upstream, Tail(inbox), server)
    <3>1. "leave" \notin Gap => Stays(client, upstream, inbox, server)
      BY <1>1 DEF Sound, Lasting
    <3> QED
      BY <2>1, <3>1 DEF Stays
  <2>5. /\ Sound(client, connected, upstream, Tail(inbox), server)
        /\ connected => Backed(client, Tail(inbox), server)
    BY <1>1, <1>3, <2>2, <2>3, <2>4, ForgettingIsSteady
  <2> QED
    BY <1>1, <1>7, <2>5 DEF Steady
<1> QED
  BY <1>5, <1>6, <1>7 DEF MembershipEnded

LEMMA AnswerKeeps ==
    ASSUME Steady, inbox # <<>>, NEW a, a = inbox[1], a.type = "answer",
           Free(client) # {}, client.call[a.slot] # Idle, Answer(a),
           inbox' = Tail(inbox), UNCHANGED <<connected, server>>
    PROVE  Steady'
<1> DEFINE k == client.call[a.slot]
           c == IF k.current THEN Applied(client, k, a) ELSE client
           e == Ended(c, a.slot, TRUE)
           d == [c EXCEPT !.call[a.slot] = Idle]
           rest == Tail(inbox)
<1>1. /\ Sound(client, connected, upstream, inbox, server) /\ connected \in BOOLEAN
      /\ connected = TRUE
      /\ a.slot \in Slot /\ inbox \in Seq(Message) /\ 1 \in DOMAIN inbox
  BY HeadFacts DEF Steady, Reaction
<1>2. /\ ClientOK(client) /\ upstream \in Seq(Request)
      /\ \A s \in Slot : client.call[s].op # "none" => client.started
      /\ Forgets(client, client)
  BY StartedFacts
<1>3. Forgets(client, c) /\ ClientOK(c)
  <2>1. CASE k.current
    <3>1. Forgets(client, Applied(client, k, a))
      BY <2>1, AppliedFields
    <3> QED
      BY <2>1, <3>1 DEF Forgets
  <2>2. CASE ~k.current
    BY <1>2, <2>2 DEF Forgets
  <2> QED
    BY <2>1, <2>2
<1> HIDE DEF c
<1>4. /\ Forgets(c, e) /\ e.call[a.slot] = Idle
      /\ e.membership = c.membership /\ e.room = c.room
      /\ e.pending = c.pending \/ c.pending = "taken"
      /\ \A t \in Slot : t # a.slot => e.call[t] = c.call[t]
  BY <1>1, <1>3, EndedFields
<1>5. /\ Forgets(c, d) /\ d.call[a.slot] = Idle
      /\ d.membership = c.membership /\ d.room = c.room
      /\ d.pending = c.pending
      /\ \A t \in Slot : t # a.slot => d.call[t] = c.call[t]
  BY <1>1, <1>3, IdleFields
<1>6. c = IF k.current THEN Applied(client, k, a) ELSE client
  BY DEF c
<1>7. /\ Sound(e, connected, upstream, rest, server)
      /\ connected => Backed(e, rest, server)
  <2> HIDE DEF e, k
  <2>1. k = client.call[a.slot]
    BY DEF k
  <2> QED
    BY <1>4, <1>6, <2>1, AnsweredIsSteady
<1>8. CASE k.op = "join" /\ k.current /\ a.ok /\ a.rejoin
  <2> DEFINE step == request(d, "rejoin", k.room)
  <2>1. client' = step.client /\ upstream' = upstream \o step.sends
    BY <1>8 DEF Answer, Becomes, c
  <2>2. c = suspendRoom(client, k.room)
    BY <1>6, <1>8 DEF Applied
  <2>3. c.call = client.call /\ c.pending = client.pending
    <3>1. k.room \in MaybeRoom
      BY <1>1, <1>2 DEF ClientOK, Call
    <3> QED
      BY <1>2, <2>2, <3>1, MembershipFields
  <2>4. k.room \in Room
    BY <1>1, <1>8 DEF Sound, Sensible
  <2>5. Sole(client, a.slot)
    <3>1. Answered(client, inbox, Entering, 1)
      BY <1>8 DEF Answered, Current, Entering
    <3> QED
      BY <1>1, <3>1 DEF Sound, OneAtATime
  <2>6. OnlyAsks(d) /\ d.pending = "none"
    <3>1. ~Idle.current
      BY DEF Idle
    <3>2. ASSUME NEW t \in Slot, d.call[t].current
          PROVE  d.call[t].op \in Question
      <4>1. t # a.slot /\ d.call[t] = client.call[t]
        BY <1>5, <2>3, <3>1, <3>2
      <4> QED
        BY <2>5, <3>2, <4>1 DEF Sole
    <3> QED
      BY <1>5, <2>3, <2>5, <3>2 DEF OnlyAsks, Sole
  <2>7. /\ Sound(d, connected, upstream, rest, server)
        /\ connected => Backed(d, rest, server)
    <3> HIDE DEF d, k
    <3>1. k = client.call[a.slot]
      BY DEF k
    <3> QED
      BY <1>5, <1>6, <3>1, AnsweredIsSteady
  <2>8. Free(d) # {} /\ d.started
    <3>1. Forgets(client, d)
      BY <1>2, <1>3, <1>5, ForgetsAgain
    <3>2. k.op # "none"
      BY <1>8
    <3> QED
      BY <1>1, <1>2, <3>1, <3>2, FreeOfCalmer DEF Forgets
  <2>9. /\ "rejoin" \in Operation \cup Question \cup {"restore"}
        /\ k.room \in MaybeRoom
    BY <2>4 DEF Operation, MaybeRoom
  <2> HIDE DEF d, k, rest
  <2>10. /\ Sound(step.client, TRUE, upstream \o step.sends, rest, server)
         /\ Backed(d, rest, server) => Backed(step.client, rest, server)
    BY <1>1, <2>4, <2>6, <2>7, <2>8, <2>9, RequestIsSteady DEF rest
  <2> HIDE DEF step
  <2> QED
    BY <1>1, <2>1, <2>7, <2>10 DEF Steady, rest
<1>9. CASE k.op = "reconcile"
  <2> DEFINE step == reconcilePendingMembership(e, TRUE)
  <2>1. client' = step.client /\ upstream' = upstream \o step.sends
    BY <1>9 DEF Answer, Becomes, c
  <2>2. Free(e) # {} /\ e.started
    <3>1. Forgets(client, e)
      BY <1>2, <1>3, <1>4, ForgetsAgain
    <3> QED
      BY <1>1, <1>2, <1>9, <3>1, FreeOfCalmer DEF Forgets
  <2> HIDE DEF e, rest
  <2>3. /\ Sound(step.client, connected, upstream \o step.sends, rest, server)
        /\ connected => Backed(step.client, rest, server)
    BY <1>1, <1>7, <2>2, ReconcileIsSteady DEF rest
  <2> HIDE DEF step
  <2> QED
    BY <1>1, <2>1, <2>3 DEF Steady, rest
<1>10. CASE ~(k.op = "join" /\ k.current /\ a.ok /\ a.rejoin) /\ k.op # "reconcile"
  <2>1. Becomes(Quiet(e))
    BY <1>10 DEF Answer, c
  <2> HIDE DEF e
  <2>2. client' = e /\ upstream' = upstream
    BY <1>2, <2>1 DEF Becomes, Quiet
  <2> QED
    BY <1>1, <1>7, <2>2 DEF Steady
<1> QED
  BY <1>8, <1>9, <1>10

LEMMA ReceiveKeeps == Steady /\ Receive => Steady'
<1> SUFFICES ASSUME Steady, Receive PROVE Steady'
  OBVIOUS
<1>1. /\ inbox # <<>> /\ Free(client) # {} /\ inbox' = Tail(inbox)
      /\ UNCHANGED <<connected, server>>
  BY DEF Receive
<1>2. Head(inbox) = inbox[1] /\ inbox[1] \in Message /\ 1 \in DOMAIN inbox
  BY <1>1, HeadFacts
<1>3. inbox[1].type \in {"answer", "ended"}
  BY <1>2 DEF Message, Reaction, Notice
<1>4. CASE inbox[1].type = "ended"
  <2>1. MembershipEnded(inbox[1].room) /\ UNCHANGED upstream
    BY <1>2, <1>4 DEF Receive
  <2> QED
    BY <1>1, <1>4, <2>1, EndedKeeps
<1>5. CASE inbox[1].type = "answer" /\ client.call[inbox[1].slot] # Idle
  <2>1. Answer(inbox[1])
    BY <1>2, <1>5 DEF Receive
  <2> QED
    BY <1>1, <1>5, <2>1, AnswerKeeps
<1>6. CASE inbox[1].type = "answer" /\ client.call[inbox[1].slot] = Idle
  <2>1. UNCHANGED <<client, upstream>>
    BY <1>2, <1>6 DEF Receive
  <2>2. ~client.call[inbox[1].slot].current /\ Forgets(client, client)
    BY <1>6, StartedFacts DEF Idle
  <2>3. /\ Sound(client, connected, upstream, Tail(inbox), server)
        /\ connected => Backed(client, Tail(inbox), server)
    BY <1>1, <1>6, <2>2, AnsweredIsSteady
  <2> QED
    BY <1>1, <2>1, <2>3 DEF Steady
<1> QED
  BY <1>3, <1>4, <1>5, <1>6

LEMMA RetryKeeps == Steady /\ Retry => Steady'
<1> SUFFICES ASSUME Steady, Retry PROVE Steady'
  OBVIOUS
<1> DEFINE step == reconcilePendingMembership(client, connected)
<1>1. /\ Free(client) # {} /\ client' = step.client
      /\ upstream' = upstream \o step.sends
      /\ UNCHANGED <<connected, inbox, server>>
  BY DEF Retry, Becomes
<1>2. /\ Sound(client, connected, upstream, inbox, server) /\ connected \in BOOLEAN
      /\ connected => Backed(client, inbox, server)
      /\ inbox \in Seq(Message)
  BY DEF Steady, Sound, Typed
<1>3. /\ Sound(step.client, connected, upstream \o step.sends, inbox, server)
      /\ connected => Backed(step.client, inbox, server)
  BY <1>1, <1>2, ReconcileIsSteady
<1> HIDE DEF step
<1> QED
  BY <1>1, <1>2, <1>3 DEF Steady

(* What a call that gives up waiting makes of the client.                   *)
LEMMA GaveUpFields ==
    ASSUME Steady, NEW k \in Call
    PROVE  LET c == GaveUp(client, k)
           IN  \/ /\ c = client
                  /\ k.op \notin Operation
                  /\ ~(k.op = "restore" /\ InRoom(client, k.room))
               \/ /\ c.membership \in {"suspended", "unknown"}
                  /\ k.op # "none"
                  /\ ClientOK(c) /\ Calmer(client, c) /\ c.started = client.started
                  /\ c.call = client.call
                  /\ \/ c.pending = client.pending
                     \/ c.pending = "open" /\ k.op \notin Question
<1> DEFINE c == GaveUp(client, k)
           d == suspended(client, k.room)
           e == suspended(client, client.pendingRoom)
<1>1. ClientOK(client) /\ k.room \in MaybeRoom /\ client.pendingRoom \in MaybeRoom
  BY StartedFacts DEF Call, ClientOK
<1>2. /\ Forgets(client, d) /\ d.membership \in {"suspended", "unknown"}
      /\ d.call = client.call
      /\ Forgets(client, e) /\ e.membership \in {"suspended", "unknown"}
      /\ e.call = client.call /\ e.pending = client.pending
  BY <1>1, MembershipFields
<1> HIDE DEF d, e
<1> DEFINE f == [d EXCEPT !.pending = "open", !.pendingRoom = k.room]
<1>3. /\ ClientOK(f) /\ f.call = client.call /\ f.started = client.started
      /\ f.membership = d.membership /\ f.pending = "open"
  BY <1>1, <1>2 DEF ClientOK, Forgets
<1>4. Calmer(client, f)
  BY <1>3 DEF Calmer
<1>5. CASE \/ k.op \in Operation
           \/ k.op = "restore" /\ InRoom(client, k.room)
  <2>1. c = f
    <3>1. k.op \in Operation => k.op # "restore" /\ k.op # "reconcile"
      BY DEF Operation
    <3>2. c = handleAmbiguousMembershipTimeout(client, k.room)
      BY <1>5, <3>1 DEF GaveUp
    <3> QED
      BY <3>2 DEF handleAmbiguousMembershipTimeout, d
  <2>2. k.op \notin Question /\ k.op # "none"
    BY <1>5 DEF Operation, Question
  <2> HIDE DEF c, f
  <2> QED
    BY <1>2, <1>3, <1>4, <2>1, <2>2 DEF c
<1>6. CASE k.op = "reconcile"
  <2>1. c = e
    BY <1>6 DEF GaveUp, e, Operation
  <2> HIDE DEF c
  <2> QED
    BY <1>2, <1>6, <2>1 DEF c, Forgets
<1>7. CASE /\ k.op \notin Operation /\ k.op # "reconcile"
           /\ ~(k.op = "restore" /\ InRoom(client, k.room))
  <2>1. c = client
    BY <1>7 DEF GaveUp
  <2> HIDE DEF c
  <2> QED
    BY <1>7, <2>1 DEF c
<1> QED
  BY <1>5, <1>6, <1>7

LEMMA EndingIsSteady ==
    ASSUME Steady, NEW s \in Slot, client.call[s] # Idle,
           NEW k, k = client.call[s],
           NEW c, c = IF k.current THEN GaveUp(client, k) ELSE client,
           NEW e, e = Ended(c, s, FALSE)
    PROVE  /\ Sound(e, connected, upstream, inbox, server)
           /\ connected => Backed(e, inbox, server)
           /\ Calmer(client, e)
<1>1. /\ Sound(client, connected, upstream, inbox, server) /\ connected \in BOOLEAN
      /\ connected => Backed(client, inbox, server)
      /\ Sensible(client) /\ OneAtATime(client, upstream, inbox)
  BY DEF Steady, Sound
<1>2. /\ ClientOK(client) /\ k \in Call
      /\ upstream \in Seq(Request) /\ inbox \in Seq(Message)
      /\ client.membership # "none" => client.started
      /\ k.op # "none" => client.started
      /\ Forgets(client, client)
  BY StartedFacts DEF ClientOK
<1>3. /\ \A i \in DOMAIN upstream : upstream[i].slot \in Slot
      /\ \A j \in DOMAIN inbox : inbox[j].type = "answer" => inbox[j].slot \in Slot
  BY <1>2 DEF Request, Message, Reaction, Notice
<1>4. ~Idle.current
  BY DEF Idle
<1>5. CASE /\ c = client
           /\ k.current => /\ k.op \notin Operation
                           /\ ~(k.op = "restore" /\ InRoom(client, k.room))
  <2>1. /\ Forgets(client, e) /\ e.call[s] = Idle
        /\ e.membership = client.membership /\ e.room = client.room
        /\ e.pending = client.pending \/ client.pending = "taken"
        /\ \A t \in Slot : t # s => e.call[t] = client.call[t]
    <3>1. LET d == Ended(client, s, FALSE)
          IN  /\ Forgets(client, d) /\ d.call[s] = Idle
              /\ d.membership = client.membership /\ d.room = client.room
              /\ d.pending = client.pending \/ client.pending = "taken"
              /\ \A t \in Slot : t # s => d.call[t] = client.call[t]
      BY <1>2, EndedFields
    <3>2. e = Ended(client, s, FALSE)
      BY <1>5
    <3> QED
      BY <3>1, <3>2
  <2>2. ASSUME e.membership = "active"
        PROVE  /\ e.room \in Room /\ e.pending = "none"
               /\ \A t \in Slot : ~Current(e, t, {"connecting"})
               /\ LeavesClaimed(e, upstream)
               /\ connected => Backed(e, inbox, server)
               /\ "leave" \notin Gap => Stays(e, upstream, inbox, server)
    <3>1. client.membership = "active"
      BY <2>1, <2>2
    <3>2. /\ client.room \in Room /\ client.pending = "none"
          /\ \A t \in Slot : ~Current(client, t, {"connecting"})
          /\ LeavesClaimed(client, upstream)
      BY <1>1, <3>1, ActiveFacts
    <3>3. e.room \in Room /\ e.pending = "none"
      BY <2>1, <3>2
    <3>4. \A t \in Slot : ~Current(e, t, {"connecting"})
      BY <1>4, <2>1, <3>2 DEF Current
    <3>5. \A t \in Slot : Current(client, t, {"leave"}) => Current(e, t, {"leave"})
      BY <1>5, <2>1 DEF Current, Operation
    <3>6. LeavesClaimed(e, upstream)
      BY <1>3, <3>1, <3>2, <3>5 DEF LeavesClaimed
    <3>7. ASSUME NEW t \in Slot, Current(client, t, {"restore"}),
                 client.call[t].room = client.room
          PROVE  Current(e, t, {"restore"}) /\ e.call[t].room = e.room
      <4>1. t # s
        BY <1>5, <3>1, <3>7 DEF Current, InRoom
      <4> QED
        BY <2>1, <3>7, <4>1 DEF Current
    <3>8. ASSUME NEW j \in DOMAIN inbox, Answered(client, inbox, {"leave"}, j)
          PROVE  Answered(e, inbox, {"leave"}, j)
      BY <1>3, <3>5, <3>8 DEF Answered
    <3>9. Backed(client, inbox, server) => Backed(e, inbox, server)
      BY <2>1, <3>1, <3>7, <3>8 DEF Backed
    <3>10. "leave" \notin Gap => Stays(client, upstream, inbox, server)
      BY <1>1 DEF Sound, Lasting
    <3>11. "leave" \notin Gap => Stays(e, upstream, inbox, server)
      BY <3>1, <3>8, <3>10 DEF Stays
    <3> QED
      BY <1>1, <3>3, <3>4, <3>6, <3>9, <3>11
  <2>3. /\ Sound(e, connected, upstream, inbox, server)
        /\ connected => Backed(e, inbox, server)
    BY <1>1, <1>2, <2>1, <2>2, ForgettingIsSteady
  <2> QED
    BY <2>1, <2>3 DEF Forgets
<1>6. CASE /\ k.current
           /\ c.membership \in {"suspended", "unknown"}
           /\ k.op # "none"
           /\ ClientOK(c) /\ Calmer(client, c) /\ c.started = client.started
           /\ c.call = client.call
           /\ \/ c.pending = client.pending
              \/ c.pending = "open" /\ k.op \notin Question
  <2>1. /\ Forgets(c, e) /\ e.call[s] = Idle
        /\ e.membership = c.membership
        /\ e.pending = c.pending \/ c.pending = "taken"
        /\ \A t \in Slot : t # s => e.call[t] = client.call[t]
    <3>1. LET d == Ended(c, s, FALSE)
          IN  /\ Forgets(c, d) /\ d.call[s] = Idle
              /\ d.membership = c.membership
              /\ d.pending = c.pending \/ c.pending = "taken"
              /\ \A t \in Slot : t # s => d.call[t] = c.call[t]
      <4>1. ASSUME NEW x, ClientOK(x)
            PROVE  LET d == Ended(x, s, FALSE)
                   IN  /\ Forgets(x, d) /\ d.call[s] = Idle
                       /\ d.membership = x.membership
                       /\ d.pending = x.pending \/ x.pending = "taken"
                       /\ \A t \in Slot : t # s => d.call[t] = x.call[t]
        BY <4>1, EndedFields
      <4>2. ClientOK(c)
        BY <1>6
      <4> QED
        BY <4>1, <4>2
    <3> QED
      BY <1>6, <3>1
  <2>2. ClientOK(e) /\ e.started = client.started /\ e.membership # "active"
    BY <1>6, <2>1 DEF Forgets
  <2>3. Calmer(client, e)
    BY <2>1 DEF Calmer
  <2>4. client.started
    BY <1>2, <1>6
  <2>5. Sensible(e)
    <3>1. ASSUME NEW t \in Slot
          PROVE  /\ e.call[t].op \in {client.call[t].op, "none"}
                 /\ e.call[t].op # "none" => e.call[t].room = client.call[t].room
      <4>1. ClientOK(client)
        BY <1>2
      <4> HIDE DEF Ended, GaveUp
      <4> QED
        BY <2>3, <4>1, CalmerCurrent
    <3> QED
      BY <1>1, <2>2, <2>4, <3>1 DEF Sensible
  <2>6. /\ LeavesClaimed(e, upstream) /\ (connected => Backed(e, inbox, server))
        /\ "leave" \notin Gap => Stays(e, upstream, inbox, server)
    BY <2>2 DEF LeavesClaimed, Backed, Stays
  <2>7. \/ e.pending \in {"none", client.pending}
        \/ client.pending # "none"
        \/ NoneLive(e, upstream, inbox)
    <3>1. CASE c.pending = client.pending
      BY <2>1, <3>1
    <3>2. CASE k.op \notin Question
      <4>1. ASSUME NEW t \in Slot, Sole(client, t)
            PROVE  ~e.call[t].current
        <5>1. t = s
          BY <1>6, <3>2, <4>1 DEF Sole
        <5> QED
          BY <1>4, <2>1, <5>1
      <4>2. ASSUME NEW t \in Slot, NEW ops, Current(e, t, ops)
            PROVE  Current(client, t, ops)
        BY <1>4, <2>1, <4>2 DEF Current
      <4>3. ASSUME NEW i \in DOMAIN upstream, Asked(e, upstream, Entering, i)
            PROVE  FALSE
        <5>1. Current(client, upstream[i].slot, Entering)
          BY <1>3, <4>2, <4>3 DEF Asked
        <5>2. Sole(client, upstream[i].slot)
          BY <1>1, <4>3, <5>1 DEF OneAtATime, Asked
        <5> QED
          BY <1>3, <4>1, <4>3, <5>2 DEF Asked, Current
      <4>4. ASSUME NEW j \in DOMAIN inbox, Answered(e, inbox, Entering, j)
            PROVE  FALSE
        <5>1. Current(client, inbox[j].slot, Entering)
          BY <1>3, <4>2, <4>4 DEF Answered
        <5>2. Sole(client, inbox[j].slot)
          BY <1>1, <4>4, <5>1 DEF OneAtATime, Answered
        <5> QED
          BY <1>3, <4>1, <4>4, <5>2 DEF Answered, Current
      <4>5. ASSUME NEW t \in Slot, Current(e, t, {"connecting"})
            PROVE  FALSE
        <5>1. Current(client, t, {"connecting"})
          BY <4>2, <4>5
        <5>2. Sole(client, t)
          BY <1>1, <5>1 DEF OneAtATime
        <5> QED
          BY <4>1, <4>5, <5>2 DEF Current
      <4> QED
        BY <4>3, <4>4, <4>5 DEF NoneLive
    <3> QED
      BY <1>6, <3>1, <3>2
  <2>8. Sound(e, connected, upstream, inbox, server)
    BY <1>1, <2>2, <2>3, <2>5, <2>6, <2>7, ForgettingIsSound
  <2> QED
    BY <2>3, <2>6, <2>8
<1>7. CASE k.current
  BY <1>2, <1>5, <1>6, <1>7, GaveUpFields
<1>8. CASE ~k.current
  BY <1>5, <1>8
<1> QED
  BY <1>7, <1>8

LEMMA GivesUpKeeps ==
    ASSUME Steady, NEW s \in Slot, GivesUp(s)
    PROVE  Steady'
<1> DEFINE k == client.call[s]
           c == IF k.current THEN GaveUp(client, k) ELSE client
           e == Ended(c, s, FALSE)
           again == k.op # "reconcile" \/ c.pending = "open"
           step == reconcilePendingMembership(e, connected)
<1>1. /\ client.call[s] # Idle /\ Free(client) # {}
      /\ Becomes(IF again THEN step ELSE Quiet(e))
      /\ UNCHANGED <<connected, inbox, server>>
  BY DEF GivesUp
<1>2. /\ connected \in BOOLEAN /\ upstream \in Seq(Request) /\ inbox \in Seq(Message)
  BY DEF Steady, Sound, Typed
<1>3. /\ Sound(e, connected, upstream, inbox, server)
      /\ connected => Backed(e, inbox, server)
      /\ Calmer(client, e)
  BY <1>1, EndingIsSteady
<1> HIDE DEF e, k, c
<1>4. CASE again
  <2>1. client' = step.client /\ upstream' = upstream \o step.sends
    BY <1>1, <1>4 DEF Becomes
  <2>2. Free(e) # {}
    BY <1>1, <1>3, FreeOfCalmer
  <2>3. /\ Sound(step.client, connected, upstream \o step.sends, inbox, server)
        /\ connected => Backed(step.client, inbox, server)
    BY <1>2, <1>3, <2>2, ReconcileIsSteady
  <2> HIDE DEF step
  <2> QED
    BY <1>1, <1>2, <2>1, <2>3 DEF Steady
<1>5. CASE ~again
  <2>1. client' = e /\ upstream' = upstream
    BY <1>1, <1>2, <1>5 DEF Becomes, Quiet
  <2> QED
    BY <1>1, <1>2, <1>3, <2>1 DEF Steady
<1> QED
  BY <1>4, <1>5

(* A call of the agent, which overtakes none.                               *)
LEMMA BeginKeeps ==
    ASSUME Steady, MayCall, "overtake" \notin Gap,
           NEW c, c = beginMembershipOperation(client)
    PROVE  /\ Sound(c, connected, upstream, inbox, server)
           /\ connected => Backed(c, inbox, server)
           /\ ClientOK(c) /\ OnlyAsks(c) /\ Free(c) # {}
           /\ c.started /\ c.pending = "none"
           /\ c.membership = client.membership /\ c.room = client.room
           /\ connected \/ c.membership \in {"suspended", "unknown"}
           /\ inbox \in Seq(Message)
<1>1. /\ Sound(client, connected, upstream, inbox, server) /\ connected \in BOOLEAN
      /\ connected => Backed(client, inbox, server)
  BY DEF Steady
<1>2. /\ ClientOK(client) /\ upstream \in Seq(Request) /\ inbox \in Seq(Message)
      /\ client.membership # "none" => client.started
  BY StartedFacts
<1>3. /\ client.started /\ (connected \/ Away(client))
      /\ Cardinality(Free(client)) > 1
      /\ \A s \in Slot : client.call[s] # Idle => client.call[s].op \in Question
  BY DEF MayCall, UnderWay
<1>4. /\ Forgets(client, c)
      /\ c.membership = client.membership /\ c.room = client.room
      /\ c.pending = "none"
      /\ \A s \in Slot : ~c.call[s].current \/ c.call[s] = Idle
  BY <1>2, BeginFields
<1>5. ClientOK(c) /\ Calmer(client, c) /\ c.started = client.started
  BY <1>4 DEF Forgets
<1>6. OnlyAsks(c)
  BY <1>4 DEF OnlyAsks, Idle
<1>7. Free(client) # {}
  <2>1. Cardinality({}) = 0
    BY FS_EmptySet
  <2> QED
    BY <1>3, <2>1
<1>8. Free(c) # {}
  BY <1>5, <1>7, FreeOfCalmer
<1>9. \A s \in Slot : client.call[s].op \notin {"restore", "leave"}
  BY <1>3 DEF Idle, Question
<1>10. ASSUME c.membership = "active"
       PROVE  /\ c.room \in Room /\ c.pending = "none"
              /\ \A s \in Slot : ~Current(c, s, {"connecting"})
              /\ LeavesClaimed(c, upstream)
              /\ connected => Backed(c, inbox, server)
              /\ "leave" \notin Gap => Stays(c, upstream, inbox, server)
  <2>1. client.room \in Room /\ LeavesClaimed(client, upstream)
    BY <1>1, <1>4, <1>10, ActiveFacts
  <2>2. \A s \in Slot : ~Current(c, s, {"connecting"})
    BY <1>4 DEF Current, Idle
  <2>3. /\ \A i \in DOMAIN upstream : upstream[i].slot \in Slot
        /\ \A j \in DOMAIN inbox : inbox[j].type = "answer" => inbox[j].slot \in Slot
    BY <1>2 DEF Request, Message, Reaction, Notice
  <2>4. LeavesClaimed(c, upstream)
    BY <1>4, <1>9, <1>10, <2>1, <2>3 DEF LeavesClaimed, Current
  <2>5. Backed(client, inbox, server) => Backed(c, inbox, server)
    BY <1>4, <1>9, <2>3 DEF Backed, Answered, Current
  <2>6. "leave" \notin Gap => Stays(c, upstream, inbox, server)
    <3>1. "leave" \notin Gap => Stays(client, upstream, inbox, server)
      BY <1>1 DEF Sound, Lasting
    <3>2. \A j \in DOMAIN inbox : ~Answered(client, inbox, {"leave"}, j)
      BY <1>9, <2>3 DEF Answered, Current
    <3> QED
      BY <1>4, <1>10, <3>1, <3>2 DEF Stays
  <2> QED
    BY <1>1, <1>4, <2>1, <2>2, <2>4, <2>5, <2>6
<1>11. /\ Sound(c, connected, upstream, inbox, server)
       /\ connected => Backed(c, inbox, server)
  BY <1>1, <1>2, <1>4, <1>10, ForgettingIsSteady
<1> QED
  BY <1>2, <1>3, <1>4, <1>5, <1>6, <1>8, <1>11 DEF Away

(* A call that is sent.                                                     *)
LEMMA SendingKeeps ==
    ASSUME Steady, MayCall, "overtake" \notin Gap, connected,
           NEW op \in Operation, NEW r \in MaybeRoom, op # "create" => r \in Room,
           Becomes(request(beginMembershipOperation(client), op, r)),
           UNCHANGED <<connected, inbox, server>>
    PROVE  Steady'
<1> DEFINE c == beginMembershipOperation(client)
           step == request(c, op, r)
<1>1. /\ Sound(c, connected, upstream, inbox, server)
      /\ Backed(c, inbox, server)
      /\ OnlyAsks(c) /\ Free(c) # {}
      /\ c.started /\ c.pending = "none"
      /\ inbox \in Seq(Message)
  BY BeginKeeps
<1>2. /\ op \in Operation \cup Question \cup {"restore"} /\ op # "restore"
      /\ op \in {"join", "rejoin", "restore", "leave", "dissolve"} => op # "create"
  BY DEF Operation
<1>3. client' = step.client /\ upstream' = upstream \o step.sends
  BY DEF Becomes
<1> HIDE DEF c
<1>4. /\ Sound(step.client, TRUE, upstream \o step.sends, inbox, server)
      /\ Backed(step.client, inbox, server)
  BY <1>1, <1>2, RequestIsSteady
<1> HIDE DEF step
<1>5. connected = TRUE
  BY DEF Steady
<1> QED
  BY <1>3, <1>4, <1>5 DEF Steady

LEMMA CreateKeeps == "overtake" \notin Gap /\ Steady /\ createRoom => Steady'
<1> SUFFICES ASSUME "overtake" \notin Gap, Steady, createRoom PROVE Steady'
  OBVIOUS
<1> DEFINE c == beginMembershipOperation(client)
           d == [c EXCEPT !.operating = FALSE]
<1>1. MayCall /\ UNCHANGED <<connected, inbox, server>>
  BY DEF createRoom
<1>2. CASE connected
  <2>1. Becomes(request(c, "create", None))
    BY <1>2 DEF createRoom
  <2>2. "create" \in Operation /\ None \in MaybeRoom
    BY DEF Operation, MaybeRoom
  <2> QED
    BY <1>1, <1>2, <2>1, <2>2, SendingKeeps
<1>3. CASE ~connected
  <2>1. Becomes(Quiet(d))
    BY <1>3 DEF createRoom
  <2>2. /\ Sound(c, connected, upstream, inbox, server)
        /\ ClientOK(c) /\ c.started /\ c.membership \in {"suspended", "unknown"}
    BY <1>1, <1>3, BeginKeeps
  <2>3. connected = FALSE /\ upstream \in Seq(Request)
    BY <1>3, StartedFacts DEF Steady
  <2> HIDE DEF c
  <2>4. Forgets(c, d) /\ d.membership # "active"
    BY <2>2 DEF ClientOK, Forgets, Calmer
  <2> HIDE DEF d
  <2>5. client' = d /\ upstream' = upstream
    BY <2>1, <2>3 DEF Becomes, Quiet
  <2>6. Sound(d, FALSE, upstream, inbox, server)
    BY <2>2, <2>3, <2>4, ForgettingIsSteady
  <2> QED
    BY <1>1, <2>3, <2>5, <2>6 DEF Steady
<1> QED
  BY <1>2, <1>3

(* A call that waits for the connection.                                    *)
LEMMA WaitingIsSound ==
    ASSUME NEW c, NEW up, NEW in, NEW srv, Sound(c, FALSE, up, in, srv),
           c.started, c.pending = "none", c.membership # "active", OnlyAsks(c),
           NEW s \in Slot, c.call[s] = Idle, NEW r \in Room,
           \A i \in DOMAIN up : up[i].slot # s
    PROVE  Sound([c EXCEPT !.call[s] = [op |-> "connecting", room |-> r, current |-> TRUE]],
                 FALSE, up, in, srv)
<1> DEFINE d == [c EXCEPT !.call[s] = [op |-> "connecting", room |-> r, current |-> TRUE]]
<1>1. /\ ClientOK(c) /\ up \in Seq(Request) /\ in \in Seq(Message) /\ ServerOK(srv)
      /\ in = <<>> /\ \A i \in DOMAIN up : up[i].on # "now"
  BY DEF Sound, Typed, InOrder
<1>2. [op |-> "connecting", room |-> r, current |-> TRUE] \in Call
  BY DEF Call, MaybeRoom
<1>3. /\ ClientOK(d) /\ d.started /\ d.pending = "none" /\ d.membership # "active"
      /\ d.membership = c.membership
      /\ d.call[s] = [op |-> "connecting", room |-> r, current |-> TRUE]
      /\ \A t \in Slot : t # s => d.call[t] = c.call[t]
  BY <1>1, <1>2 DEF ClientOK
<1> HIDE DEF d
<1>4. /\ \A i \in DOMAIN up : up[i].slot \in Slot
      /\ DOMAIN in = {}
  BY <1>1 DEF Request
<1>5. Typed(d, up, in, srv) /\ InOrder(FALSE, up, in, srv)
  BY <1>1, <1>3 DEF Typed, Sound
<1>6. Sensible(d)
  <2>1. Sensible(c)
    BY DEF Sound
  <2>2. ASSUME NEW t \in Slot,
               d.call[t].op \in {"join", "rejoin", "restore", "leave", "dissolve", "connecting"}
        PROVE  d.call[t].room \in Room
    <3>1. CASE t = s
      BY <1>3, <3>1
    <3>2. CASE t # s
      BY <1>3, <2>1, <2>2, <3>2 DEF Sensible
    <3> QED
      BY <3>1, <3>2
  <2> QED
    BY <1>3, <2>2 DEF Sensible
<1>7. Matched(d, up, in) /\ OnePerSlot(up, in)
  BY <1>3, <1>4 DEF Sound, Matched
<1>8. OneAtATime(d, up, in)
  <2>1. ASSUME NEW t \in Slot, Current(d, t, {"connecting"})
        PROVE  Sole(d, t)
    <3>1. ASSUME NEW u \in Slot, u # s, d.call[u].current
          PROVE  d.call[u].op \in Question
      BY <1>3, <3>1 DEF OnlyAsks
    <3>2. t = s
      BY <2>1, <3>1 DEF Current, Question
    <3> QED
      BY <1>3, <3>1, <3>2 DEF Sole
  <2> QED
    BY <1>1, <1>3, <1>4, <2>1 DEF OneAtATime, Asked
<1>9. /\ LeavesClaimed(d, up) /\ LeavesFirst(d, up, in) /\ AnswersTrue(d, in, srv)
  BY <1>1, <1>3, <1>4 DEF LeavesClaimed, LeavesFirst, AnswersTrue, Asked
<1>10. Lasting(d, up, in, srv)
  <2>1. Lasting(c, up, in, srv)
    BY DEF Sound
  <2> QED
    BY <1>3, <1>4, <2>1 DEF Lasting, Stays, EntersToStay
<1> QED
  BY <1>5, <1>6, <1>7, <1>8, <1>9, <1>10 DEF Sound, d

LEMMA JoinKeeps ==
    ASSUME "overtake" \notin Gap, Steady, NEW r \in Room, joinRoom(r)
    PROVE  Steady'
<1> DEFINE c == beginMembershipOperation(client)
           op == IF c.membership = "suspended" /\ c.room = r THEN "rejoin" ELSE "join"
<1>1. MayCall /\ UNCHANGED <<connected, inbox, server>>
  BY DEF joinRoom
<1>2. CASE connected
  <2>1. Becomes(request(c, op, r))
    BY <1>2 DEF joinRoom
  <2>2. op \in Operation /\ op # "create" /\ r \in MaybeRoom
    BY DEF Operation, MaybeRoom
  <2> HIDE DEF op
  <2> QED
    BY <1>1, <1>2, <2>1, <2>2, SendingKeeps
<1>3. CASE ~connected
  <2> DEFINE s == FreeSlot(c)
             d == [c EXCEPT !.call[s] = [op |-> "connecting", room |-> r, current |-> TRUE]]
  <2>1. client' = d /\ UNCHANGED upstream
    BY <1>3 DEF joinRoom
  <2>2. /\ Sound(c, connected, upstream, inbox, server)
        /\ OnlyAsks(c) /\ Free(c) # {} /\ c.started /\ c.pending = "none"
        /\ c.membership \in {"suspended", "unknown"}
    BY <1>1, <1>3, BeginKeeps
  <2>3. connected = FALSE
    BY <1>3 DEF Steady
  <2> HIDE DEF c
  <2>4. s \in Slot /\ c.call[s] = Idle /\ \A i \in DOMAIN upstream : upstream[i].slot # s
    BY <2>2, FreeSlotIsFree, FreeOfMessages
  <2> HIDE DEF s
  <2>5. Sound(d, FALSE, upstream, inbox, server)
    BY <2>2, <2>3, <2>4, WaitingIsSound
  <2> HIDE DEF d
  <2> QED
    BY <1>1, <2>1, <2>3, <2>5 DEF Steady
<1> QED
  BY <1>2, <1>3

LEMMA LeaveKeeps ==
    ASSUME "overtake" \notin Gap, Steady, leaveRoom \/ dissolveRoom
    PROVE  Steady'
<1>1. /\ client.membership = "active" /\ MayCall
      /\ UNCHANGED <<connected, inbox, server>>
  BY DEF leaveRoom, dissolveRoom
<1>2. connected /\ client.room \in Room
  <2>1. Sound(client, connected, upstream, inbox, server)
    BY DEF Steady
  <2> QED
    BY <1>1, <2>1, ActiveFacts DEF MayCall, Away
<1>3. client.room \in MaybeRoom /\ {"leave", "dissolve"} \subseteq Operation
  BY <1>2 DEF MaybeRoom, Operation
<1>4. CASE leaveRoom
  <2>1. Becomes(request(beginMembershipOperation(client), "leave", client.room))
    BY <1>4 DEF leaveRoom
  <2> QED
    BY <1>1, <1>2, <1>3, <2>1, SendingKeeps
<1>5. CASE dissolveRoom
  <2>1. Becomes(request(beginMembershipOperation(client), "dissolve", client.room))
    BY <1>5 DEF dissolveRoom
  <2> QED
    BY <1>1, <1>2, <1>3, <2>1, SendingKeeps
<1> QED
  BY <1>4, <1>5

LEMMA JoinGoesOnKeeps ==
    ASSUME Steady, NEW s \in Slot, JoinGoesOn(s)
    PROVE  Steady'
<1> DEFINE k == client.call[s]
           c == [client EXCEPT !.call[s] = Idle]
           back == client.membership = "suspended" /\ client.room = k.room
           op == IF back THEN "rejoin" ELSE "join"
           step == request(c, op, k.room)
<1>1. /\ connected /\ k.op = "connecting" /\ Free(client) # {}
      /\ UNCHANGED <<connected, inbox, server>>
  BY DEF JoinGoesOn
<1>2. /\ Sound(client, connected, upstream, inbox, server) /\ connected \in BOOLEAN
      /\ connected = TRUE /\ Backed(client, inbox, server)
  BY <1>1 DEF Steady
<1>3. /\ ClientOK(client) /\ upstream \in Seq(Request) /\ inbox \in Seq(Message)
      /\ client.started
      /\ Forgets(client, client)
  BY <1>1, StartedFacts
<1>4. k.room \in Room /\ k.room \in MaybeRoom
  BY <1>1, <1>2 DEF Sound, Sensible, MaybeRoom
<1>5. /\ Forgets(client, c) /\ c.call[s] = Idle
      /\ c.membership = client.membership /\ c.room = client.room
      /\ c.pending = client.pending
      /\ \A t \in Slot : t # s => c.call[t] = client.call[t]
  BY <1>3, IdleFields
<1> HIDE DEF c
<1>6. ClientOK(c) /\ Calmer(client, c) /\ c.started
  BY <1>3, <1>5 DEF Forgets
<1>7. Free(c) # {}
  BY <1>1, <1>6, FreeOfCalmer
<1>8. ASSUME c.membership = "active"
      PROVE  /\ c.room \in Room /\ c.pending = "none"
             /\ \A t \in Slot : ~Current(c, t, {"connecting"})
             /\ LeavesClaimed(c, upstream)
             /\ Backed(c, inbox, server)
             /\ "leave" \notin Gap => Stays(c, upstream, inbox, server)
  <2>1. /\ client.room \in Room /\ client.pending = "none"
        /\ \A t \in Slot : ~Current(client, t, {"connecting"})
        /\ LeavesClaimed(client, upstream)
    BY <1>2, <1>5, <1>8, ActiveFacts
  <2>2. /\ \A i \in DOMAIN upstream : upstream[i].slot \in Slot
        /\ \A j \in DOMAIN inbox : inbox[j].type = "answer" => inbox[j].slot \in Slot
    BY <1>3 DEF Request, Message, Reaction, Notice
  <2>3. /\ \A t \in Slot : Current(client, t, {"leave"}) => Current(c, t, {"leave"})
        /\ \A t \in Slot : Current(client, t, {"restore"}) =>
              Current(c, t, {"restore"}) /\ c.call[t].room = client.call[t].room
    BY <1>1, <1>5 DEF Current
  <2>4. \A t \in Slot : ~Current(c, t, {"connecting"})
    BY <1>5, <2>1 DEF Current, Idle
  <2>5. LeavesClaimed(c, upstream)
    BY <1>5, <1>8, <2>1, <2>2, <2>3 DEF LeavesClaimed
  <2>6. \A j \in DOMAIN inbox :
           Answered(client, inbox, {"leave"}, j) => Answered(c, inbox, {"leave"}, j)
    BY <2>2, <2>3 DEF Answered
  <2>7. Backed(c, inbox, server)
    BY <1>2, <1>5, <1>8, <2>3, <2>6 DEF Backed
  <2>8. "leave" \notin Gap => Stays(c, upstream, inbox, server)
    <3>1. "leave" \notin Gap => Stays(client, upstream, inbox, server)
      BY <1>2 DEF Sound, Lasting
    <3> QED
      BY <1>5, <1>8, <2>6, <3>1 DEF Stays
  <2> QED
    BY <1>5, <2>1, <2>4, <2>5, <2>7, <2>8
<1>9. /\ Sound(c, connected, upstream, inbox, server)
      /\ connected => Backed(c, inbox, server)
  BY <1>2, <1>3, <1>5, <1>8, ForgettingIsSteady
<1>10. CASE k.current
  <2>1. client' = step.client /\ upstream' = upstream \o step.sends
    BY <1>10 DEF JoinGoesOn, Becomes, c
  <2>2. Current(client, s, {"connecting"})
    BY <1>1, <1>10 DEF Current
  <2>3. Sole(client, s)
    BY <1>2, <2>2 DEF Sound, OneAtATime
  <2>4. OnlyAsks(c) /\ c.pending = "none"
    <3>1. ASSUME NEW t \in Slot, c.call[t].current
          PROVE  c.call[t].op \in Question
      BY <1>5, <2>3, <3>1 DEF Sole, Idle
    <3> QED
      BY <1>5, <2>3, <3>1 DEF OnlyAsks, Sole
  <2>5. op \in Operation \cup Question \cup {"restore"} /\ op # "restore"
    BY DEF Operation
  <2> HIDE DEF k, op
  <2>6. /\ Sound(step.client, TRUE, upstream \o step.sends, inbox, server)
        /\ Backed(c, inbox, server) => Backed(step.client, inbox, server)
    BY <1>3, <1>4, <1>6, <1>7, <1>9, <2>4, <2>5, RequestIsSteady
  <2> HIDE DEF step
  <2> QED
    BY <1>1, <1>2, <1>9, <2>1, <2>6 DEF Steady
<1>11. CASE ~k.current /\ back
  <2>1. client' = c /\ upstream' = upstream
    BY <1>11 DEF JoinGoesOn, c
  <2> QED
    BY <1>1, <1>2, <1>9, <2>1 DEF Steady
<1>12. CASE ~k.current /\ ~back
  <2> DEFINE f == FreeSlot(c)
             m == [slot |-> f, op |-> "join", room |-> k.room, on |-> "now"]
  <2>1. client' = c /\ upstream' = upstream \o <<m>>
    BY <1>12 DEF JoinGoesOn, c, request
  <2>2. f \in Free(c)
    BY <1>7, FreeSlotIsFree
  <2>3. /\ f \in Slot /\ c.call[f] = Idle
        /\ \A i \in DOMAIN upstream : upstream[i].slot # f
        /\ \A j \in DOMAIN inbox : inbox[j].slot # f
    BY <2>2, FreeOfMessages
  <2>4. m \in Request /\ m.slot = f /\ m.op = "join" /\ m.on = "now" /\ m.room = k.room
    BY <1>4, <2>3 DEF Request, Operation, Connection
  <2> HIDE DEF f, m
  <2>5. Unused(c, upstream, inbox, m.slot)
    BY <2>3, <2>4 DEF Unused
  <2>6. /\ Sound(Calling(c, m, FALSE), TRUE, upstream \o <<m>>, inbox, server)
    BY <1>9, <2>4, <2>5, CallingIsSound
  <2>7. Calling(c, m, FALSE) = c
    BY DEF Calling
  <2> QED
    BY <1>1, <1>2, <1>9, <2>1, <2>6, <2>7 DEF Steady
<1> QED
  BY <1>10, <1>11, <1>12

-----------------------------------------------------------------------------
(* The connection.                                                          *)

LEMMA StartingIsSound ==
    ASSUME NEW c, NEW up, NEW in, NEW srv, Sound(c, FALSE, up, in, srv)
    PROVE  Sound([c EXCEPT !.started = TRUE], TRUE, up, in, srv)
<1> DEFINE d == [c EXCEPT !.started = TRUE]
<1>1. /\ ClientOK(c) /\ up \in Seq(Request) /\ in \in Seq(Message) /\ ServerOK(srv)
      /\ Sensible(c)
  BY DEF Sound, Typed
<1>2. /\ ClientOK(d) /\ d.started /\ d.pending = c.pending
      /\ d.membership = c.membership /\ d.room = c.room /\ d.call = c.call
  BY <1>1 DEF ClientOK
<1> HIDE DEF d
<1>3. Typed(d, up, in, srv) /\ InOrder(TRUE, up, in, srv) /\ OnePerSlot(up, in)
  BY <1>1, <1>2 DEF Typed, Sound, InOrder
<1>4. Sensible(d)
  BY <1>1, <1>2 DEF Sensible
<1>5. Matched(d, up, in)
  BY <1>2 DEF Sound, Matched
<1>6. /\ \A s, ops : Current(d, s, ops) <=> Current(c, s, ops)
      /\ \A s : Sole(d, s) <=> Sole(c, s)
  BY <1>2 DEF Current, Sole
<1>7. /\ OneAtATime(d, up, in)
  BY <1>2, <1>6 DEF Sound, OneAtATime, Asked, Answered
<1>8. LeavesClaimed(d, up) /\ LeavesFirst(d, up, in)
  BY <1>2, <1>6 DEF Sound, LeavesClaimed, LeavesFirst, Asked, Answered
<1>9. AnswersTrue(d, in, srv)
  BY <1>6 DEF Sound, AnswersTrue, Enters, Answered
<1>10. Lasting(d, up, in, srv)
  <2>1. Lasting(c, up, in, srv)
    BY DEF Sound
  <2>2. \A ops, j : Answered(d, in, ops, j) <=> Answered(c, in, ops, j)
    BY <1>6 DEF Answered
  <2> QED
    BY <1>2, <2>1, <2>2 DEF Lasting, Stays, EntersToStay, Enters
<1> QED
  BY <1>3, <1>4, <1>5, <1>7, <1>8, <1>9, <1>10 DEF Sound, d

LEMMA ConnectKeeps == Steady /\ Connect => Steady'
<1> SUFFICES ASSUME Steady, Connect PROVE Steady'
  OBVIOUS
<1> DEFINE c == [client EXCEPT !.started = TRUE]
           step == IF ~client.started THEN request(c, "discover", None)
                   ELSE IF c.pending # "none" THEN reconcilePendingMembership(c, TRUE)
                   ELSE IF currentRoomCode(c) = None THEN Quiet(c)
                   ELSE request(c, "restore", currentRoomCode(c))
<1>1. /\ connected = FALSE /\ connected' = TRUE /\ Cardinality(Free(client)) > 1
      /\ client' = step.client /\ upstream' = upstream \o step.sends
      /\ UNCHANGED <<inbox, server>>
  BY DEF Connect, Becomes, Steady
<1>2. /\ Sound(client, FALSE, upstream, inbox, server)
  BY <1>1 DEF Steady
<1>3. /\ ClientOK(client) /\ upstream \in Seq(Request) /\ inbox \in Seq(Message)
  BY StartedFacts
<1>4. /\ c.started /\ c.pending = client.pending /\ c.membership = client.membership
      /\ c.room = client.room /\ c.call = client.call
  BY <1>3 DEF ClientOK
<1>5. Sound(c, TRUE, upstream, inbox, server)
  BY <1>2, StartingIsSound
<1> HIDE DEF c
<1>6. Free(c) # {}
  <2>1. Cardinality({}) = 0
    BY FS_EmptySet
  <2>2. Free(c) = Free(client)
    BY <1>4 DEF Free
  <2> QED
    BY <1>1, <2>1, <2>2
<1>7. Sensible(c) /\ None \notin Room /\ None \in MaybeRoom
  BY <1>5, RoomAssumption DEF Sound, MaybeRoom
<1>8. CASE ~client.started
  <2>1. step = request(c, "discover", None)
    BY <1>8
  <2>2. c.membership # "active"
    BY <1>2, <1>4, <1>8 DEF Sound, Sensible
  <2>3. Backed(c, inbox, server)
    BY <2>2 DEF Backed
  <2>4. /\ "discover" \in Operation \cup Question \cup {"restore"}
        /\ "discover" \notin Operation /\ "discover" \notin Entering
    BY DEF Operation, Question, Entering
  <2> HIDE DEF step
  <2>5. /\ Sound(step.client, TRUE, upstream \o step.sends, inbox, server)
        /\ Backed(step.client, inbox, server)
    BY <1>3, <1>4, <1>5, <1>6, <1>7, <2>1, <2>3, <2>4, RequestIsSteady
  <2> QED
    BY <1>1, <2>5 DEF Steady
<1>9. CASE client.started /\ c.pending # "none"
  <2>1. step = reconcilePendingMembership(c, TRUE)
    BY <1>9
  <2>2. Backed(c, inbox, server)
    BY <1>7, <1>9 DEF Sensible, Backed
  <2> HIDE DEF step
  <2>3. /\ Sound(step.client, TRUE, upstream \o step.sends, inbox, server)
        /\ Backed(step.client, inbox, server)
    BY <1>3, <1>5, <1>6, <2>1, <2>2, ReconcileIsSteady
  <2> QED
    BY <1>1, <2>3 DEF Steady
<1>10. CASE client.started /\ c.pending = "none" /\ c.membership # "active"
  <2>1. step = Quiet(c)
    BY <1>10 DEF currentRoomCode
  <2> HIDE DEF step
  <2>2. step.client = c /\ upstream \o step.sends = upstream
    BY <1>3, <2>1 DEF Quiet
  <2>3. Backed(c, inbox, server)
    BY <1>10 DEF Backed
  <2> QED
    BY <1>1, <1>5, <2>2, <2>3 DEF Steady
<1>11. CASE client.started /\ c.pending = "none" /\ c.membership = "active"
  <2>1. c.room \in Room /\ c.room # None /\ c.room \in MaybeRoom
    BY <1>7, <1>11 DEF Sensible, MaybeRoom
  <2>2. step = request(c, "restore", c.room)
    BY <1>11, <2>1 DEF currentRoomCode
  <2>3. NoneLive(c, upstream, inbox)
    <3>1. /\ inbox = <<>> /\ \A i \in DOMAIN upstream : upstream[i].on = "old"
      BY <1>2 DEF Sound, InOrder
    <3>2. \A s \in Slot : ~Current(c, s, {"connecting"})
      BY <1>5, <1>11 DEF Sound, OneAtATime
    <3> QED
      BY <3>1, <3>2 DEF NoneLive, Asked
  <2>4. /\ "restore" \in Operation \cup Question \cup {"restore"}
        /\ "restore" \notin Operation /\ "restore" \notin Entering
    BY DEF Operation, Entering
  <2>5. "leave" \notin Gap =>
           ~server.departed /\ \A j \in DOMAIN upstream : upstream[j].op # "leave"
    <3>1. inbox = <<>> /\ \A i \in DOMAIN upstream : upstream[i].on = "old"
      BY <1>2 DEF Sound, InOrder
    <3>2. "leave" \notin Gap => Stays(c, upstream, inbox, server)
      BY <1>5 DEF Sound, Lasting
    <3> QED
      BY <1>11, <3>1, <3>2 DEF Stays, NoneLeftOver
  <2> HIDE DEF step
  <2>6. /\ Sound(step.client, TRUE, upstream \o step.sends, inbox, server)
        /\ step.client.room = c.room
        /\ FreeSlot(c) \in Slot
        /\ step.client.call[FreeSlot(c)] =
              [op |-> "restore", room |-> c.room, current |-> TRUE]
    BY <1>3, <1>4, <1>5, <1>6, <2>1, <2>2, <2>3, <2>4, <2>5, RequestIsSteady
  <2>7. Backed(step.client, inbox, server)
    BY <2>6 DEF Backed, Current
  <2> QED
    BY <1>1, <2>6, <2>7 DEF Steady
<1> QED
  BY <1>8, <1>9, <1>10, <1>11

LEMMA DisconnectKeeps == Steady /\ Disconnect => Steady'
<1> SUFFICES ASSUME Steady, Disconnect PROVE Steady'
  OBVIOUS
<1>1. PICK n \in 0..Len(upstream) :
         upstream' = [i \in 1..n |-> [upstream[i] EXCEPT !.on = "old"]]
  BY DEF Disconnect
<1>2. /\ connected' = FALSE /\ inbox' = <<>> /\ UNCHANGED client
      /\ server' = [server EXCEPT !.at = [now |-> None, old |-> server.at.now]]
  BY DEF Disconnect
<1>3. /\ Sound(client, connected, upstream, inbox, server)
      /\ ClientOK(client) /\ upstream \in Seq(Request) /\ ServerOK(server)
  BY DEF Steady, Sound, Typed
<1> DEFINE up == upstream'
           srv == server'
<1>4. /\ DOMAIN upstream = 1..Len(upstream) /\ Len(upstream) \in Nat
      /\ \A i \in DOMAIN upstream : upstream[i] \in Request
  BY <1>3
<1>5. /\ DOMAIN up = 1..n
      /\ \A i \in DOMAIN up :
            /\ i \in DOMAIN upstream
            /\ up[i] \in Request /\ up[i].on = "old"
            /\ up[i].slot = upstream[i].slot /\ up[i].op = upstream[i].op
            /\ up[i].room = upstream[i].room /\ up[i].slot \in Slot
  BY <1>1, <1>4 DEF Request, Connection
<1>6. up \in Seq(Request)
  BY <1>1, <1>4, <1>5
<1>7. ServerOK(srv) /\ srv.at["now"] = None /\ srv.departed = server.departed
  <2>1. None \in MaybeRoom /\ server.at["now"] \in MaybeRoom
    BY <1>3, AtFacts DEF MaybeRoom
  <2>2. [now |-> None, old |-> server.at.now] \in [Connection -> MaybeRoom]
    BY <2>1 DEF Connection
  <2> DEFINE at == [now |-> None, old |-> server.at.now]
  <2>3. at["now"] = None
    OBVIOUS
  <2> HIDE DEF at
  <2> QED
    BY <1>2, <1>3, <2>2, <2>3 DEF ServerOK, at
<1> HIDE DEF up, srv
<1>8. Typed(client, up, <<>>, srv)
  BY <1>3, <1>6, <1>7 DEF Typed
<1>9. InOrder(FALSE, up, <<>>, srv)
  BY <1>5, <1>7 DEF InOrder
<1>10. Sensible(client)
  BY <1>3 DEF Sound
<1>11. Matched(client, up, <<>>)
  BY <1>3, <1>5 DEF Sound, Matched
<1>12. OnePerSlot(up, <<>>)
  BY <1>3, <1>5 DEF Sound, OnePerSlot
<1>13. /\ \A ops : \A i \in DOMAIN up : ~Asked(client, up, ops, i)
       /\ \A i \in DOMAIN up : ~Leaving(up, i)
  BY <1>5 DEF Asked, Leaving
<1>14. OneAtATime(client, up, <<>>)
  BY <1>3, <1>13 DEF Sound, OneAtATime
<1>15. LeavesClaimed(client, up) /\ LeavesFirst(client, up, <<>>)
  BY <1>13 DEF LeavesClaimed, LeavesFirst
<1>16. AnswersTrue(client, <<>>, srv)
  BY DEF AnswersTrue
<1>17. ASSUME "leave" \notin Gap
       PROVE  Stays(client, up, <<>>, srv) /\ RestoresNobodyElse(up, srv)
  <2>1. \A s \in Slot : client.call[s].op # "leave"
    BY <1>17 DEF Disconnect
  <2>2. Stays(client, upstream, inbox, server) /\ RestoresNobodyElse(upstream, server)
    BY <1>3, <1>17 DEF Sound, Lasting
  <2>3. ASSUME client.membership = "active", NEW i \in DOMAIN up, up[i].op = "leave"
        PROVE  FALSE
    <3>1. /\ i \in DOMAIN upstream /\ upstream[i].op = "leave"
          /\ upstream[i].slot \in Slot
      BY <1>5, <2>3
    <3>2. upstream[i].on = "now"
      BY <2>2, <2>3, <3>1 DEF Stays, NoneLeftOver
    <3>3. Current(client, upstream[i].slot, {"leave"})
      BY <1>3, <2>3, <3>1, <3>2 DEF Sound, LeavesClaimed, Leaving
    <3> QED
      BY <2>1, <3>1, <3>3 DEF Current
  <2>4. ASSUME NEW j \in DOMAIN inbox, Answered(client, inbox, {"leave"}, j)
        PROVE  FALSE
    <3>1. inbox[j].slot \in Slot
      BY <1>3, <2>4 DEF Sound, Typed, Answered, Message, Reaction, Notice
    <3> QED
      BY <2>1, <2>4, <3>1 DEF Answered, Current
  <2>5. Stays(client, up, <<>>, srv)
    BY <1>7, <2>2, <2>3, <2>4 DEF Stays, NoneLeftOver
  <2>6. RestoresNobodyElse(up, srv)
    BY <1>5, <1>7, <2>2 DEF RestoresNobodyElse
  <2> QED
    BY <2>5, <2>6
<1>18. Lasting(client, up, <<>>, srv)
  BY <1>17 DEF Lasting, EntersToStay
<1>19. Sound(client, FALSE, up, <<>>, srv)
  BY <1>8, <1>9, <1>10, <1>11, <1>12, <1>14, <1>15, <1>16, <1>18 DEF Sound
<1> QED
  BY <1>2, <1>19 DEF Steady, up, srv

-----------------------------------------------------------------------------
(* The specification.                                                       *)

LEMMA StartIsSteady == Init => TypeOK /\ Steady
<1> SUFFICES ASSUME Init PROVE TypeOK /\ Steady
  OBVIOUS
<1>1. /\ client = [membership |-> "none", room |-> None,
                   pending |-> "none", pendingRoom |-> None, operating |-> FALSE,
                   started |-> FALSE, call |-> [s \in Slot |-> Idle]]
      /\ connected = FALSE /\ upstream = <<>> /\ inbox = <<>>
      /\ spent = [calls |-> 0, troubles |-> 0]
  BY DEF Init
<1>2. PICK stage \in [Room -> {"unborn", "waiting", "game"}],
           mine \in {None, Home}, departed \in BOOLEAN :
         server = [stage |-> stage, mine |-> mine, departed |-> departed,
                   at |-> [k \in Connection |-> None]]
  BY DEF Init
<1>3. None \in MaybeRoom /\ Home \in MaybeRoom
  BY RoomAssumption DEF MaybeRoom
<1>4. Idle \in Call /\ ~Idle.current /\ Idle.op = "none"
  BY <1>3 DEF Idle, Call
<1>5. ClientOK(client)
  BY <1>1, <1>3, <1>4 DEF ClientOK
<1>6. stage \in [Room -> {"unborn", "waiting", "game", "gone"}]
  OBVIOUS
<1>7. ServerOK(server) /\ server.at["now"] = None
  BY <1>2, <1>3, <1>6 DEF ServerOK, Connection
<1>8. spent \in [calls : 0..MaxCalls, troubles : 0..MaxTroubles]
  <2>1. MaxCalls \in Nat /\ MaxTroubles \in Nat
    BY BoundAssumption
  <2>2. 0 \in 0..MaxCalls /\ 0 \in 0..MaxTroubles
    BY <2>1
  <2> QED
    BY <1>1, <2>2
<1>9. \A s \in Slot : client.call[s] = Idle
  BY <1>1
<1>10. Typed(client, upstream, inbox, server)
  BY <1>1, <1>5, <1>7 DEF Typed
<1>11. /\ InOrder(connected, upstream, inbox, server)
       /\ Sensible(client) /\ Matched(client, upstream, inbox)
       /\ OnePerSlot(upstream, inbox)
  BY <1>1, <1>4, <1>7, <1>9 DEF InOrder, Sensible, Matched, OnePerSlot
<1>12. /\ OneAtATime(client, upstream, inbox)
       /\ LeavesClaimed(client, upstream) /\ LeavesFirst(client, upstream, inbox)
       /\ AnswersTrue(client, inbox, server)
  BY <1>1, <1>4, <1>9
     DEF OneAtATime, LeavesClaimed, LeavesFirst, AnswersTrue, Current
<1>13. Lasting(client, upstream, inbox, server)
  BY <1>1 DEF Lasting, Stays, EntersToStay, RestoresNobodyElse
<1>14. Steady
  BY <1>1, <1>10, <1>11, <1>12, <1>13 DEF Steady, Sound
<1> QED
  BY <1>1, <1>5, <1>7, <1>8, <1>14 DEF TypeOK, ClientOK, ServerOK

LEMMA SpentKeeps ==
    ASSUME spent \in [calls : 0..MaxCalls, troubles : 0..MaxTroubles], [Next]_vars
    PROVE  spent' \in [calls : 0..MaxCalls, troubles : 0..MaxTroubles]
<1>1. MaxCalls \in Nat /\ MaxTroubles \in Nat
  BY BoundAssumption
<1>2. CASE Occurs
  BY <1>1, <1>2 DEF Occurs
<1>3. CASE MayCall
  <2>1. spent.calls < MaxCalls /\ spent' = [spent EXCEPT !.calls = @ + 1]
    BY <1>3 DEF MayCall
  <2> QED
    BY <1>1, <2>1
<1>4. CASE UNCHANGED spent
  BY <1>4
<1>5. Handle => Occurs \/ UNCHANGED spent
  BY DEF Handle, Refuses
<1> QED
  BY <1>2, <1>3, <1>4, <1>5
     DEF Next, vars, Retry, createRoom, leaveRoom, dissolveRoom, joinRoom,
         JoinGoesOn, LossNoticed, AnswerLate, Receive, Connect, Disconnect,
         PutOut, Evicted, RoomEnds, GameStarts, BackToRoom

LEMMA StepIsSteady ==
    "overtake" \notin Gap /\ TypeOK /\ Steady /\ [Next]_vars => TypeOK' /\ Steady'
<1> SUFFICES ASSUME "overtake" \notin Gap, TypeOK, Steady, [Next]_vars
             PROVE  TypeOK' /\ Steady'
  OBVIOUS
<1>1. Steady'
  <2>1. CASE Retry
    BY <2>1, RetryKeeps
  <2>2. CASE createRoom
    BY <2>2, CreateKeeps
  <2>3. CASE leaveRoom \/ dissolveRoom
    BY <2>3, LeaveKeeps
  <2>4. CASE \E r \in Room : joinRoom(r)
    BY <2>4, JoinKeeps
  <2>5. CASE \E s \in Slot : JoinGoesOn(s)
    BY <2>5, JoinGoesOnKeeps
  <2>6. CASE LossNoticed \/ AnswerLate
    BY <2>6, GivesUpKeeps DEF LossNoticed, AnswerLate
  <2>7. CASE Receive
    BY <2>7, ReceiveKeeps
  <2>8. CASE Connect
    BY <2>8, ConnectKeeps
  <2>9. CASE Disconnect
    BY <2>9, DisconnectKeeps
  <2>10. CASE Handle
    BY <2>10, HandleKeeps
  <2>11. CASE PutOut
    BY <2>11, PutOutKeeps
  <2>12. CASE Evicted
    BY <2>12, QuietChangesKeep
  <2>13. CASE \E r \in Room : RoomEnds(r)
    BY <2>13, RoomEndsKeeps
  <2>14. CASE \E r \in Room : GameStarts(r) \/ BackToRoom(r)
    BY <2>14, QuietChangesKeep
  <2>15. CASE UNCHANGED vars
    BY <2>15 DEF vars, Steady
  <2> QED
    BY <2>1, <2>2, <2>3, <2>4, <2>5, <2>6, <2>7, <2>8, <2>9, <2>10, <2>11,
       <2>12, <2>13, <2>14, <2>15 DEF Next
<1>2. spent' \in [calls : 0..MaxCalls, troubles : 0..MaxTroubles]
  BY SpentKeeps DEF TypeOK
<1>3. ClientOK(client') /\ ServerOK(server') /\ connected' \in BOOLEAN
  BY <1>1 DEF Steady, Sound, Typed
<1>4. TypeOK'
  BY <1>2, <1>3 DEF TypeOK, ClientOK, ServerOK
<1> QED
  BY <1>1, <1>4

(* The client's fields, the server's rooms and sockets and the bounds keep  *)
(* their ranges: no answer, late or unasked for, and no notice of the       *)
(* server leaves UnoSocketClient with a state it has no name for.           *)
THEOREM TypeCorrect ==
    ASSUME "overtake" \notin Gap
    PROVE  Spec => []TypeOK
<1>1. Init => TypeOK /\ Steady
  BY StartIsSteady
<1>2. (TypeOK /\ Steady) /\ [Next]_vars => (TypeOK /\ Steady)'
  BY StepIsSteady
<1> QED
  BY <1>1, <1>2, PTL DEF Spec

(* At any moment the client, the server and what is between them agree: an  *)
(* answer still to be applied that activates a room is true or is followed  *)
(* by the room's end, no request to leave comes after it, and a client that *)
(* takes itself for present is, has asked to be let in again, or is about   *)
(* to hear that it is not.                                                  *)
THEOREM AlwaysSteady ==
    ASSUME "overtake" \notin Gap
    PROVE  Spec => []Steady
<1>1. Init => TypeOK /\ Steady
  BY StartIsSteady
<1>2. (TypeOK /\ Steady) /\ [Next]_vars => (TypeOK /\ Steady)'
  BY StepIsSteady
<1> QED
  BY <1>1, <1>2, PTL DEF Spec

LEMMA SteadyIsTrue == Steady => ActiveIsPresent
<1> SUFFICES ASSUME Steady, Still, client.membership = "active"
             PROVE  server.mine = client.room /\ server.at["now"] = client.room
  BY DEF ActiveIsPresent
<1>1. /\ connected /\ inbox = <<>> /\ \A s \in Slot : client.call[s] = Idle
  BY DEF Still
<1>2. /\ Backed(client, inbox, server) /\ Sensible(client)
      /\ InOrder(connected, upstream, inbox, server)
  BY <1>1 DEF Steady, Sound
<1>3. server.at["now"] = client.room
  BY <1>1, <1>2 DEF Backed, Current, Idle
<1>4. client.room # None
  BY <1>2, RoomAssumption DEF Sensible
<1> QED
  BY <1>2, <1>3, <1>4 DEF InOrder

(* Once everything is answered, a client that takes itself for present in a *)
(* room is a member of it with a socket in it, whatever was lost, late,     *)
(* refused or done by others before: with every number of rooms, slots,     *)
(* calls and troubles, and also when the connection is lost during a leave  *)
(* or a call gives up, as long as no call overtakes another.                *)
THEOREM PresenceIsTrue ==
    ASSUME "overtake" \notin Gap
    PROVE  Spec => []ActiveIsPresent
<1>1. Spec => []Steady
  BY AlwaysSteady
<1> QED
  BY <1>1, SteadyIsTrue, PTL

(* Who left his game for the autopilot is not let in again because the      *)
(* connection came back: whoever left before it was lost, or whose leave is *)
(* still to be handled, is not asked back by the client.  Only a connection *)
(* lost during a leave, and calls that overtake each other, are excepted.   *)
THEOREM LeavesLast ==
    ASSUME "overtake" \notin Gap, "leave" \notin Gap
    PROVE  Spec => LeaveSticks
<1> DEFINE Sticks ==
        \A i \in 1..Len(upstream) :
           upstream[i].op = "restore" /\ upstream' = RemoveAt(upstream, i)
              => (server.departed => server'.departed)
<1>1. Spec => []Steady
  BY AlwaysSteady
<1>2. Steady => Sticks
  <2> SUFFICES ASSUME Steady, NEW i \in 1..Len(upstream), upstream[i].op = "restore"
               PROVE  ~server.departed
    OBVIOUS
  <2>1. upstream \in Seq(Request) /\ RestoresNobodyElse(upstream, server)
    BY DEF Steady, Sound, Typed, Lasting
  <2> QED
    BY <2>1 DEF RestoresNobodyElse
<1> HIDE DEF Sticks
<1>3. Spec => [][Sticks]_vars
  BY <1>1, <1>2, PTL
<1> QED
  BY <1>3 DEF LeaveSticks, Sticks
=============================================================================
