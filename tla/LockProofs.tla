------------------------------ MODULE LockProofs ------------------------------
(***************************************************************************)
(* Proofs about LifecycleLocks and Shutdown, for any number of operations, *)
(* users and rooms: a lock lets its operations in one at a time and in the *)
(* order in which they asked, and the shutdown leaves nothing undone.      *)
(*                                                                         *)
(* The argument numbers the operations of a lock.  Those whose gate is     *)
(* open have the numbers up to served, the holder has the next one, and a  *)
(* waiting operation waits for the one before it.                          *)
(***************************************************************************)
EXTENDS Shutdown, TLAPS

Awaited(o, k) == stage[o] = "waiting" /\ Path(o)[held[o] + 1] = k

Out(o, k) == <<o, k>> \in released

Leaves(o) == stage[o] = "leaving" \/ (stage[o] = "inside" /\ held[o] = Len(Path(o)))

(* How far an operation is says which locks of its path it holds.           *)
Progress ==
    \A o \in Op :
        /\ stage[o] \in {"new", "done"} => held[o] = 0
        /\ stage[o] = "waiting" => held[o] < Len(Path(o))
        /\ stage[o] = "inside" => held[o] > 0 /\ held[o] <= Len(Path(o))
        /\ stage[o] = "leaving" => held[o] > 0 /\ held[o] < Len(Path(o))

(* An operation has a number at the locks it waits for, holds or has left.  *)
Numbered ==
    \A o \in Op, k \in Key :
        /\ Out(o, k) <=> /\ stage[o] \in {"leaving", "done"}
                         /\ \E i \in 1..Len(Path(o)) : i > held[o] /\ Path(o)[i] = k
        /\ ticket[o][k] # 0 => Awaited(o, k) \/ Holds(o, k) \/ Out(o, k)
        /\ Awaited(o, k) \/ Holds(o, k) \/ Out(o, k) => ticket[o][k] # 0

(* The numbers of a lock.                                                   *)
InOrder ==
    \A k \in Key :
        /\ served[k] <= drawn[k]
        /\ tails[k] # None => ticket[tails[k]][k] = drawn[k]
        /\ \A o \in Op :
            /\ ticket[o][k] <= drawn[k]
            /\ Out(o, k) <=> ticket[o][k] # 0 /\ ticket[o][k] <= served[k]
            /\ Holds(o, k) => ticket[o][k] = served[k] + 1
            /\ \A p \in Op : o # p /\ ticket[o][k] = ticket[p][k] => ticket[o][k] = 0

(* Whom a waiting operation waits for.                                      *)
OneBefore ==
    \A o \in Op, k \in Key :
        Awaited(o, k) =>
            IF previous[o] = None
            THEN ticket[o][k] = served[k] + 1
            ELSE ticket[o][k] = ticket[previous[o]][k] + 1 /\ ticket[previous[o]][k] # 0

IInv == TypeOK /\ Progress /\ Numbered /\ InOrder /\ OneBefore

-----------------------------------------------------------------------------
LEMMA Paths ==
    ASSUME NEW o \in Op
    PROVE  /\ Len(Path(o)) \in {1, 2}
           /\ \A i \in 1..Len(Path(o)) : Path(o)[i] \in Key
           /\ \A i, j \in 1..Len(Path(o)) : Path(o)[i] = Path(o)[j] => i = j
<1>1. /\ UserOf[o] \in User \cup {None} /\ RoomOf[o] \in Room \cup {None}
      /\ UserOf[o] # None \/ RoomOf[o] # None
      /\ User \cap Room = {} /\ None \notin Key
  BY OpAssumption
<1>2. CASE UserOf[o] = None
  BY <1>1, <1>2 DEF Path, Key
<1>3. CASE UserOf[o] # None /\ RoomOf[o] = None
  BY <1>1, <1>3 DEF Path, Key
<1>4. CASE UserOf[o] # None /\ RoomOf[o] # None
  <2>1. Path(o) = <<UserOf[o], RoomOf[o]>> /\ UserOf[o] # RoomOf[o]
    BY <1>1, <1>4 DEF Path
  <2> QED
    BY <1>1, <1>4, <2>1 DEF Key
<1> QED
  BY <1>2, <1>3, <1>4

LEMMA NextIndex ==
    ASSUME NEW h \in 0..2, NEW n \in {1, 2}, h < n
    PROVE  h \in {0, 1} /\ h + 1 \in 1..n
BY Z3

LEMMA InitInv == Init => IInv
<1> SUFFICES ASSUME Init PROVE IInv
  OBVIOUS
<1>1. TypeOK
  BY DEF Init, TypeOK
<1>2. \A o \in Op, k \in Key : ~Awaited(o, k) /\ ~Holds(o, k) /\ ~Out(o, k)
  BY DEF Init, Awaited, Holds, Out
<1>3. Progress /\ InOrder /\ OneBefore
  BY <1>2, OpAssumption DEF Init, Progress, InOrder, OneBefore
<1>4. Numbered
  BY <1>2 DEF Init, Numbered
<1> QED
  BY <1>1, <1>3, <1>4 DEF IInv

LEMMA AskKeeps ==
    ASSUME IInv, NEW o \in Op, Begin(o) \/ Nest(o)
    PROVE  IInv'
<1> DEFINE k == Path(o)[held[o] + 1]
<1> USE DEF IInv
<1>1. Ask(o) /\ stage[o] \in {"new", "inside"} /\ held[o] < Len(Path(o))
  BY Paths DEF Begin, Nest, Progress
<1>2. held[o] \in {0, 1} /\ k \in Key /\ Len(Path(o)) \in {1, 2}
  <2>1. held[o] \in 0..2 /\ Len(Path(o)) \in {1, 2}
    BY Paths DEF TypeOK
  <2>2. held[o] \in {0, 1} /\ held[o] + 1 \in 1..Len(Path(o))
    BY <1>1, <2>1, NextIndex
  <2> QED
    BY <2>1, <2>2, Paths
<1>3. ~Awaited(o, k) /\ ~Holds(o, k) /\ ~Out(o, k) /\ ticket[o][k] = 0
  <2>1. \A i \in 1..held[o] : Path(o)[i] # k
    BY <1>1, <1>2, Paths
  <2>2. ~Holds(o, k)
    BY <2>1 DEF Holds
  <2>3. ~Awaited(o, k) /\ ~Out(o, k)
    BY <1>1, <1>2 DEF Awaited, Numbered
  <2> QED
    BY <1>2, <2>2, <2>3 DEF Numbered
<1> HIDE DEF k
<1>4. /\ stage' = [stage EXCEPT ![o] = "waiting"]
      /\ previous' = [previous EXCEPT ![o] = tails[k]]
      /\ tails' = [tails EXCEPT ![k] = o]
      /\ drawn' = [drawn EXCEPT ![k] = @ + 1]
      /\ ticket' = [ticket EXCEPT ![o][k] = drawn[k] + 1]
      /\ UNCHANGED <<held, released, served>>
  BY <1>1 DEF Ask, k
<1>5. /\ drawn \in [Key -> Nat] /\ served \in [Key -> Nat] /\ ticket \in [Op -> [Key -> Nat]]
      /\ tails \in [Key -> Op \cup {None}] /\ previous \in [Op -> Op \cup {None}]
      /\ stage \in [Op -> {"new", "waiting", "inside", "leaving", "done"}]
      /\ held \in [Op -> 0..2] /\ o # None
  BY OpAssumption DEF TypeOK
<1>6. /\ ticket'[o][k] = drawn[k] + 1 /\ drawn'[k] = drawn[k] + 1
      /\ \A p \in Op, l \in Key : (p # o \/ l # k) => ticket'[p][l] = ticket[p][l]
      /\ \A l \in Key : l # k => drawn'[l] = drawn[l] /\ tails'[l] = tails[l]
      /\ tails'[k] = o /\ previous'[o] = tails[k] /\ stage'[o] = "waiting"
      /\ \A p \in Op : p # o => previous'[p] = previous[p] /\ stage'[p] = stage[p]
  BY <1>2, <1>4, <1>5
<1>7. TypeOK'
  <2>1. \A l \in Key : tails'[l] = None <=> drawn'[l] = served'[l]
    BY <1>2, <1>4, <1>5, <1>6 DEF TypeOK, InOrder
  <2> QED
    BY <1>2, <1>4, <1>5, <2>1 DEF TypeOK
<1>8. Progress'
  BY <1>1, <1>4, <1>6 DEF Progress
<1>9. /\ \A p \in Op, l \in Key : Holds(p, l)' <=> Holds(p, l)
      /\ \A p \in Op, l \in Key : Out(p, l)' <=> Out(p, l)
      /\ \A p \in Op, l \in Key : Awaited(p, l)' <=> (Awaited(p, l) \/ (p = o /\ l = k))
  <2>1. \A p \in Op, l \in Key : Holds(p, l)' <=> Holds(p, l)
    BY <1>4 DEF Holds, Path
  <2>2. \A p \in Op, l \in Key : Out(p, l)' <=> Out(p, l)
    BY <1>4 DEF Out
  <2>3. \A p \in Op, l \in Key : Awaited(p, l)' <=> (Awaited(p, l) \/ (p = o /\ l = k))
    BY <1>1, <1>4, <1>6 DEF Awaited, k, Path
  <2> QED
    BY <2>1, <2>2, <2>3
<1>10. Numbered'
  <2>1. \A p \in Op, l \in Key :
            Out(p, l)' <=> /\ stage'[p] \in {"leaving", "done"}
                           /\ \E i \in 1..Len(Path(p)) : i > held'[p] /\ Path(p)[i] = l
    BY <1>1, <1>4, <1>6, <1>9 DEF Numbered
  <2>2. drawn[k] + 1 # 0
    BY <1>2, <1>5
  <2>3. \A p \in Op, l \in Key :
            ticket'[p][l] # 0 <=> (Awaited(p, l)' \/ Holds(p, l)' \/ Out(p, l)')
    BY <1>2, <1>6, <1>9, <2>2 DEF Numbered
  <2> QED
    BY <2>1, <2>3, <1>4 DEF Numbered, Path
<1>11. InOrder'
  <2> SUFFICES ASSUME NEW l \in Key
               PROVE  /\ served'[l] <= drawn'[l]
                      /\ tails'[l] # None => ticket'[tails'[l]][l] = drawn'[l]
                      /\ \A p \in Op :
                          /\ ticket'[p][l] <= drawn'[l]
                          /\ Out(p, l)' <=> ticket'[p][l] # 0 /\ ticket'[p][l] <= served'[l]
                          /\ Holds(p, l)' => ticket'[p][l] = served'[l] + 1
                          /\ \A q \in Op : p # q /\ ticket'[p][l] = ticket'[q][l] => ticket'[p][l] = 0
    BY DEF InOrder
  <2>1. served'[l] = served[l] /\ served[l] \in Nat /\ drawn[l] \in Nat /\ served[l] <= drawn[l]
        /\ \A p \in Op : ticket[p][l] \in Nat /\ ticket[p][l] <= drawn[l]
    BY <1>4, <1>5 DEF InOrder
  <2>2. CASE l # k
    <3>1. \A p \in Op : ticket'[p][l] = ticket[p][l]
      BY <1>6, <2>2
    <3>2. drawn'[l] = drawn[l] /\ tails'[l] = tails[l] /\ tails[l] \in Op \cup {None}
      BY <1>5, <1>6, <2>2
    <3> QED
      BY <1>9, <2>1, <3>1, <3>2 DEF InOrder
  <2>3. CASE l = k
    <3>1. \A p \in Op : p # o => ticket'[p][l] = ticket[p][l]
      BY <1>6, <2>3
    <3>2. ticket'[o][l] = drawn[l] + 1 /\ drawn'[l] = drawn[l] + 1 /\ tails'[l] = o
      BY <1>6, <2>3
    <3>3. ~Out(o, l)' /\ ~Holds(o, l)'
      BY <1>3, <1>9, <2>3
    <3>4. served'[l] <= drawn'[l] /\ ticket'[tails'[l]][l] = drawn'[l]
      BY <2>1, <3>2
    <3>5. \A p \in Op :
            /\ ticket'[p][l] <= drawn'[l]
            /\ Out(p, l)' <=> ticket'[p][l] # 0 /\ ticket'[p][l] <= served'[l]
            /\ Holds(p, l)' => ticket'[p][l] = served'[l] + 1
      BY <1>9, <2>1, <3>1, <3>2, <3>3 DEF InOrder
    <3>6. \A p, q \in Op : p # q /\ ticket'[p][l] = ticket'[q][l] => ticket'[p][l] = 0
      BY <2>1, <3>1, <3>2 DEF InOrder
    <3> QED
      BY <3>4, <3>5, <3>6
  <2> QED
    BY <2>2, <2>3
<1>12. OneBefore'
  <2> SUFFICES ASSUME NEW p \in Op, NEW l \in Key, Awaited(p, l)'
               PROVE  IF previous'[p] = None
                      THEN ticket'[p][l] = served'[l] + 1
                      ELSE /\ ticket'[p][l] = ticket'[previous'[p]][l] + 1
                           /\ ticket'[previous'[p]][l] # 0
    BY DEF OneBefore
  <2>1. CASE p = o
    <3>1. l = k
      BY <1>1, <1>6, <1>9, <2>1 DEF Awaited
    <3>2. CASE tails[k] = None
      BY <1>2, <1>4, <1>6, <2>1, <3>1, <3>2 DEF TypeOK
    <3>3. CASE tails[k] # None
      <4>1. tails[k] \in Op /\ ticket[tails[k]][k] = drawn[k] /\ drawn[k] # served[k]
            /\ served[k] <= drawn[k] /\ served[k] \in Nat /\ drawn[k] \in Nat
        BY <1>2, <1>5, <3>3 DEF InOrder, TypeOK
      <4>2. drawn[k] # 0
        BY <4>1
      <4>3. tails[k] # o
        BY <1>3, <4>1, <4>2
      <4> QED
        BY <1>6, <2>1, <3>1, <3>3, <4>1, <4>2, <4>3
    <3> QED
      BY <3>2, <3>3
  <2>2. CASE p # o
    <3>1. Awaited(p, l) /\ previous'[p] = previous[p] /\ ticket'[p][l] = ticket[p][l]
      BY <1>6, <1>9, <2>2
    <3>2. CASE previous[p] = None
      BY <1>4, <3>1, <3>2 DEF OneBefore
    <3>3. CASE previous[p] # None
      <4>1. previous[p] \in Op /\ ticket[previous[p]][l] # 0
            /\ ticket[p][l] = ticket[previous[p]][l] + 1
        BY <1>5, <3>1, <3>3 DEF OneBefore
      <4>2. previous[p] # o \/ l # k
        BY <1>3, <4>1
      <4> QED
        BY <1>6, <3>1, <3>3, <4>1, <4>2
    <3> QED
      BY <3>2, <3>3
  <2> QED
    BY <2>1, <2>2
<1> QED
  BY <1>7, <1>8, <1>10, <1>11, <1>12
LEMMA EnterKeeps ==
    ASSUME IInv, NEW o \in Op, Enter(o)
    PROVE  IInv'
<1> DEFINE k == Path(o)[held[o] + 1]
<1> USE DEF IInv
<1>1. stage[o] = "waiting" /\ held[o] < Len(Path(o))
  BY DEF Enter, Progress
<1>2. /\ held[o] \in {0, 1} /\ k \in Key /\ Len(Path(o)) \in {1, 2}
      /\ \A i \in 1..held[o] : Path(o)[i] # k
  <2>1. held[o] \in 0..2 /\ Len(Path(o)) \in {1, 2}
    BY Paths DEF TypeOK
  <2>2. held[o] \in {0, 1} /\ held[o] + 1 \in 1..Len(Path(o))
    BY <1>1, <2>1, NextIndex
  <2>3. \A i \in 1..held[o] : i \in 1..Len(Path(o)) /\ i # held[o] + 1
    BY <2>1, <2>2
  <2> QED
    BY <2>1, <2>2, <2>3, Paths
<1>3. Awaited(o, k) /\ ~Holds(o, k) /\ ~Out(o, k) /\ ticket[o][k] # 0
  <2>1. Awaited(o, k)
    BY <1>1 DEF Awaited
  <2>2. ~Holds(o, k)
    BY <1>2 DEF Holds
  <2>3. ~Out(o, k)
    BY <1>1, <1>2 DEF Numbered
  <2> QED
    BY <1>2, <2>1, <2>2, <2>3 DEF Numbered
<1>4. previous[o] = None \/ Out(previous[o], k)
  BY DEF Enter, Out
<1> HIDE DEF k
<1>5. /\ drawn \in [Key -> Nat] /\ served \in [Key -> Nat] /\ ticket \in [Op -> [Key -> Nat]]
      /\ previous \in [Op -> Op \cup {None}]
      /\ stage \in [Op -> {"new", "waiting", "inside", "leaving", "done"}]
      /\ held \in [Op -> 0..2]
  BY DEF TypeOK
<1>6. /\ stage' = [stage EXCEPT ![o] = "inside"]
      /\ held' = [held EXCEPT ![o] = @ + 1]
      /\ UNCHANGED <<tails, previous, released, drawn, served, ticket>>
  BY DEF Enter
<1>7. TypeOK'
  <2>1. held' \in [Op -> 0..2]
    BY <1>2, <1>5, <1>6
  <2> QED
    BY <1>5, <1>6, <2>1 DEF TypeOK
<1>8. Progress'
  <2>1. held'[o] = held[o] + 1 /\ stage'[o] = "inside"
        /\ \A p \in Op : p # o => held'[p] = held[p] /\ stage'[p] = stage[p]
    BY <1>5, <1>6
  <2>2. held'[o] > 0 /\ held'[o] <= Len(Path(o))
    BY <1>1, <1>2, <2>1
  <2> QED
    BY <2>1, <2>2, <1>5 DEF Progress, Path
<1>9. ticket[o][k] = served[k] + 1
  <2>1. CASE previous[o] = None
    BY <1>2, <1>3, <2>1 DEF OneBefore
  <2>2. CASE previous[o] # None
    <3>1. previous[o] \in Op /\ ticket[o][k] = ticket[previous[o]][k] + 1
      BY <1>2, <1>3, <1>5, <2>2 DEF OneBefore
    <3>2. ticket[previous[o]][k] <= served[k] /\ ~(ticket[o][k] <= served[k])
      BY <1>2, <1>3, <1>4, <2>2, <3>1 DEF InOrder
    <3>3. ticket[previous[o]][k] \in Nat /\ served[k] \in Nat
      BY <1>2, <1>5, <3>1
    <3> QED
      BY <3>1, <3>2, <3>3
  <2> QED
    BY <2>1, <2>2
<1>10. /\ \A p \in Op, l \in Key : Out(p, l)' <=> Out(p, l)
       /\ \A p \in Op, l \in Key : Holds(p, l)' <=> (Holds(p, l) \/ (p = o /\ l = k))
       /\ \A p \in Op, l \in Key : Awaited(p, l)' <=> (Awaited(p, l) /\ p # o)
  <2>1. \A p \in Op, l \in Key : Out(p, l)' <=> Out(p, l)
    BY <1>6 DEF Out
  <2>2. /\ stage'[o] = "inside" /\ held'[o] = held[o] + 1
        /\ \A p \in Op : p # o => held'[p] = held[p] /\ stage'[p] = stage[p]
    BY <1>5, <1>6
  <2>3. \A p \in Op, l \in Key : Awaited(p, l)' <=> (Awaited(p, l) /\ p # o)
    BY <2>2 DEF Awaited, Path
  <2>4. \A l \in Key : Holds(o, l)' <=> (Holds(o, l) \/ l = k)
    BY <1>2, <2>2 DEF Holds, k, Path
  <2>5. \A p \in Op, l \in Key : p # o => (Holds(p, l)' <=> Holds(p, l))
    BY <2>2 DEF Holds, Path
  <2> QED
    BY <2>1, <2>3, <2>4, <2>5
<1>11. Numbered'
  <2>1. /\ stage'[o] = "inside"
        /\ \A p \in Op : p # o => held'[p] = held[p] /\ stage'[p] = stage[p]
    BY <1>5, <1>6
  <2>2. \A p \in Op, l \in Key :
            Out(p, l)' <=> /\ stage'[p] \in {"leaving", "done"}
                           /\ \E i \in 1..Len(Path(p)) : i > held'[p] /\ Path(p)[i] = l
    <3>1. \A l \in Key : ~Out(o, l)'
      BY <1>1, <1>10 DEF Numbered
    <3> QED
      BY <2>1, <3>1, <1>10 DEF Numbered
  <2>3. \A l \in Key : Awaited(o, l) => l = k
    BY DEF Awaited, k
  <2>4. \A p \in Op, l \in Key :
            ticket'[p][l] # 0 <=> (Awaited(p, l)' \/ Holds(p, l)' \/ Out(p, l)')
    BY <1>3, <1>6, <1>10, <2>3 DEF Numbered
  <2> QED
    BY <2>2, <2>4 DEF Numbered, Path
<1>12. InOrder'
  BY <1>6, <1>9, <1>10 DEF InOrder
<1>13. OneBefore'
  BY <1>6, <1>10 DEF OneBefore
<1> QED
  BY <1>7, <1>8, <1>11, <1>12, <1>13

LEMMA LeaveKeeps ==
    ASSUME IInv, NEW o \in Op, Leave(o)
    PROVE  IInv'
<1> DEFINE k == Path(o)[held[o]]
<1> USE DEF IInv
<1>1. held[o] \in {1, 2} /\ held[o] <= Len(Path(o)) /\ k \in Key /\ Len(Path(o)) \in {1, 2}
      /\ stage[o] \in {"inside", "leaving"}
      /\ (stage[o] = "inside" => held[o] = Len(Path(o)))
  <2>1. held[o] \in 0..2 /\ Len(Path(o)) \in {1, 2}
    BY Paths DEF TypeOK
  <2>2. held[o] \in {1, 2} /\ held[o] <= Len(Path(o)) /\ stage[o] \in {"inside", "leaving"}
        /\ (stage[o] = "inside" => held[o] = Len(Path(o)))
    BY <2>1 DEF Leave, Progress
  <2> QED
    BY <2>1, <2>2, Paths
<1>2. Holds(o, k)
  BY <1>1 DEF Holds
<1>3. ticket[o][k] = served[k] + 1 /\ ~Out(o, k)
  <2>1. ticket[o][k] = served[k] + 1 /\ served[k] \in Nat
    BY <1>1, <1>2 DEF InOrder, TypeOK
  <2> QED
    BY <1>1, <2>1 DEF InOrder
<1>4. \A i \in 1..Len(Path(o)) : Path(o)[i] = k <=> i = held[o]
  BY <1>1, Paths
<1>5. /\ drawn \in [Key -> Nat] /\ served \in [Key -> Nat] /\ ticket \in [Op -> [Key -> Nat]]
      /\ previous \in [Op -> Op \cup {None}] /\ tails \in [Key -> Op \cup {None}]
      /\ stage \in [Op -> {"new", "waiting", "inside", "leaving", "done"}]
      /\ held \in [Op -> 0..2] /\ released \in SUBSET (Op \X Key) /\ o # None
  BY OpAssumption DEF TypeOK
<1>6. /\ stage' = [stage EXCEPT ![o] = IF held[o] = 1 THEN "done" ELSE "leaving"]
      /\ held' = [held EXCEPT ![o] = @ - 1]
      /\ released' = released \cup {<<o, k>>}
      /\ served' = [served EXCEPT ![k] = @ + 1]
      /\ tails' = IF tails[k] = o THEN [tails EXCEPT ![k] = None] ELSE tails
      /\ UNCHANGED <<previous, drawn, ticket>>
  BY DEF Leave
<1>7. /\ held'[o] = held[o] - 1 /\ stage'[o] = IF held[o] = 1 THEN "done" ELSE "leaving"
      /\ \A p \in Op : p # o => held'[p] = held[p] /\ stage'[p] = stage[p]
      /\ \A l \in Key : l # k => served'[l] = served[l] /\ tails'[l] = tails[l]
      /\ served'[k] = served[k] + 1
      /\ tails'[k] = IF tails[k] = o THEN None ELSE tails[k]
  BY <1>1, <1>5, <1>6
<1> HIDE DEF k
<1>8. /\ \A p \in Op, l \in Key : Out(p, l)' <=> (Out(p, l) \/ (p = o /\ l = k))
      /\ \A p \in Op, l \in Key : Awaited(p, l)' <=> Awaited(p, l)
      /\ \A p \in Op, l \in Key : Holds(p, l)' <=> (Holds(p, l) /\ ~(p = o /\ l = k))
  <2>1. \A p \in Op, l \in Key : Out(p, l)' <=> (Out(p, l) \/ (p = o /\ l = k))
    BY <1>6 DEF Out
  <2>2. \A p \in Op, l \in Key : Awaited(p, l)' <=> Awaited(p, l)
    BY <1>1, <1>7 DEF Awaited, Path
  <2>3. \A l \in Key : Holds(o, l)' <=> (Holds(o, l) /\ l # k)
    BY <1>1, <1>4, <1>7 DEF Holds, Path
  <2>4. \A p \in Op, l \in Key : p # o => (Holds(p, l)' <=> Holds(p, l))
    BY <1>7 DEF Holds, Path
  <2> QED
    BY <2>1, <2>2, <2>3, <2>4
<1>9. TypeOK'
  <2>1. \A l \in Key : tails'[l] = None <=> drawn'[l] = served'[l]
    <3>1. ASSUME NEW l \in Key, l # k PROVE tails'[l] = None <=> drawn'[l] = served'[l]
      BY <1>6, <1>7, <3>1 DEF TypeOK
    <3>2. CASE tails[k] = o
      BY <1>1, <1>3, <1>5, <1>6, <1>7, <3>1, <3>2 DEF InOrder
    <3>3. CASE tails[k] # o
      <4>1. ticket[o][k] <= drawn[k] /\ served[k] \in Nat /\ drawn[k] \in Nat
        BY <1>1, <1>5 DEF InOrder
      <4>2. drawn[k] # served[k]
        BY <1>3, <4>1
      <4>3. tails[k] \in Op /\ ticket[tails[k]][k] = drawn[k]
        BY <1>1, <1>5, <4>2 DEF TypeOK, InOrder
      <4>4. ticket[o][k] # drawn[k]
        BY <1>1, <1>3, <3>3, <4>1, <4>3 DEF InOrder
      <4> QED
        <5>1. tails'[k] # None /\ drawn'[k] # served'[k]
          BY <1>3, <1>5, <1>6, <1>7, <3>3, <4>1, <4>3, <4>4, OpAssumption
        <5> QED
          BY <3>1, <5>1
    <3> QED
      BY <3>1, <1>6, <1>7, <1>3, <3>2, <3>3
  <2>2. held' \in [Op -> 0..2]
    BY <1>1, <1>5, <1>6
  <2>3. stage' \in [Op -> {"new", "waiting", "inside", "leaving", "done"}]
    BY <1>5, <1>6
  <2>4. tails' \in [Key -> Op \cup {None}] /\ served' \in [Key -> Nat]
        /\ released' \in SUBSET (Op \X Key)
    BY <1>1, <1>5, <1>6
  <2> QED
    BY <1>5, <1>6, <2>1, <2>2, <2>3, <2>4 DEF TypeOK
<1>10. Progress'
  <2>1. CASE held[o] = 1
    BY <1>1, <1>5, <1>7, <2>1 DEF Progress, Path
  <2>2. CASE held[o] = 2
    BY <1>1, <1>5, <1>7, <2>2 DEF Progress, Path
  <2> QED
    BY <1>1, <2>1, <2>2
<1>11. Numbered'
  <2>1. \A l \in Key :
            Out(o, l)' <=> /\ stage'[o] \in {"leaving", "done"}
                           /\ \E i \in 1..Len(Path(o)) : i > held'[o] /\ Path(o)[i] = l
    <3>1. stage'[o] \in {"leaving", "done"}
      BY <1>7
    <3>2. \A l \in Key : Out(o, l) <=> \E i \in 1..Len(Path(o)) : i > held[o] /\ Path(o)[i] = l
      BY <1>1 DEF Numbered
    <3>3. \A l \in Key : (\E i \in 1..Len(Path(o)) : i > held'[o] /\ Path(o)[i] = l)
              <=> ((\E i \in 1..Len(Path(o)) : i > held[o] /\ Path(o)[i] = l) \/ l = k)
      BY <1>1, <1>4, <1>7 DEF k
    <3> QED
      BY <1>8, <3>1, <3>2, <3>3
  <2>2. \A p \in Op, l \in Key : p # o =>
            (Out(p, l)' <=> /\ stage'[p] \in {"leaving", "done"}
                            /\ \E i \in 1..Len(Path(p)) : i > held'[p] /\ Path(p)[i] = l)
    BY <1>7, <1>8 DEF Numbered
  <2>3. \A p \in Op, l \in Key :
            ticket'[p][l] # 0 <=> (Awaited(p, l)' \/ Holds(p, l)' \/ Out(p, l)')
    BY <1>2, <1>6, <1>8 DEF Numbered
  <2> QED
    BY <2>1, <2>2, <2>3 DEF Numbered, Path
<1>12. InOrder'
  <2> SUFFICES ASSUME NEW l \in Key
               PROVE  /\ served'[l] <= drawn'[l]
                      /\ tails'[l] # None => ticket'[tails'[l]][l] = drawn'[l]
                      /\ \A p \in Op :
                          /\ ticket'[p][l] <= drawn'[l]
                          /\ Out(p, l)' <=> ticket'[p][l] # 0 /\ ticket'[p][l] <= served'[l]
                          /\ Holds(p, l)' => ticket'[p][l] = served'[l] + 1
                          /\ \A q \in Op : p # q /\ ticket'[p][l] = ticket'[q][l] => ticket'[p][l] = 0
    BY DEF InOrder
  <2>1. CASE l # k
    BY <1>6, <1>7, <1>8, <2>1 DEF InOrder
  <2>2. CASE l = k
    <3>1. /\ served[l] \in Nat /\ drawn[l] \in Nat /\ ticket[o][l] <= drawn[l]
          /\ \A p \in Op : ticket[p][l] \in Nat
      BY <1>5 DEF InOrder
    <3>2. served'[l] <= drawn'[l] /\ (tails'[l] # None => ticket'[tails'[l]][l] = drawn'[l])
      BY <1>3, <1>6, <1>7, <2>2, <3>1 DEF InOrder
    <3>3. \A p \in Op : p # o =>
              /\ ticket[p][l] # served[l] + 1
              /\ Out(p, l) <=> ticket[p][l] # 0 /\ ticket[p][l] <= served[l]
              /\ ~Holds(p, l)
      BY <1>3, <2>2, <3>1 DEF InOrder
    <3>4. \A p \in Op :
              /\ Out(p, l)' <=> ticket'[p][l] # 0 /\ ticket'[p][l] <= served'[l]
              /\ Holds(p, l)' => ticket'[p][l] = served'[l] + 1
      BY <1>3, <1>6, <1>7, <1>8, <2>2, <3>1, <3>3
    <3> QED
      BY <1>6, <3>2, <3>4 DEF InOrder
  <2> QED
    BY <2>1, <2>2
<1>13. OneBefore'
  <2> SUFFICES ASSUME NEW p \in Op, NEW l \in Key, Awaited(p, l)'
               PROVE  IF previous'[p] = None
                      THEN ticket'[p][l] = served'[l] + 1
                      ELSE /\ ticket'[p][l] = ticket'[previous'[p]][l] + 1
                           /\ ticket'[previous'[p]][l] # 0
    BY DEF OneBefore
  <2>1. Awaited(p, l) /\ p # o
    BY <1>1, <1>8 DEF Awaited
  <2>2. l = k => ticket[p][l] # served[l] + 1
    BY <1>1, <1>3, <1>5, <2>1 DEF InOrder
  <2> QED
    BY <1>6, <1>7, <2>1, <2>2 DEF OneBefore
<1> QED
  BY <1>9, <1>10, <1>11, <1>12, <1>13

LEMMA NextInv == IInv /\ [Next]_lockVars => IInv'
<1> SUFFICES ASSUME IInv, [Next]_lockVars PROVE IInv'
  OBVIOUS
<1>1. CASE UNCHANGED lockVars
  <2>1. TypeOK'
    BY <1>1 DEF lockVars, IInv, TypeOK
  <2>2. Progress'
    BY <1>1 DEF lockVars, IInv, Progress, Path
  <2>3. /\ \A o \in Op, k \in Key : Holds(o, k)' <=> Holds(o, k)
        /\ \A o \in Op, k \in Key : Awaited(o, k)' <=> Awaited(o, k)
        /\ \A o \in Op, k \in Key : Out(o, k)' <=> Out(o, k)
    BY <1>1 DEF lockVars, Holds, Awaited, Out, Path
  <2>4. Numbered'
    BY <1>1, <2>3 DEF lockVars, IInv, Numbered, Path
  <2>5. InOrder' /\ OneBefore'
    BY <1>1, <2>3 DEF lockVars, IInv, InOrder, OneBefore
  <2> QED
    BY <2>1, <2>2, <2>4, <2>5 DEF IInv
<1>2. ASSUME NEW o \in Op, Begin(o) \/ Step(o)
      PROVE  IInv'
  BY <1>2, AskKeeps, EnterKeeps, LeaveKeeps DEF Step
<1> QED
  BY <1>1, <1>2 DEF Next

(* The shutdown leaves the locks to the operations.                         *)
LEMMA RunsAreLockSteps == [Runs]_vars => [Next]_lockVars
<1> SUFFICES ASSUME Runs PROVE [Next]_lockVars
  BY DEF vars
<1>1. CASE Server
  BY <1>1 DEF Server, GoOn, FlushReturns, CloseSockets, Signal, Look
<1>2. ASSUME NEW o \in Op, Arrive(o) \/ BeginEvent(o) \/ Fire(o) \/ Work(o)
      PROVE  [Next]_lockVars
  BY <1>2 DEF Arrive, BeginEvent, Fire, Work, Next
<1> QED
  BY <1>1, <1>2 DEF Runs

LEMMA AlwaysInv == Lifetime => []IInv
<1>1. StartsIdle => IInv
  BY InitInv DEF StartsIdle
<1>2. IInv /\ [Runs]_vars => IInv'
  BY NextInv, RunsAreLockSteps
<1> QED
  BY <1>1, <1>2, PTL DEF Lifetime

-----------------------------------------------------------------------------
(* A lock is out of the map exactly when nobody holds it or waits for it:   *)
(* withUserMembershipLock and withRoomLifecycleLock neither leak a tail nor *)
(* drop one that is still waited for.                                       *)
THEOREM TypeCorrect == Lifetime => []TypeOK
<1>1. IInv => TypeOK
  BY DEF IInv
<1> QED
  BY <1>1, AlwaysInv, PTL

(* However many operations nest the two locks, and whatever the shutdown    *)
(* does meanwhile: nobody is inside with somebody else, and nobody who      *)
(* asked earlier is still to come.                                          *)
THEOREM AlwaysInTurn == Lifetime => []InTurn
<1>1. IInv => InTurn
  <2> SUFFICES ASSUME IInv, NEW k \in Key, NEW p \in Op, NEW q \in Op,
                      p # q, Holds(q, k), ticket[p][k] # 0, ~Out(p, k)
               PROVE  ticket[p][k] > ticket[q][k]
    BY Zenon DEF InTurn, Out
  <2>1. ticket[q][k] = served[k] + 1 /\ ticket[p][k] # ticket[q][k]
        /\ ~(ticket[p][k] <= served[k])
    BY DEF IInv, InOrder
  <2>2. ticket[p][k] \in Nat /\ served[k] \in Nat
    BY DEF IInv, TypeOK
  <2> QED
    BY <2>1, <2>2
<1> QED
  BY <1>1, AlwaysInv, PTL

(* Whom an entry and a leave let in and out.                                *)
LEMMA EnterTakes ==
    ASSUME IInv, NEW o \in Op, Enter(o), NEW k \in Key
    PROVE  /\ UNCHANGED <<drawn, served>>
           /\ k # Path(o)[held[o] + 1] => \A p \in Op : Holds(p, k)' <=> Holds(p, k)
           /\ k = Path(o)[held[o] + 1] => Awaited(o, k) /\ Holds(o, k)'
<1>1. /\ stage[o] = "waiting" /\ held[o] \in 0..2 /\ held \in [Op -> 0..2]
      /\ held[o] < Len(Path(o))
      /\ held' = [held EXCEPT ![o] = @ + 1] /\ UNCHANGED <<drawn, served>>
  BY DEF Enter, IInv, TypeOK, Progress
<1>2. held'[o] = held[o] + 1 /\ \A p \in Op : p # o => held'[p] = held[p]
  BY <1>1
<1>3. \A p \in Op : p # o => (Holds(p, k)' <=> Holds(p, k))
  BY <1>2 DEF Holds, Path
<1>4. Holds(o, k)' <=> (Holds(o, k) \/ k = Path(o)[held[o] + 1])
  BY <1>1, <1>2 DEF Holds, Path
<1> QED
  BY <1>1, <1>3, <1>4 DEF Awaited

LEMMA LeaveGives ==
    ASSUME IInv, NEW o \in Op, Leave(o), NEW k \in Key
    PROVE  /\ drawn' = drawn
           /\ k # Path(o)[held[o]] => /\ \A p \in Op : Holds(p, k)' <=> Holds(p, k)
                                      /\ served'[k] = served[k]
           /\ k = Path(o)[held[o]] => /\ Holds(o, k) /\ ~Holds(o, k)'
                                      /\ \A p \in Op : Holds(p, k)' => Holds(p, k)
                                      /\ served'[k] = served[k] + 1
<1>1. /\ held[o] \in {1, 2} /\ held \in [Op -> 0..2] /\ served \in [Key -> Nat]
      /\ held[o] \in 1..Len(Path(o)) /\ drawn' = drawn
      /\ held' = [held EXCEPT ![o] = @ - 1]
      /\ served' = [served EXCEPT ![Path(o)[held[o]]] = @ + 1]
  <2>1. held[o] \in 0..2 /\ Len(Path(o)) \in {1, 2} /\ held \in [Op -> 0..2]
        /\ served \in [Key -> Nat]
    BY Paths DEF IInv, TypeOK
  <2>2. held[o] > 0 /\ held[o] <= Len(Path(o))
    BY <2>1 DEF Leave, IInv, Progress
  <2> QED
    BY <2>1, <2>2 DEF Leave
<1>2. held'[o] = held[o] - 1 /\ \A p \in Op : p # o => held'[p] = held[p]
  BY <1>1
<1>3. \A p \in Op : p # o => (Holds(p, k)' <=> Holds(p, k))
  BY <1>2 DEF Holds, Path
<1>4. \A i \in 1..Len(Path(o)) : Path(o)[i] = Path(o)[held[o]] <=> i = held[o]
  BY <1>1, Paths
<1>5. Holds(o, k)' <=> (Holds(o, k) /\ k # Path(o)[held[o]])
  <2>1. Holds(o, k)' <=> \E i \in 1..(held[o] - 1) : Path(o)[i] = k
    BY <1>2 DEF Holds, Path
  <2>2. \A i \in 1..(held[o] - 1) : i \in 1..Len(Path(o)) /\ i # held[o] /\ i \in 1..held[o]
    BY <1>1
  <2>3. \A i \in 1..held[o] : i # held[o] => i \in 1..(held[o] - 1)
    BY <1>1
  <2>4. CASE k = Path(o)[held[o]]
    BY <1>4, <2>1, <2>2, <2>4
  <2>5. CASE k # Path(o)[held[o]]
    BY <2>1, <2>2, <2>3, <2>5 DEF Holds
  <2> QED
    BY <2>4, <2>5
<1>6. k = Path(o)[held[o]] => Holds(o, k)
  BY <1>1 DEF Holds
<1> QED
  BY <1>1, <1>3, <1>5, <1>6

LEMMA StepRefines ==
    ASSUME IInv, [Next]_lockVars, NEW k \in Key
    PROVE  [Lock(k)!Next]_(Lock(k)!lockVars)
<1> USE DEF IInv
<1> DEFINE inside == \E o \in Op : Holds(o, k)
<1> SUFFICES \/ UNCHANGED <<drawn[k], served[k], inside>>
             \/ drawn'[k] = drawn[k] + 1 /\ UNCHANGED <<served[k], inside>>
             \/ /\ ~inside /\ served[k] < drawn[k]
                /\ inside' = TRUE /\ UNCHANGED <<drawn[k], served[k]>>
             \/ /\ inside /\ inside' = FALSE
                /\ served'[k] = served[k] + 1 /\ drawn'[k] = drawn[k]
  BY DEF Lock!Next, Lock!lockVars, Lock!Draw, Lock!Enter, Lock!Leave
<1>1. CASE UNCHANGED lockVars
  BY <1>1 DEF lockVars, Holds, Path
<1>2. ASSUME NEW o \in Op, Ask(o)
      PROVE  /\ drawn'[k] = drawn[k] + 1 \/ drawn'[k] = drawn[k]
             /\ UNCHANGED <<served[k], inside>>
  <2>1. drawn \in [Key -> Nat]
    BY DEF TypeOK
  <2>2. drawn'[k] = drawn[k] + 1 \/ drawn'[k] = drawn[k]
    BY <1>2, <2>1 DEF Ask
  <2>3. UNCHANGED <<served, held>>
    BY <1>2 DEF Ask
  <2> QED
    BY <2>2, <2>3 DEF Holds, Path
<1>3. ASSUME NEW o \in Op, Enter(o), k = Path(o)[held[o] + 1]
      PROVE  /\ ~inside /\ served[k] < drawn[k]
             /\ inside' = TRUE /\ UNCHANGED <<drawn[k], served[k]>>
  <2>1. Awaited(o, k) /\ Holds(o, k)' /\ UNCHANGED <<drawn, served>>
    BY <1>3, EnterTakes
  <2>2. IInv'
    BY <1>3, EnterKeeps
  <2>3. ticket' = ticket
    BY <1>3 DEF Enter
  <2>4. ticket[o][k] = served[k] + 1 /\ ticket[o][k] <= drawn[k]
    BY <2>1, <2>2, <2>3 DEF InOrder
  <2>5. ASSUME NEW p \in Op, Holds(p, k) PROVE FALSE
    <3>1. ticket[p][k] = ticket[o][k] /\ ticket[p][k] # 0
      BY <2>4, <2>5 DEF InOrder, Numbered
    <3>2. p = o
      BY <3>1 DEF InOrder
    <3>3. ~Holds(o, k)
      <4>1. held[o] \in 0..2 /\ held[o] < Len(Path(o))
        BY <1>3 DEF Enter, TypeOK, Progress
      <4>2. \A i \in 1..held[o] : Path(o)[i] # k
        BY <1>3, <4>1, Paths
      <4> QED
        BY <4>2 DEF Holds
    <3> QED
      BY <2>5, <3>2, <3>3
  <2>6. served[k] \in Nat /\ drawn[k] \in Nat
    BY DEF TypeOK
  <2> QED
    BY <2>1, <2>4, <2>5, <2>6
<1>4. ASSUME NEW o \in Op, Enter(o), k # Path(o)[held[o] + 1]
      PROVE  UNCHANGED <<drawn[k], served[k], inside>>
  BY <1>4, EnterTakes
<1>5. ASSUME NEW o \in Op, Leave(o), k = Path(o)[held[o]]
      PROVE  /\ inside /\ inside' = FALSE
             /\ served'[k] = served[k] + 1 /\ drawn'[k] = drawn[k]
  <2>1. /\ Holds(o, k) /\ ~Holds(o, k)' /\ served'[k] = served[k] + 1 /\ drawn' = drawn
        /\ \A p \in Op : Holds(p, k)' => Holds(p, k)
    BY <1>5, LeaveGives
  <2>2. \A p \in Op : Holds(p, k) => p = o
    BY <2>1 DEF InOrder, Numbered
  <2>3. ~inside'
    BY <2>1, <2>2
  <2> QED
    BY <2>1, <2>3
<1>6. ASSUME NEW o \in Op, Leave(o), k # Path(o)[held[o]]
      PROVE  UNCHANGED <<drawn[k], served[k], inside>>
  BY <1>6, LeaveGives
<1> QED
  BY <1>1, <1>2, <1>3, <1>4, <1>5, <1>6 DEF Next, Step, Begin, Nest

(* To those who use it, each of the locks is a queue with numbers: it       *)
(* implements TicketLock.                                                   *)
THEOREM LocksAreTicketLocks == Lifetime => IsTicketLock
<1>1. StartsIdle => \A k \in Key : Lock(k)!Init
  BY DEF StartsIdle, Init, Lock!Init, Holds
<1>2. IInv /\ [Runs]_vars => [\A k \in Key : [Lock(k)!Next]_(Lock(k)!lockVars)]_lockVars
  BY RunsAreLockSteps, StepRefines
<1> QED
  BY <1>1, <1>2, AlwaysInv, PTL DEF Lifetime, IsTicketLock
-----------------------------------------------------------------------------
(* The instructions of the shutdown.                                        *)
Instr == {"clear", "flush", "operations", "locks", "close"}
LEMMA ProgramIs ==
    /\ DOMAIN Program = 1..23 /\ Len(Program) = 23
    /\ Program[1] = "clear" /\ Program[11] = "operations" /\ Program[12] = "locks"
    /\ Program[13] = "operations" /\ Program[14] = "clear"
    /\ \A i \in 1..23 : Program[i] = "close" => i = 10
<1> DEFINE a == <<"clear", "flush", "clear">>
           k == <<"close">>
           b == a \o drain
           c == b \o k
           d == c \o drain
           e == d \o drain
           l == <<"flush">>
<1>1. /\ b = a \o drain /\ c = b \o k /\ d = c \o drain /\ e = d \o drain
      /\ Program = e \o l
  BY DEF Program
<1>2. /\ drain \in Seq(Instr) /\ Len(drain) = 6 /\ a \in Seq(Instr) /\ Len(a) = 3
      /\ k \in Seq(Instr) /\ Len(k) = 1 /\ l \in Seq(Instr) /\ Len(l) = 1
      /\ \A i \in 1..6 : drain[i] # "close"
      /\ drain[1] = "operations" /\ drain[2] = "locks" /\ drain[3] = "operations"
      /\ drain[4] = "clear"
      /\ a[1] = "clear" /\ \A i \in 1..3 : a[i] # "close"
      /\ l[1] # "close"
  BY DEF drain, Instr
<1> HIDE DEF a, b, c, d, e, k, l
<1>3. /\ a \in Seq(Instr) /\ b \in Seq(Instr) /\ c \in Seq(Instr) /\ d \in Seq(Instr)
      /\ e \in Seq(Instr) /\ drain \in Seq(Instr) /\ k \in Seq(Instr) /\ l \in Seq(Instr)
  BY <1>1, <1>2
<1>4. b \in Seq(Instr) /\ Len(b) = 9 /\ b[1] = "clear" /\ \A i \in 1..9 : b[i] # "close"
  <2>1. /\ b \in Seq(Instr) /\ Len(b) = Len(a) + Len(drain)
        /\ \A i \in 1..(Len(a) + Len(drain)) :
            b[i] = IF i <= Len(a) THEN a[i] ELSE drain[i - Len(a)]
    BY <1>1, <1>3, SMT
  <2> QED
    BY <1>2, <2>1, SMT
<1>5. /\ c \in Seq(Instr) /\ Len(c) = 10 /\ c[1] = "clear"
      /\ \A i \in 1..10 : c[i] = "close" => i = 10
  <2>1. /\ c \in Seq(Instr) /\ Len(c) = Len(b) + Len(k)
        /\ \A i \in 1..(Len(b) + Len(k)) :
            c[i] = IF i <= Len(b) THEN b[i] ELSE k[i - Len(b)]
    BY <1>1, <1>3, SMT
  <2> QED
    BY <1>2, <1>4, <2>1, SMT
<1>6. /\ d \in Seq(Instr) /\ Len(d) = 16 /\ \A i \in 1..16 : d[i] = "close" => i = 10
      /\ d[1] = "clear" /\ d[11] = "operations" /\ d[12] = "locks" /\ d[13] = "operations" /\ d[14] = "clear"
  <2>1. /\ d \in Seq(Instr) /\ Len(d) = Len(c) + Len(drain)
        /\ \A i \in 1..(Len(c) + Len(drain)) :
            d[i] = IF i <= Len(c) THEN c[i] ELSE drain[i - Len(c)]
    BY <1>1, <1>3, SMT
  <2> QED
    BY <1>2, <1>5, <2>1, SMT
<1>7. /\ e \in Seq(Instr) /\ Len(e) = 22 /\ \A i \in 1..22 : e[i] = "close" => i = 10
      /\ e[1] = "clear" /\ e[11] = "operations" /\ e[12] = "locks" /\ e[13] = "operations" /\ e[14] = "clear"
  <2>1. /\ e \in Seq(Instr) /\ Len(e) = Len(d) + Len(drain)
        /\ \A i \in 1..(Len(d) + Len(drain)) :
            e[i] = IF i <= Len(d) THEN d[i] ELSE drain[i - Len(d)]
    BY <1>1, <1>3, SMT
  <2> QED
    BY <1>2, <1>6, <2>1, SMT
<1>8. /\ Program \in Seq(Instr) /\ Len(Program) = 23
      /\ \A i \in 1..23 : Program[i] = "close" => i = 10
      /\ Program[1] = "clear" /\ Program[11] = "operations" /\ Program[12] = "locks"
      /\ Program[13] = "operations" /\ Program[14] = "clear"
  <2>1. /\ Program \in Seq(Instr) /\ Len(Program) = Len(e) + Len(l)
        /\ \A i \in 1..(Len(e) + Len(l)) :
            Program[i] = IF i <= Len(e) THEN e[i] ELSE l[i - Len(e)]
    BY <1>1, <1>3, SMT
  <2> QED
    BY <1>2, <1>7, <2>1, SMT
<1> QED
  BY <1>8

(* What the end of the shutdown rests on.  Once it is closing no tracked    *)
(* timer is armed; once the sockets are closed and the operations drained   *)
(* for the third time, at step 12, nothing tracked is left, so that no      *)
(* user's lock is held, and a drain that finds the rooms' locks free at one *)
(* moment finds the users' free at the same one; the timers that were armed *)
(* meanwhile are cleared before anything else happens.                      *)
NothingRuns == \A o \in Op : ~Running(o)

Draining ==
    /\ step \in Nat /\ armed \subseteq Timer
    /\ drained \subseteq Map /\ awaiting \in [Map -> SUBSET (Op \X Key)]
    /\ Closing => armed \cap Tracked = {}
    /\ step > 11 => /\ admitted = {} /\ awaiting["users"] = {}
                    /\ \A o \in Tracked : ~Running(o)
                    /\ "rooms" \in drained \/ step > 12 => NothingRuns
    /\ step > 14 => armed = {}

LEMMA HowFar ==
    ASSUME IInv, NEW o \in Op
    PROVE  /\ stage[o] \in {"new", "waiting", "inside", "leaving", "done"}
           /\ held[o] \in 0..2 /\ Len(Path(o)) \in {1, 2}
           /\ stage[o] \in {"new", "done"} => held[o] = 0
           /\ stage[o] = "waiting" => held[o] < Len(Path(o))
           /\ stage[o] = "inside" => held[o] > 0 /\ held[o] <= Len(Path(o))
           /\ stage[o] = "leaving" => held[o] > 0 /\ held[o] < Len(Path(o))
BY Paths DEF IInv, TypeOK, Progress

(* A lock that is in the map has an operation on the way through it, and an *)
(* operation that needs the room's lock only keeps it in the map.           *)
LEMMA TailRuns ==
    ASSUME IInv, NEW k \in User, tails[k] # None
    PROVE  \E o \in Op : Running(o) /\ UserOf[o] # None
<1> DEFINE o == tails[k]
<1>1. /\ k \in Key /\ o \in Op /\ drawn[k] \in Nat /\ served[k] \in Nat
      /\ drawn[k] # served[k] /\ ticket[o][k] \in Nat
  BY DEF IInv, TypeOK, Key
<1> HIDE DEF o
<1>2. ticket[o][k] = drawn[k] /\ served[k] <= drawn[k]
  BY <1>1 DEF IInv, InOrder, o
<1>3. ticket[o][k] # 0 /\ ~Out(o, k)
  BY <1>1, <1>2 DEF IInv, InOrder
<1>4. Awaited(o, k) \/ Holds(o, k)
  BY <1>1, <1>3 DEF IInv, Numbered
<1>5. Running(o)
  <2>1. CASE Awaited(o, k)
    BY <2>1 DEF Awaited, Running
  <2>2. CASE Holds(o, k)
    <3>1. held[o] # 0
      BY <2>2 DEF Holds
    <3> QED
      BY <1>1, <3>1 DEF IInv, Progress, Running
  <2> QED
    BY <1>4, <2>1, <2>2
<1>6. \E i \in 1..Len(Path(o)) : Path(o)[i] = k
  <2>1. held[o] \in 0..2 /\ Len(Path(o)) \in {1, 2}
    BY <1>1, Paths DEF IInv, TypeOK
  <2>2. CASE Awaited(o, k)
    <3>1. held[o] < Len(Path(o)) /\ Path(o)[held[o] + 1] = k
      BY <1>1, <2>2 DEF Awaited, IInv, Progress
    <3>2. held[o] + 1 \in 1..Len(Path(o))
      BY <2>1, <3>1, NextIndex
    <3> QED
      BY <3>1, <3>2
  <2>3. CASE Holds(o, k)
    <3>1. PICK i \in 1..held[o] : Path(o)[i] = k
      BY <2>3 DEF Holds
    <3>2. held[o] <= Len(Path(o))
      BY <1>1, <3>1, HowFar
    <3> QED
      BY <2>1, <3>1, <3>2
  <2> QED
    BY <1>4, <2>2, <2>3
<1>7. UserOf[o] # None
  <2> SUFFICES ASSUME UserOf[o] = None PROVE FALSE
    OBVIOUS
  <2>1. Path(o) = <<RoomOf[o]>> /\ RoomOf[o] \in Room
    BY <1>1, OpAssumption DEF Path
  <2> QED
    BY <1>6, <2>1, OpAssumption
<1> QED
  BY <1>1, <1>5, <1>7

LEMMA RoomKept ==
    ASSUME IInv, NEW o \in Op, Running(o), UserOf[o] = None
    PROVE  RoomOf[o] \in Room /\ tails[RoomOf[o]] # None
<1> DEFINE k == RoomOf[o]
<1>1. k \in Room /\ k \in Key /\ Path(o) = <<k>>
  BY OpAssumption DEF Path, Key
<1> HIDE DEF k
<1>2. /\ drawn[k] \in Nat /\ served[k] \in Nat /\ ticket[o][k] \in Nat /\ held[o] \in 0..2
      /\ stage[o] \in {"waiting", "inside", "leaving"}
  BY <1>1 DEF IInv, TypeOK, Running
<1>3. Len(Path(o)) = 1 /\ Path(o)[1] = k
  BY <1>1
<1>4. Awaited(o, k) \/ Holds(o, k)
  <2>1. CASE stage[o] = "waiting"
    <3>1. held[o] = 0
      <4>1. held[o] < Len(Path(o)) /\ held[o] \in 0..2
        BY <2>1, HowFar
      <4> QED
        BY <1>3, <4>1
    <3> QED
      BY <1>3, <2>1, <3>1 DEF Awaited
  <2>2. CASE stage[o] = "inside"
    <3>1. held[o] = 1
      <4>1. held[o] <= Len(Path(o)) /\ held[o] > 0 /\ held[o] \in 0..2
        BY <2>2, HowFar
      <4> QED
        BY <1>3, <4>1
    <3> QED
      BY <1>3, <3>1 DEF Holds
  <2>3. stage[o] # "leaving"
    BY <1>3, HowFar
  <2> QED
    BY <1>2, <2>1, <2>2, <2>3
<1>5. ticket[o][k] # 0 /\ ~Out(o, k)
  <2>1. ~Out(o, k)
    BY <1>1, <1>2, <1>3 DEF IInv, Numbered, Progress
  <2> QED
    BY <1>1, <1>4, <2>1 DEF IInv, Numbered
<1>6. ticket[o][k] > served[k] /\ ticket[o][k] <= drawn[k]
  BY <1>1, <1>2, <1>5 DEF IInv, InOrder
<1> QED
  BY <1>1, <1>2, <1>6 DEF IInv, TypeOK, k

LEMMA StaysQuiet ==
    ASSUME IInv, Draining, Runs
    PROVE  Draining'
<1> USE DEF Closing
<1>1. step \in Nat
  BY DEF Draining
<1>2. ASSUME step > 11
      PROVE  /\ admitted = {} /\ awaiting["users"] = {}
             /\ \A o \in Tracked : ~Running(o)
             /\ \A k \in User : tails[k] = None
  BY <1>2, TailRuns, UntrackedAssumption DEF Draining
<1>3. CASE GoOn
  <2>1. /\ step' = step + 1 /\ drained' = {} /\ awaiting' = [m \in Map |-> {}]
        /\ UNCHANGED <<lockVars, admitted>>
        /\ armed' = IF Instruction = "clear" THEN {} ELSE armed
        /\ Instruction = Program[step] /\ step \in DOMAIN Program /\ CanGoOn
    BY <1>3 DEF GoOn, Advance, Instruction, CanGoOn
  <2>2. \A o \in Op : Running(o)' <=> Running(o)
    BY <2>1 DEF Running, lockVars
  <2>3. armed' \subseteq Timer /\ (Closing => armed' \cap Tracked = {})
    BY <2>1 DEF Draining
  <2>4. Closing' => armed' \cap Tracked = {}
    <3>1. CASE step = 1
      BY <2>1, <3>1, ProgramIs
    <3>2. CASE step > 1
      BY <2>1, <2>3, <3>2
    <3>3. CASE step = 0
      BY <2>1, <3>3
    <3> QED
      BY <1>1, <3>1, <3>2, <3>3
  <2>5. ASSUME step' > 11
        PROVE  admitted = {} /\ (\A o \in Tracked : ~Running(o))
    <3>1. CASE step = 11
      BY <2>1, <3>1, ProgramIs DEF CanGoOn
    <3>2. CASE step > 11
      BY <1>2, <3>2
    <3> QED
      BY <1>1, <2>1, <2>5, <3>1, <3>2
  <2>6. ASSUME step' > 12
        PROVE  NothingRuns
    <3>1. CASE step = 12
      BY <2>1, <3>1, ProgramIs DEF CanGoOn, Draining, Map
    <3>2. CASE step > 12
      BY <1>1, <3>2 DEF Draining
    <3> QED
      BY <1>1, <2>1, <2>6, <3>1, <3>2
  <2>7. step' > 14 => armed' = {}
    <3>1. CASE step = 14
      BY <2>1, <3>1, ProgramIs
    <3>2. CASE step > 14
      BY <2>1, <3>2 DEF Draining
    <3> QED
      BY <1>1, <2>1, <3>1, <3>2
  <2> QED
    BY <1>1, <2>1, <2>2, <2>3, <2>4, <2>5, <2>6, <2>7, EventAssumption
    DEF Draining, NothingRuns, Map
<1>4. CASE FlushReturns \/ CloseSockets \/ Signal
  <2>1. /\ step' = step + 1 /\ drained' = {} /\ awaiting' = [m \in Map |-> {}]
        /\ UNCHANGED <<lockVars, armed>>
    BY <1>4 DEF FlushReturns, CloseSockets, Signal, Advance
  <2>2. \A o \in Op : Running(o)' <=> Running(o)
    BY <2>1 DEF Running, lockVars
  <2>3. step \notin {1, 11, 12, 14} /\ (step > 11 => UNCHANGED admitted)
    <3>1. CASE FlushReturns
      <4>1. Program[step] = "flush" /\ UNCHANGED admitted
        BY <3>1 DEF FlushReturns, Instruction
      <4> QED
        BY <4>1, ProgramIs
    <3>2. CASE CloseSockets
      BY <1>1, <3>2, ProgramIs DEF CloseSockets, Instruction
    <3>3. CASE Signal
      BY <3>3 DEF Signal
    <3> QED
      BY <1>4, <3>1, <3>2, <3>3
  <2> QED
    BY <1>1, <2>1, <2>2, <2>3, EventAssumption DEF Draining, NothingRuns, Map
<1>5. ASSUME NEW m \in Map, Look(m)
      PROVE  Draining'
  <2> DEFINE tickets == {<<tails[k], k>> : k \in {k \in KeysOf(m) : tails[k] # None}}
  <2>1. /\ awaiting' = [awaiting EXCEPT ![m] = tickets]
        /\ drained' = IF tickets = {} THEN drained \cup {m} ELSE drained
        /\ UNCHANGED <<lockVars, admitted, armed, step>>
    BY <1>5 DEF Look
  <2>2. \A o \in Op : Running(o)' <=> Running(o)
    BY <2>1 DEF Running, lockVars
  <2>3. ASSUME step > 11
        PROVE  awaiting'["users"] = {}
    <3>1. CASE m = "users"
      <4>1. tickets = {}
        BY <1>2, <2>3, <3>1 DEF KeysOf
      <4> QED
        BY <2>1, <3>1, <4>1 DEF Draining
    <3>2. CASE m # "users"
      BY <1>2, <2>1, <2>3, <3>2
    <3> QED
      BY <3>1, <3>2
  <2>4. ASSUME step > 11, "rooms" \in drained' \/ step > 12
        PROVE  NothingRuns
    <3>1. CASE "rooms" \in drained \/ step > 12
      BY <2>4, <3>1 DEF Draining
    <3>2. CASE m = "rooms" /\ tickets = {}
      <4>1. \A k \in Room : tails[k] = None
        BY <3>2 DEF KeysOf
      <4>2. \A o \in Op \ Tracked : ~Running(o)
        BY <4>1, RoomKept, UntrackedAssumption
      <4> QED
        BY <1>2, <2>4, <4>2 DEF NothingRuns
    <3> QED
      BY <2>1, <2>4, <3>1, <3>2
  <2>5. tickets \subseteq Op \X Key
    BY DEF KeysOf, IInv, TypeOK, Key
  <2> HIDE DEF tickets
  <2>6. awaiting' \in [Map -> SUBSET (Op \X Key)] /\ drained' \subseteq Map
    BY <2>1, <2>5 DEF Draining
  <2> QED
    BY <2>1, <2>2, <2>3, <2>4, <2>6, EventAssumption DEF Draining, NothingRuns
<1>6. ASSUME NEW o \in Op, Arrive(o)
      PROVE  Draining'
  <2>1. UNCHANGED <<lockVars, armed, program>>
    BY <1>6 DEF Arrive
  <2>2. step \in Nat /\ ~(step > 11)
    BY <1>1, <1>6, ProgramIs DEF Arrive, SocketsOpen
  <2> QED
    BY <2>1, <2>2 DEF Draining, program
<1>7. ASSUME NEW o \in Op, BeginEvent(o)
      PROVE  Draining'
  <2>1. UNCHANGED <<armed, program>> /\ o \in admitted
    BY <1>7 DEF BeginEvent
  <2>2. ~(step > 11)
    BY <1>2, <2>1
  <2> QED
    BY <1>1, <2>1, <2>2 DEF Draining, program
<1>8. ASSUME NEW o \in Op, Fire(o)
      PROVE  Draining'
  <2>1. /\ UNCHANGED <<admitted, program>> /\ o \in armed /\ armed' = armed \ {o}
        /\ stage' = [stage EXCEPT ![o] = "waiting"] /\ Blocked
    BY <1>8 DEF Fire, Begin, Ask
  <2>2. ASSUME step > 11
        PROVE  /\ \A p \in Tracked : ~Running(p)'
               /\ step = 12 /\ "rooms" \notin drained
    <3>1. o \notin Tracked
      BY <1>1, <2>1, <2>2 DEF Draining
    <3>2. \A p \in Tracked : ~Running(p)'
      BY <1>2, <2>1, <2>2, <3>1, EventAssumption DEF Running, IInv, TypeOK
    <3>3. ~(step > 14)
      BY <2>1 DEF Draining
    <3>4. step # 13 /\ step # 14
      BY <1>2, <2>1, <2>2, ProgramIs DEF Blocked, CanGoOn, Instruction
    <3>5. step = 12
      BY <1>1, <2>2, <3>3, <3>4
    <3>6. "rooms" \notin drained
      <4>1. Instruction = "locks"
        BY <3>5, ProgramIs DEF Instruction
      <4>2. "users" \notin drained => CanLook("users")
        BY <1>2, <2>2, <4>1 DEF CanLook
      <4>3. "users" \in drained
        BY <2>1, <4>2 DEF Blocked, Map
      <4>4. drained # Map
        BY <2>1, <4>1 DEF Blocked, CanGoOn
      <4>5. drained \subseteq Map
        BY DEF Draining
      <4> QED
        BY <4>3, <4>4, <4>5 DEF Map
    <3> QED
      BY <3>2, <3>5, <3>6
  <2> QED
    BY <1>1, <1>2, <2>1, <2>2 DEF Draining, program
<1>9. ASSUME NEW o \in Op, Work(o)
      PROVE  Draining'
  <2>1. /\ UNCHANGED <<admitted, program>> /\ Step(o)
        /\ armed' \subseteq armed \cup MayArm
    BY <1>9 DEF Work
  <2>2. Running(o) /\ (\A p \in Op : p # o => stage'[p] = stage[p])
    BY <2>1 DEF Step, Nest, Ask, Enter, Leave, Running, IInv, TypeOK
  <2>3. armed' \subseteq Timer /\ (Closing => armed' \cap Tracked = {})
    BY <2>1 DEF Draining, MayArm
  <2>4. ASSUME step > 11
        PROVE  /\ \A p \in Tracked : ~Running(p)'
               /\ ~(step > 12) /\ "rooms" \notin drained
    <3>1. ~NothingRuns
      BY <2>2 DEF NothingRuns
    <3>2. o \notin Tracked
      BY <1>2, <2>2, <2>4
    <3> QED
      BY <1>2, <2>2, <2>4, <3>1, <3>2, EventAssumption DEF Draining, Running
  <2> QED
    BY <1>1, <1>2, <2>1, <2>3, <2>4 DEF Draining, program
<1> QED
  BY <1>3, <1>4, <1>5, <1>6, <1>7, <1>8, <1>9 DEF Runs, Server

(* The shutdown loses nothing: when the last flush begins no operation is   *)
(* in progress and no event or timer can start one, however many tasks      *)
(* there are and whatever they arm ("Clear it again only after all admitted *)
(* work is done", drain).                                                   *)
THEOREM AlwaysQuiet == Lifetime => []QuietAtLastFlush
<1>1. StartsIdle => Draining
  BY DEF StartsIdle, Draining, Closing
<1>2. IInv /\ Draining /\ [Runs]_vars => Draining'
  <2>1. CASE Runs
    BY <2>1, StaysQuiet
  <2>2. CASE UNCHANGED vars
    BY <2>2 DEF vars, lockVars, program, Draining, Closing, NothingRuns, Running
  <2> QED
    BY <2>1, <2>2
<1>3. Draining => QuietAtLastFlush
  BY ProgramIs DEF Draining, QuietAtLastFlush, LastFlush, NothingRuns
<1> QED
  BY <1>1, <1>2, <1>3, AlwaysInv, PTL DEF Lifetime
=============================================================================
