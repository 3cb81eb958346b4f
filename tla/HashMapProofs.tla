--------------------------- MODULE HashMapProofs ---------------------------
(***************************************************************************)
(* Proofs about HashMap, for any set of nodes, any hash function and any   *)
(* values of the two limits: no node is lost or doubled by a migration,    *)
(* migrate_pos stays in the array, growth keeps pace with inserts, and the *)
(* map implements Dictionary.                                              *)
(***************************************************************************)
EXTENDS HashMap, FiniteSetTheorems, TLAPS

-----------------------------------------------------------------------------
(* One table. *)

Good(t) == IsTable(t) /\ Exact(t)

\* A slot index is in the array.
LEMMA SlotRange ==
  ASSUME NEW t, IsTable(t), t.cap # 0, NEW x \in Nodes
  PROVE  Slot(t, x) \in 0 .. t.cap - 1
<1>1. hcode[x] \in Nat /\ t.cap \in Nat \ {0}
  BY HashAssumption DEF IsTable
<1>2. \A n \in Nat, m \in Nat \ {0} : n % m \in 0 .. m - 1
  OBVIOUS
<1> QED
  BY <1>1, <1>2, Zenon DEF Slot

\* h_foreach visits finitely many nodes: none exactly when size is 0.
LEMMA Counted ==
  ASSUME NEW t, Good(t)
  PROVE  /\ IsFiniteSet(h_foreach(t))
         /\ t.size \in Nat /\ t.size = Cardinality(h_foreach(t))
         /\ t.size = 0 <=> h_foreach(t) = {}
<1>1. h_foreach(t) \in SUBSET Nodes /\ IsFiniteSet(Nodes)
  BY HashAssumption DEF h_foreach
<1>2. IsFiniteSet(h_foreach(t))
  BY <1>1, FS_Subset
<1> QED
  BY <1>2, FS_EmptySet DEF Good, IsTable, Exact

\* h_init gives an empty table, and HTab{} is one without slots.
LEMMA EmptyTable ==
  ASSUME NEW n \in Nat
  PROVE  /\ Good(h_init(n)) /\ h_foreach(h_init(n)) = {}
         /\ h_init(n).cap = n /\ h_init(n).size = 0
         /\ \A i \in 0 .. n - 1 : h_init(n).tab[i] = {}
<1>1. /\ h_init(n).cap = n /\ h_init(n).size = 0
      /\ h_init(n).tab = [i \in 0 .. n - 1 |-> {}]
  BY DEF h_init
<1>2. h_foreach(h_init(n)) = {}
  BY <1>1 DEF h_foreach
<1>3. IsTable(h_init(n))
  BY <1>1 DEF IsTable, h_init
<1>4. Exact(h_init(n))
  BY <1>1, <1>2, FS_EmptySet DEF Exact
<1> QED
  BY <1>1, <1>2, <1>3, <1>4 DEF Good

\* h_insert adds a node that is not in the table, and only that.
LEMMA InsertNode ==
  ASSUME NEW t, Good(t), t.cap # 0, NEW x \in Nodes, x \notin h_foreach(t)
  PROVE  /\ Good(h_insert(t, x)) /\ h_foreach(h_insert(t, x)) = h_foreach(t) \cup {x}
         /\ h_insert(t, x).cap = t.cap /\ h_insert(t, x).size = t.size + 1
<1> DEFINE u == h_insert(t, x)
           p == Slot(t, x)
<1>1. p \in 0 .. t.cap - 1
  BY SlotRange DEF Good
<1>2. u = [cap |-> t.cap, tab |-> [t.tab EXCEPT ![p] = @ \cup {x}], size |-> t.size + 1]
  BY DEF h_insert
<1>3. /\ u.cap = t.cap /\ u.size = t.size + 1 /\ u.tab = [t.tab EXCEPT ![p] = @ \cup {x}]
      /\ t.tab \in [0 .. t.cap - 1 -> SUBSET Nodes] /\ t.cap \in Nat /\ t.size \in Nat
  BY <1>2 DEF Good, IsTable
<1> HIDE DEF u, p
<1>4. IsTable(u)
  BY <1>1, <1>2, <1>3 DEF IsTable
<1>5. \A i \in 0 .. t.cap - 1 : u.tab[i] = IF i = p THEN t.tab[i] \cup {x} ELSE t.tab[i]
  BY <1>1, <1>3, Zenon
<1>6. h_foreach(u) = h_foreach(t) \cup {x}
  BY <1>1, <1>3, <1>5 DEF h_foreach
<1>7. Cardinality(h_foreach(u)) = Cardinality(h_foreach(t)) + 1
  BY <1>6, Counted, FS_AddElement
<1>8. \A y : Slot(u, y) = Slot(t, y)
  BY <1>3 DEF Slot
<1>9. Exact(u)
  BY <1>3, <1>5, <1>7, <1>8 DEF Exact, Good, p
<1> QED
  BY <1>3, <1>4, <1>6, <1>9 DEF Good, u

\* h_detach removes the node it is given, and only that.
LEMMA DetachNode ==
  ASSUME NEW t, Good(t), NEW p \in 0 .. t.cap - 1, NEW x \in t.tab[p]
  PROVE  /\ Good(h_detach(t, p, x)) /\ h_foreach(h_detach(t, p, x)) = h_foreach(t) \ {x}
         /\ h_detach(t, p, x).cap = t.cap /\ h_detach(t, p, x).size = t.size - 1
         /\ t.size > 0 /\ x \in h_foreach(t)
         /\ \A i \in 0 .. t.cap - 1 : h_detach(t, p, x).tab[i] \subseteq t.tab[i]
<1> DEFINE u == h_detach(t, p, x)
<1>1. u = [cap |-> t.cap, tab |-> [t.tab EXCEPT ![p] = @ \ {x}], size |-> t.size - 1]
  BY DEF h_detach
<1>2. /\ u.cap = t.cap /\ u.size = t.size - 1 /\ u.tab = [t.tab EXCEPT ![p] = @ \ {x}]
      /\ t.tab \in [0 .. t.cap - 1 -> SUBSET Nodes] /\ t.cap \in Nat /\ t.size \in Nat
  BY <1>1 DEF Good, IsTable
<1> HIDE DEF u
<1>3. x \in h_foreach(t)
  BY <1>2 DEF h_foreach
<1>4. t.size > 0
  BY <1>3, Counted
<1>5. IsTable(u)
  BY <1>1, <1>2, <1>4 DEF IsTable
<1>6. \A i \in 0 .. t.cap - 1 : u.tab[i] = IF i = p THEN t.tab[i] \ {x} ELSE t.tab[i]
  BY <1>2, Zenon
<1>7. \A i \in 0 .. t.cap - 1 : x \in t.tab[i] => i = p
  BY DEF Good, Exact
<1>8. h_foreach(u) = h_foreach(t) \ {x}
  BY <1>2, <1>6, <1>7 DEF h_foreach
<1>9. Cardinality(h_foreach(u)) = Cardinality(h_foreach(t)) - 1
  BY <1>3, <1>8, Counted, FS_RemoveElement, Zenon
<1>10. \A y : Slot(u, y) = Slot(t, y)
  BY <1>2 DEF Slot
<1>11. Exact(u)
  BY <1>2, <1>6, <1>9, <1>10 DEF Exact, Good
<1> QED
  BY <1>2, <1>3, <1>4, <1>5, <1>6, <1>8, <1>11 DEF Good, u

\* h_lookup finds exactly the nodes of the table, in the slot of their hash.
LEMMA LookupNode ==
  ASSUME NEW t, Good(t), NEW x \in Nodes
  PROVE  /\ h_lookup(t, x) <=> x \in h_foreach(t)
         /\ h_lookup(t, x) => Slot(t, x) \in 0 .. t.cap - 1 /\ x \in t.tab[Slot(t, x)]
<1>1. CASE t.cap = 0
  BY <1>1 DEF h_lookup, h_foreach
<1>2. CASE t.cap # 0
  <2>1. Slot(t, x) \in 0 .. t.cap - 1
    BY <1>2, SlotRange DEF Good
  <2>2. \A i \in 0 .. t.cap - 1 : x \in t.tab[i] => i = Slot(t, x)
    BY DEF Good, Exact
  <2> QED
    BY <1>2, <2>1, <2>2 DEF h_lookup, h_foreach
<1> QED
  BY <1>1, <1>2

-----------------------------------------------------------------------------
(* The inductive invariant. *)

\* What newer can hold before it is full.
Room == newer.cap * k_max_load_factor

(* Between calls newer has room for every node it is still to take over    *)
(* and for one insert per such node.  An insert uses up one place before   *)
(* its call of the helper frees one.                                       *)
Pace ==
  IF older.cap = 0 THEN newer.cap # 0 => newer.size < Room
  ELSE IF older.size = 0 THEN newer.size + (IF pc = "idle" THEN 1 ELSE 0) < Room
  ELSE IF pc = "insert" /\ nwork = 0 THEN newer.size + 2 * older.size =< Room
  ELSE newer.size + 2 * older.size < Room

\* An insert has its effect, and its answer, before its call of the helper.
Answers == pc = "insert" => ret = Result("insert", key, FALSE)

IInv ==
  /\ TypeOK /\ TablesExact /\ Pace /\ Answers
  /\ older.cap # 0 => newer.cap # 0

\* What a table may hold doubles with its capacity.
LEMMA RoomIsNat ==
  ASSUME NEW n \in Nat
  PROVE  /\ n * k_max_load_factor \in Nat
         /\ (n * 2) * k_max_load_factor = 2 * (n * k_max_load_factor)
         /\ n # 0 => n * k_max_load_factor >= 1
BY HashAssumption

\* The older table after the helper holds the same nodes.
LEMMA Left ==
  ASSUME IInv
  PROVE  /\ Good(newer) /\ Good(older) /\ Good(OlderLeft)
         /\ h_foreach(OlderLeft) = h_foreach(older)
         /\ older.size = 0 => OlderLeft.cap = 0 /\ OlderLeft.size = 0
         /\ older.size # 0 => OlderLeft = older
<1>1. Good(newer) /\ Good(older)
  BY DEF IInv, TypeOK, TablesExact, Good
<1>2. Good(NoTab) /\ h_foreach(NoTab) = {} /\ NoTab.cap = 0 /\ NoTab.size = 0
  BY EmptyTable DEF NoTab
<1>3. older.size = 0 => h_foreach(older) = {}
  BY <1>1, Counted
<1> QED
  BY <1>1, <1>2, <1>3 DEF OlderLeft

\* The map starts without tables.
LEMMA Initially == Init => IInv
<1> SUFFICES ASSUME Init PROVE IInv
  OBVIOUS
<1>1. Good(NoTab) /\ h_foreach(NoTab) = {} /\ NoTab.cap = 0 /\ NoTab.size = 0
  BY EmptyTable DEF NoTab
<1>2. TypeOK
  BY <1>1, HashAssumption DEF Init, TypeOK, Good, Result
<1>3. TablesExact
  BY <1>1 DEF Init, TablesExact, Good
<1>4. Pace /\ Answers
  BY <1>1 DEF Init, Pace, Answers, Result
<1> QED
  BY <1>1, <1>2, <1>3, <1>4 DEF Init, IInv

\* The walk past an empty slot stays in the array while nodes are left.
LEMMA SkipKeeps ==
  ASSUME IInv, SkipEmptySlot
  PROVE  IInv' /\ hm_foreach' = hm_foreach /\ ret' = ret
<1>1. /\ migrate_pos' = migrate_pos + 1 /\ UNCHANGED <<newer, older, pc, key, nwork, ret>>
      /\ older.tab[migrate_pos] = {} /\ older.size > 0
  BY DEF SkipEmptySlot, Helping
<1>2. migrate_pos \in Nat /\ older.cap \in Nat /\ migrate_pos < older.cap
  BY <1>1 DEF IInv, TypeOK, IsTable, TablesExact
<1>3. PICK x : x \in h_foreach(older)
  BY <1>1, Left, Counted
<1>4. PICK i \in 0 .. older.cap - 1 : x \in older.tab[i]
  BY <1>3 DEF h_foreach
<1>5. i > migrate_pos
  BY <1>1, <1>2, <1>4 DEF IInv, TablesExact
<1>6. migrate_pos + 1 < older.cap
  BY <1>2, <1>5
<1>7. \A j \in 0 .. older.cap - 1 : j < migrate_pos + 1 => older.tab[j] = {}
  BY <1>1, <1>2 DEF IInv, TablesExact
<1>8. TablesExact'
  BY <1>1, <1>6, <1>7 DEF IInv, TablesExact, Exact, Slot, h_foreach
<1>9. hm_foreach' = hm_foreach
  BY <1>1 DEF hm_foreach, h_foreach
<1>10. TypeOK'
  BY <1>1, <1>2 DEF IInv, TypeOK, IsTable
<1>11. Pace' /\ Answers'
  BY <1>1, <1>9 DEF IInv, Pace, Room, Answers, Result
<1> QED
  BY <1>1, <1>8, <1>9, <1>10, <1>11 DEF IInv

\* A node that migrates changes tables: it is in one of them before and after.
LEMMA MoveKeeps ==
  ASSUME IInv, MoveNode
  PROVE  IInv' /\ hm_foreach' = hm_foreach /\ ret' = ret
<1>1. PICK x \in older.tab[migrate_pos] :
        older' = h_detach(older, migrate_pos, x) /\ newer' = h_insert(newer, x)
  BY DEF MoveNode
<1>2. /\ nwork' = nwork + 1 /\ UNCHANGED <<migrate_pos, pc, key, ret>>
      /\ pc # "idle" /\ nwork < k_rehashing_work /\ older.size > 0
  BY DEF MoveNode, Helping
<1>3. migrate_pos \in 0 .. older.cap - 1 /\ older.cap # 0 /\ newer.cap # 0
  BY <1>2 DEF IInv, TypeOK, IsTable, TablesExact
<1>4. /\ Good(older') /\ h_foreach(older') = h_foreach(older) \ {x}
      /\ older'.cap = older.cap /\ older'.size = older.size - 1 /\ x \in h_foreach(older)
      /\ \A i \in 0 .. older.cap - 1 : older'.tab[i] \subseteq older.tab[i]
  BY <1>1, <1>3, Left, DetachNode
<1>5. x \in Nodes /\ x \notin h_foreach(newer)
  BY <1>4 DEF IInv, TablesExact, h_foreach
<1>6. /\ Good(newer') /\ h_foreach(newer') = h_foreach(newer) \cup {x}
      /\ newer'.cap = newer.cap /\ newer'.size = newer.size + 1
  BY <1>1, <1>3, <1>5, Left, InsertNode
<1>7. hm_foreach' = hm_foreach
  BY <1>4, <1>6 DEF hm_foreach
<1>8. TypeOK'
  BY <1>2, <1>4, <1>6, HashAssumption DEF IInv, TypeOK, Good
<1>9. h_foreach(newer') \cap h_foreach(older') = {}
  BY <1>4, <1>6 DEF IInv, TablesExact
<1>10. TablesExact'
  BY <1>2, <1>3, <1>4, <1>6, <1>9 DEF IInv, TablesExact, Good
<1>11. /\ newer.cap \in Nat /\ newer.size \in Nat /\ older.size \in Nat /\ nwork \in Nat
       /\ Room' = Room /\ Room \in Nat
  <2>1. newer.cap \in Nat /\ newer.size \in Nat /\ older.size \in Nat /\ nwork \in Nat
    BY HashAssumption DEF IInv, TypeOK, IsTable
  <2> QED
    BY <1>6, <2>1, RoomIsNat DEF Room
<1>12. Pace'
  BY <1>2, <1>3, <1>4, <1>6, <1>11 DEF IInv, Pace
<1>13. Answers'
  BY <1>2, <1>7 DEF IInv, Answers, Result
<1> QED
  BY <1>2, <1>3, <1>4, <1>6, <1>7, <1>8, <1>10, <1>12, <1>13 DEF IInv

\* A lookup or delete that begins changes nothing yet.
LEMMA CallKeeps ==
  ASSUME IInv, NEW x \in Nodes, hm_lookup(x) \/ hm_delete(x)
  PROVE  IInv' /\ hm_foreach' = hm_foreach /\ ret' = ret
<1>1. /\ pc = "idle" /\ pc' \in {"lookup", "delete"} /\ key' = x /\ nwork' = 0
      /\ UNCHANGED <<newer, older, migrate_pos, ret>>
  BY DEF hm_lookup, hm_delete, Call
<1>2. hm_foreach' = hm_foreach
  BY <1>1 DEF hm_foreach, h_foreach
<1>3. TypeOK'
  BY <1>1, HashAssumption, SMTT(30) DEF IInv, TypeOK, IsTable
<1>4. TablesExact'
  BY <1>1, Zenon DEF IInv, TablesExact, Exact, Slot, h_foreach
<1>5. newer.size \in Nat /\ Room \in Nat
  <2>1. newer.cap \in Nat /\ newer.size \in Nat
    BY DEF IInv, TypeOK, IsTable
  <2> QED
    BY <2>1, RoomIsNat DEF Room
<1>6. Room' = Room
  BY <1>1 DEF Room
<1>7. Pace'
  BY <1>1, <1>5, <1>6 DEF IInv, Pace
<1>8. Answers'
  BY <1>1, <1>2, Zenon DEF IInv, Answers
<1> QED
  BY <1>1, <1>2, <1>3, <1>4, <1>7, <1>8 DEF IInv

(* The end of a call that leaves the tables to the helper.  The helper has *)
(* moved a node, so that what is left fits again, or has nothing to move.  *)
LEMMA ReturnKeeps ==
  ASSUME IInv, pc # "idle", ~ Helping, older' = OlderLeft, UNCHANGED newer,
         NEW found \in BOOLEAN, Return(found)
  PROVE  IInv' /\ hm_foreach' = hm_foreach /\ ret' = Result(pc, key, found)
<1>1. /\ pc' = "idle" /\ nwork' = 0 /\ ret' = Result(pc, key, found)
      /\ UNCHANGED <<migrate_pos, key>> /\ newer' = newer
  BY DEF Return
<1>2. /\ Good(newer) /\ Good(older) /\ Good(older') /\ h_foreach(older') = h_foreach(older)
      /\ older.size = 0 => older'.cap = 0 /\ older'.size = 0
      /\ older.size # 0 => older' = older
  BY Left
<1>3. hm_foreach' = hm_foreach
  BY <1>1, <1>2 DEF hm_foreach
<1>4. TypeOK'
  BY <1>1, <1>2, HashAssumption DEF IInv, TypeOK, Good, Result
<1>5. TablesExact'
  <2>1. CASE older.size = 0
    BY <1>1, <1>2, <2>1 DEF IInv, TablesExact, Good
  <2>2. CASE older.size # 0
    BY <1>1, <1>2, <2>2 DEF IInv, TablesExact, Good
  <2> QED
    BY <2>1, <2>2
<1>6. newer.size \in Nat /\ older.size \in Nat /\ Room \in Nat /\ nwork \in Nat
  <2>1. newer.cap \in Nat /\ newer.size \in Nat /\ older.size \in Nat /\ nwork \in Nat
    BY HashAssumption DEF IInv, TypeOK, IsTable
  <2> QED
    BY <2>1, RoomIsNat DEF Room
<1>7. Room' = Room
  BY <1>1 DEF Room
<1>8. older.size # 0 => nwork # 0
  BY <1>6, HashAssumption DEF Helping
<1>9. Pace'
  <2>1. CASE older.size = 0
    BY <1>1, <1>2, <1>6, <1>7, <2>1 DEF IInv, Pace
  <2>2. CASE older.size # 0
    BY <1>1, <1>2, <1>6, <1>7, <1>8, <2>2 DEF IInv, Pace
  <2> QED
    BY <2>1, <2>2
<1>10. Answers'
  BY <1>1, <1>3 DEF Answers, Result
<1>11. older'.cap # 0 => newer'.cap # 0
  BY <1>1, <1>2 DEF IInv
<1> QED
  BY <1>1, <1>3, <1>4, <1>5, <1>9, <1>10, <1>11 DEF IInv

\* A lookup answers whether the node is in either table.
LEMMA LookupKeeps ==
  ASSUME IInv, LookupReturns
  PROVE  /\ IInv' /\ hm_foreach' = hm_foreach
         /\ ret' = Result("lookup", key, key \in hm_foreach)
<1> DEFINE found == h_lookup(newer, key) \/ h_lookup(OlderLeft, key)
<1>1. /\ pc = "lookup" /\ ~ Helping /\ older' = OlderLeft /\ UNCHANGED newer
      /\ Return(found)
  BY DEF LookupReturns, Helped
<1>2. key \in Nodes
  BY DEF IInv, TypeOK
<1>3. found = (key \in hm_foreach)
  BY <1>2, Left, LookupNode DEF hm_foreach
<1>4. found \in BOOLEAN
  BY <1>3
<1> HIDE DEF found
<1> QED
  BY <1>1, <1>3, <1>4, ReturnKeeps, Zenon

\* The node went in before the helper ran: the return changes no answer.
LEMMA InsertReturnKeeps ==
  ASSUME IInv, InsertReturns
  PROVE  IInv' /\ hm_foreach' = hm_foreach /\ ret' = ret
<1>1. /\ pc = "insert" /\ ~ Helping /\ older' = OlderLeft /\ UNCHANGED newer
      /\ Return(FALSE)
  BY Zenon DEF InsertReturns, Helped
<1>2. IInv' /\ hm_foreach' = hm_foreach /\ ret' = Result(pc, key, FALSE)
  BY <1>1, ReturnKeeps, Zenon
<1> QED
  BY <1>1, <1>2, Zenon DEF IInv, Answers

\* A delete that finds its node takes it out of the one table it is in.
LEMMA DeleteKeeps ==
  ASSUME IInv, DeleteReturns
  PROVE  /\ IInv' /\ hm_foreach' = hm_foreach \ {key}
         /\ ret' = Result("delete", key, key \in hm_foreach)
<1>1. pc = "delete" /\ ~ Helping
  BY DEF DeleteReturns, Helped
<1>2. /\ key \in Nodes /\ migrate_pos \in Nat
      /\ Good(newer) /\ Good(OlderLeft) /\ Good(older)
      /\ h_foreach(OlderLeft) = h_foreach(older)
      /\ older.size = 0 => OlderLeft.cap = 0 /\ OlderLeft.size = 0
      /\ older.size # 0 => OlderLeft = older
      /\ h_lookup(newer, key) <=> key \in h_foreach(newer)
      /\ h_lookup(OlderLeft, key) <=> key \in h_foreach(older)
      /\ h_foreach(newer) \cap h_foreach(older) = {}
  <2>1. key \in Nodes /\ migrate_pos \in Nat /\ h_foreach(newer) \cap h_foreach(older) = {}
    BY DEF IInv, TypeOK, TablesExact
  <2> QED
    BY <2>1, Left, LookupNode
<1>3. newer.size \in Nat /\ older.size \in Nat /\ Room \in Nat /\ nwork \in Nat
  <2>1. newer.cap \in Nat /\ newer.size \in Nat /\ older.size \in Nat /\ nwork \in Nat
    BY HashAssumption DEF IInv, TypeOK, IsTable
  <2> QED
    BY <2>1, RoomIsNat DEF Room
<1>4. older.size # 0 => newer.size + 2 * older.size < Room
  BY <1>1, <1>3, HashAssumption DEF Helping, IInv, Pace, TypeOK, IsTable, TablesExact
<1>5. CASE h_lookup(newer, key)
  <2>1. /\ newer' = h_detach(newer, Slot(newer, key), key) /\ older' = OlderLeft
        /\ Return(TRUE)
    BY <1>5, Zenon DEF DeleteReturns
  <2>2. /\ pc' = "idle" /\ nwork' = 0 /\ ret' = Result("delete", key, TRUE)
        /\ migrate_pos' = migrate_pos /\ key' = key
    BY <1>1, <2>1 DEF Return
  <2>3. newer.cap # 0 /\ Slot(newer, key) \in 0 .. newer.cap - 1
        /\ key \in newer.tab[Slot(newer, key)]
    BY <1>2, <1>5, SlotRange DEF h_lookup, Good
  <2>4. /\ Good(newer') /\ h_foreach(newer') = h_foreach(newer) \ {key}
        /\ newer'.cap = newer.cap /\ newer'.size = newer.size - 1 /\ newer.size > 0
    BY <1>2, <2>1, <2>3, DetachNode
  <2>5. hm_foreach' = hm_foreach \ {key} /\ key \in hm_foreach
    BY <1>2, <1>5, <2>1, <2>4 DEF hm_foreach
  <2>6. TypeOK'
    BY <1>2, <2>1, <2>2, <2>4, HashAssumption DEF TypeOK, Good, Result
  <2>7. TablesExact'
    <3>1. CASE older.size = 0
      BY <1>2, <2>1, <2>2, <2>4, <3>1 DEF TablesExact, Good
    <3>2. CASE older.size # 0
      BY <1>2, <2>1, <2>2, <2>4, <3>2 DEF IInv, TablesExact, Good
    <3> QED
      BY <3>1, <3>2
  <2>8. Room' = Room
    BY <2>4 DEF Room
  <2>9. Pace'
    <3>1. CASE older.size = 0
      BY <1>1, <1>2, <1>3, <2>1, <2>2, <2>3, <2>4, <2>8, <3>1 DEF IInv, Pace
    <3>2. CASE older.size # 0
      BY <1>2, <1>3, <1>4, <2>1, <2>2, <2>4, <2>8, <3>2 DEF Pace
    <3> QED
      BY <3>1, <3>2
  <2>10. Answers'
    BY <2>2 DEF Answers, Result
  <2>11. older'.cap # 0 => newer'.cap # 0
    BY <2>3, <2>4
  <2> QED
    BY <2>2, <2>5, <2>6, <2>7, <2>9, <2>10, <2>11, Zenon DEF IInv
<1>6. CASE ~ h_lookup(newer, key) /\ h_lookup(OlderLeft, key)
  <2>1. /\ older' = h_detach(OlderLeft, Slot(OlderLeft, key), key) /\ newer' = newer
        /\ Return(TRUE)
    BY <1>6, Zenon DEF DeleteReturns
  <2>2. /\ pc' = "idle" /\ nwork' = 0 /\ ret' = Result("delete", key, TRUE)
        /\ migrate_pos' = migrate_pos /\ key' = key
    BY <1>1, <2>1 DEF Return
  <2>3. older.size # 0 /\ OlderLeft = older
    BY <1>2, <1>6, Counted
  <2>4. Slot(older, key) \in 0 .. older.cap - 1 /\ key \in older.tab[Slot(older, key)]
    BY <1>2, <1>6, <2>3, LookupNode
  <2>5. /\ Good(older') /\ h_foreach(older') = h_foreach(older) \ {key}
        /\ older'.cap = older.cap /\ older'.size = older.size - 1
        /\ \A i \in 0 .. older.cap - 1 : older'.tab[i] \subseteq older.tab[i]
    BY <1>2, <2>1, <2>3, <2>4, DetachNode
  <2>6. hm_foreach' = hm_foreach \ {key} /\ key \in hm_foreach
    BY <1>2, <1>6, <2>1, <2>5 DEF hm_foreach
  <2>7. TypeOK'
    BY <1>2, <2>1, <2>2, <2>5, HashAssumption DEF TypeOK, Good, Result
  <2>8. TablesExact'
    <3>1. Exact(newer)' /\ Exact(older)' /\ (h_foreach(newer) \cap h_foreach(older) = {})'
      BY <1>2, <2>1, <2>5 DEF Good
    <3>2. \A i \in 0 .. older'.cap - 1 : i < migrate_pos' => older'.tab[i] = {}
      BY <2>2, <2>5 DEF IInv, TablesExact
    <3>3. older'.size > 0 => migrate_pos' < older'.cap
      BY <1>3, <2>2, <2>3, <2>5 DEF IInv, TablesExact
    <3> QED
      BY <3>1, <3>2, <3>3 DEF TablesExact
  <2>9. Room' = Room
    BY <2>1 DEF Room
  <2>10. Pace'
    <3>1. older.cap # 0
      BY <2>4
    <3>2. older'.size = 0 => newer'.size + 1 < Room'
      BY <1>3, <1>4, <2>1, <2>3, <2>5, <2>9
    <3>3. newer'.size + 2 * older'.size < Room'
      BY <1>3, <1>4, <2>1, <2>3, <2>5, <2>9
    <3> QED
      BY <2>2, <2>5, <3>1, <3>2, <3>3 DEF Pace
  <2>11. Answers'
    BY <2>2 DEF Answers, Result
  <2>12. older'.cap # 0 => newer'.cap # 0
    BY <2>1, <2>5 DEF IInv
  <2> QED
    BY <2>2, <2>6, <2>7, <2>8, <2>10, <2>11, <2>12, Zenon DEF IInv
<1>7. CASE ~ h_lookup(newer, key) /\ ~ h_lookup(OlderLeft, key)
  <2>1. older' = OlderLeft /\ UNCHANGED newer /\ Return(FALSE)
    BY <1>7, Zenon DEF DeleteReturns
  <2>2. key \notin hm_foreach
    BY <1>2, <1>7 DEF hm_foreach
  <2>3. IInv' /\ hm_foreach' = hm_foreach /\ ret' = Result(pc, key, FALSE)
    BY <1>1, <2>1, ReturnKeeps, Zenon
  <2>4. hm_foreach = hm_foreach \ {key} /\ (key \in hm_foreach) = FALSE
    BY <2>2
  <2> QED
    BY <1>1, <2>3, <2>4, Zenon
<1> QED
  BY <1>5, <1>6, <1>7

\* hm_clear leaves a map without tables, as at the start.
LEMMA ClearKeeps ==
  ASSUME IInv, hm_clear
  PROVE  IInv' /\ hm_foreach' = {} /\ ret' = Result("clear", key, FALSE)
<1>1. Good(NoTab) /\ h_foreach(NoTab) = {} /\ NoTab.cap = 0 /\ NoTab.size = 0
  BY EmptyTable DEF NoTab
<1>2. /\ pc = "idle" /\ newer' = NoTab /\ older' = NoTab /\ migrate_pos' = 0
      /\ ret' = Result("clear", key, FALSE) /\ UNCHANGED <<pc, key, nwork>>
  BY DEF hm_clear
<1>3. TypeOK'
  BY <1>1, <1>2 DEF IInv, TypeOK, Good, Result
<1>4. TablesExact'
  BY <1>1, <1>2 DEF TablesExact, Good
<1>5. Pace' /\ Answers'
  BY <1>1, <1>2 DEF Pace, Answers, Result
<1>6. hm_foreach' = {}
  BY <1>1, <1>2 DEF hm_foreach
<1> QED
  BY <1>1, <1>2, <1>3, <1>4, <1>5, <1>6 DEF IInv

(* An insert adds a node that the map does not hold.  A demotion happens   *)
(* when the size reaches the limit exactly, so the new table, twice as     *)
(* large, has two places for every node it is to take over.                *)
LEMMA InsertKeeps ==
  ASSUME IInv, NEW x \in Nodes, hm_insert(x)
  PROVE  /\ IInv' /\ x \notin hm_foreach /\ hm_foreach' = hm_foreach \cup {x}
         /\ ret' = Result("insert", x, FALSE)
<1> DEFINE base == IF newer.cap = 0 THEN h_init(FirstCap) ELSE newer
           t == h_insert(base, x)
<1>1. /\ pc = "idle" /\ pc' = "insert" /\ key' = x /\ nwork' = 0
      /\ x \notin hm_foreach /\ ret' = Result("insert", x, FALSE)
      /\ IF older.cap = 0 /\ Full(t)
           THEN older' = t /\ newer' = h_init(t.cap * 2) /\ migrate_pos' = 0
           ELSE newer' = t /\ older' = older /\ migrate_pos' = migrate_pos
  BY DEF hm_insert, Call
<1>2. x \notin hm_foreach
  BY <1>1
<1>3. /\ Good(newer) /\ Good(older) /\ newer.cap \in Nat /\ newer.size \in Nat
      /\ older.cap \in Nat /\ older.size \in Nat
  BY Left DEF Good, IsTable
<1>4. newer.cap = 0 => h_foreach(newer) = {} /\ older.cap = 0
  BY <1>3 DEF h_foreach, IInv
<1>5. older.cap = 0 => h_foreach(older) = {} /\ older.size = 0
  <2>1. older.cap = 0 => h_foreach(older) = {}
    BY <1>3 DEF h_foreach
  <2> QED
    BY <1>3, <2>1, Counted
<1>6. /\ Good(base) /\ base.cap \in Nat \ {0} /\ base.size \in Nat
      /\ h_foreach(base) = h_foreach(newer)
      /\ newer.cap # 0 => base = newer
      /\ newer.cap = 0 => base.size = 0
  <2>1. CASE newer.cap = 0
    <3>1. FirstCap \in Nat \ {0} /\ base = h_init(FirstCap)
      BY <2>1, HashAssumption
    <3>2. /\ Good(base) /\ h_foreach(base) = {} /\ base.cap = FirstCap /\ base.size = 0
      BY <3>1, EmptyTable
    <3> QED
      BY <1>4, <2>1, <3>1, <3>2
  <2>2. CASE newer.cap # 0
    BY <1>3, <2>2
  <2> QED
    BY <2>1, <2>2
<1> HIDE DEF base
<1>7. /\ Good(t) /\ h_foreach(t) = h_foreach(newer) \cup {x}
      /\ t.cap = base.cap /\ t.size = base.size + 1
  BY <1>2, <1>6, InsertNode DEF hm_foreach
<1> HIDE DEF t
<1> DEFINE room == base.cap * k_max_load_factor
<1>8. /\ room \in Nat /\ room >= 1 /\ base.cap * 2 \in Nat \ {0}
      /\ (base.cap * 2) * k_max_load_factor = 2 * room
      /\ newer.cap # 0 => room = Room
  BY <1>6, RoomIsNat DEF Room
<1> HIDE DEF room
<1>9. Full(t) <=> t.size >= room
  BY <1>7 DEF Full, room
<1>10. older.cap = 0 => base.size < room
  <2>1. CASE newer.cap = 0
    BY <1>6, <1>8, <2>1
  <2>2. CASE newer.cap # 0
    BY <1>6, <1>8, <2>2 DEF IInv, Pace
  <2> QED
    BY <2>1, <2>2
<1>11. CASE older.cap = 0 /\ Full(t)
  <2>1. older' = t /\ newer' = h_init(base.cap * 2) /\ migrate_pos' = 0
    BY <1>1, <1>7, <1>11
  <2>2. /\ Good(newer') /\ h_foreach(newer') = {} /\ newer'.cap = base.cap * 2
        /\ newer'.size = 0
    BY <1>8, <2>1, EmptyTable
  <2>3. hm_foreach' = hm_foreach \cup {x}
    BY <1>5, <1>7, <1>11, <2>1, <2>2 DEF hm_foreach
  <2>4. t.size = room /\ Room' = 2 * room
    BY <1>6, <1>7, <1>8, <1>9, <1>10, <1>11, <2>2 DEF Room
  <2>5. TypeOK'
    BY <1>1, <1>7, <2>1, <2>2, HashAssumption DEF TypeOK, Good, Result
  <2>6. TablesExact'
    BY <1>6, <1>7, <2>1, <2>2 DEF TablesExact, Good
  <2>7. Pace'
    <3>1. older'.size = room /\ older'.cap # 0 /\ older'.size # 0
      BY <1>6, <1>7, <1>8, <2>1, <2>4
    <3>2. newer'.size + 2 * older'.size =< Room'
      BY <1>8, <2>2, <2>4, <3>1
    <3> QED
      BY <1>1, <3>1, <3>2 DEF Pace
  <2>8. Answers'
    BY <1>1 DEF Answers, Result
  <2>9. newer'.cap # 0
    BY <1>8, <2>2
  <2> QED
    BY <1>1, <1>2, <2>3, <2>5, <2>6, <2>7, <2>8, <2>9 DEF IInv
<1>12. CASE ~ (older.cap = 0 /\ Full(t))
  <2>1. newer' = t /\ older' = older /\ migrate_pos' = migrate_pos
    BY <1>1, <1>12
  <2>2. hm_foreach' = hm_foreach \cup {x}
    BY <1>7, <2>1 DEF hm_foreach
  <2>3. Room' = room
    BY <1>7, <2>1 DEF Room, room
  <2>4. TypeOK'
    BY <1>1, <1>3, <1>7, <2>1, HashAssumption DEF IInv, TypeOK, Good, Result
  <2>5. TablesExact'
    BY <1>2, <1>3, <1>7, <2>1 DEF IInv, TablesExact, Good, hm_foreach
  <2>6. Pace'
    <3>1. CASE older.cap = 0
      BY <1>6, <1>7, <1>8, <1>9, <1>12, <2>1, <2>3, <3>1 DEF Pace
    <3>2. CASE older.cap # 0
      <4>1. base = newer /\ room = Room /\ newer'.size = newer.size + 1
        BY <1>4, <1>6, <1>7, <1>8, <2>1, <3>2
      <4>2. CASE older.size = 0
        BY <1>1, <1>3, <1>8, <2>1, <2>3, <3>2, <4>1, <4>2 DEF IInv, Pace
      <4>3. CASE older.size # 0
        BY <1>1, <1>3, <1>8, <2>1, <2>3, <3>2, <4>1, <4>3 DEF IInv, Pace
      <4> QED
        BY <4>2, <4>3
    <3> QED
      BY <3>1, <3>2
  <2>7. Answers'
    BY <1>1 DEF Answers, Result
  <2>8. newer'.cap # 0
    BY <1>6, <1>7, <2>1
  <2> QED
    BY <1>1, <1>2, <2>2, <2>4, <2>5, <2>6, <2>7, <2>8 DEF IInv
<1> QED
  BY <1>11, <1>12, Zenon

-----------------------------------------------------------------------------
(* The theorems. *)

\* Every step keeps the invariant and is a step of the dictionary, or none.
LEMMA Step ==
  ASSUME IInv, [Next]_vars
  PROVE  IInv' /\ [Dict!DictNext]_(Dict!dvars)
<1> USE DEF Dict!DictNext, Dict!dvars, Dict!Result, Result
<1>0. key \in Nodes
  BY DEF IInv, TypeOK
<1>1. CASE SkipEmptySlot
  BY <1>1, SkipKeeps
<1>2. CASE MoveNode
  BY <1>2, MoveKeeps
<1>3. CASE LookupReturns
  BY <1>0, <1>3, LookupKeeps DEF Dict!Lookup
<1>4. CASE InsertReturns
  BY <1>4, InsertReturnKeeps
<1>5. CASE DeleteReturns
  BY <1>0, <1>5, DeleteKeeps DEF Dict!Delete
<1>6. CASE hm_clear
  BY <1>0, <1>6, ClearKeeps DEF Dict!Clear
<1>7. ASSUME NEW x \in Nodes, hm_lookup(x) \/ hm_delete(x)
      PROVE  IInv' /\ [Dict!DictNext]_(Dict!dvars)
  BY <1>7, CallKeeps
<1>8. ASSUME NEW x \in Nodes, hm_insert(x)
      PROVE  IInv' /\ [Dict!DictNext]_(Dict!dvars)
  BY <1>8, InsertKeeps DEF Dict!Insert
<1>9. CASE UNCHANGED vars
  <2>1. UNCHANGED <<newer, older, migrate_pos, pc, key, nwork, ret>>
    BY <1>9 DEF vars
  <2>2. hm_foreach' = hm_foreach
    BY <2>1 DEF hm_foreach, h_foreach
  <2>3. IInv'
    BY <2>1, <2>2, Zenon DEF IInv, TypeOK, IsTable, TablesExact, Exact, Slot, h_foreach,
                      Pace, Room, Answers
  <2> QED
    BY <2>1, <2>2, <2>3
<1> QED
  BY <1>1, <1>2, <1>3, <1>4, <1>5, <1>6, <1>7, <1>8, <1>9 DEF Next, Help

\* The inductive invariant holds in every reachable state of the map.
THEOREM Invariance == Spec => []IInv
<1>1. IInv /\ [Next]_vars => IInv'
  BY Step
<1> QED
  BY Initially, <1>1, PTL DEF Spec

(* At every moment of a migration no node is in both tables, every node is *)
(* in the slot of its hash, sizes are exact, and the slot that             *)
(* hm_help_rehashing reads next is inside the array.                       *)
THEOREM TablesSafe == Spec => []TablesExact
<1>1. IInv => TablesExact
  BY DEF IInv
<1> QED
  BY Invariance, <1>1, PTL

(* Between calls the table as a whole is below its load factor, for any    *)
(* amount of rehashing work, hash function and order of operations.        *)
THEOREM GrowthSafe == Spec => []GrowthKeepsPace
<1>1. IInv => GrowthKeepsPace
  <2> SUFFICES ASSUME IInv, pc = "idle", newer.cap # 0 PROVE ~ Full(newer)
    BY DEF GrowthKeepsPace
  <2>1. newer.cap \in Nat /\ newer.size \in Nat /\ older.size \in Nat
    BY DEF IInv, TypeOK, IsTable
  <2>2. Room \in Nat
    BY <2>1, RoomIsNat DEF Room
  <2>3. newer.size < Room
    BY <2>1, <2>2 DEF IInv, Pace
  <2> QED
    BY <2>1, <2>2, <2>3 DEF Full, Room
<1> QED
  BY Invariance, <1>1, PTL

(* The map with its two tables implements a plain set of nodes: every call *)
(* returns what it would without any rehashing under way.                  *)
THEOREM Refinement == Spec => ImplementsDictionary
<1>1. Init => Dict!DictInit
  <2>1. h_foreach(NoTab) = {}
    BY EmptyTable DEF NoTab
  <2> QED
    BY <2>1, Zenon DEF Init, hm_foreach, Dict!DictInit, Dict!Result, Result
<1>2. IInv /\ [Next]_vars => [Dict!DictNext]_(Dict!dvars)
  BY Step
<1> QED
  BY Invariance, <1>1, <1>2, PTL DEF Spec, ImplementsDictionary, Dict!DictSpec
=============================================================================
