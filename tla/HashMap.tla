------------------------------ MODULE HashMap ------------------------------
(***************************************************************************)
(* The intrusive hash map with progressive rehashing                       *)
(* (src/store/hashtable.cpp): when the table is full it is demoted to      *)
(* `older`, a table of twice the capacity becomes `newer`, and every later *)
(* operation moves a few nodes across.  One step is one iteration of the   *)
(* loop of hm_help_rehashing, or the code of an operation around it.       *)
(*                                                                         *)
(* A slot's chain is the set of its nodes: no caller depends on the order  *)
(* of a chain, so the head that migration takes is any of them.  `tab` is  *)
(* the array of slots, and `cap` its length: mask + 1, or 0 while tab is   *)
(* nullptr.  Capacities are powers of two, so hcode & mask is hcode % cap. *)
(***************************************************************************)
EXTENDS Integers, FiniteSets

CONSTANTS Nodes,              \* the nodes, each with a key of its own
          hcode,              \* the hash of each node's key
          FirstCap,           \* capacity of the first table
          k_max_load_factor,  \* nodes per slot at which the table grows
          k_rehashing_work    \* nodes moved per operation

ASSUME HashAssumption ==
  /\ IsFiniteSet(Nodes) /\ Nodes # {} /\ hcode \in [Nodes -> Nat]
  /\ FirstCap \in Nat \ {0} /\ k_max_load_factor \in Nat \ {0}
  /\ k_rehashing_work \in Nat \ {0}

VARIABLES newer, older,   \* the two tables
          migrate_pos,    \* the next slot of older to empty
          pc,             \* the operation under way, in its call of hm_help_rehashing
          key,            \* the node it is about
          nwork,          \* nodes moved in this call
          ret             \* the last call that returned

vars == <<newer, older, migrate_pos, pc, key, nwork, ret>>

Result(call, x, found) == [call |-> call, key |-> x, found |-> found]

h_init(n) == [cap |-> n, tab |-> [i \in 0 .. n - 1 |-> {}], size |-> 0]
NoTab == h_init(0)

Slot(t, x) == hcode[x] % t.cap

h_insert(t, x) ==
  [cap |-> t.cap, tab |-> [t.tab EXCEPT ![Slot(t, x)] = @ \cup {x}], size |-> t.size + 1]

h_lookup(t, x) == t.cap # 0 /\ x \in t.tab[Slot(t, x)]

\* Slip: the node is unlinked but still counted.
h_detach_counted(t, pos, x) ==
  [cap |-> t.cap, tab |-> [t.tab EXCEPT ![pos] = @ \ {x}], size |-> t.size]
h_detach(t, pos, x) ==
  [cap |-> t.cap, tab |-> [t.tab EXCEPT ![pos] = @ \ {x}], size |-> t.size - 1]

h_foreach(t) == {x \in Nodes : \E i \in 0 .. t.cap - 1 : x \in t.tab[i]}
hm_foreach == h_foreach(newer) \cup h_foreach(older)

Init ==
  /\ newer = NoTab /\ older = NoTab /\ migrate_pos = 0
  /\ pc = "idle" /\ nwork = 0 /\ key \in Nodes /\ ret = Result("clear", key, FALSE)

-----------------------------------------------------------------------------
(* hm_help_rehashing, called by the operation `pc` *)

\* Slip: one node too few, which is none at all.
Helping_less == pc # "idle" /\ nwork + 1 < k_rehashing_work /\ older.size > 0
Helping == pc # "idle" /\ nwork < k_rehashing_work /\ older.size > 0

\* Slip: the position does not advance.
SkipEmptySlot_stuck == Helping /\ older.tab[migrate_pos] = {} /\ UNCHANGED vars
SkipEmptySlot ==
  /\ Helping /\ older.tab[migrate_pos] = {}
  /\ migrate_pos' = migrate_pos + 1
  /\ UNCHANGED <<newer, older, pc, key, nwork, ret>>

MoveNode ==
  /\ Helping
  /\ \E x \in older.tab[migrate_pos] :
       /\ older' = h_detach(older, migrate_pos, x)
       /\ newer' = h_insert(newer, x)
  /\ nwork' = nwork + 1
  /\ UNCHANGED <<migrate_pos, pc, key, ret>>

Helped(call) == pc = call /\ ~ Helping

\* The older table as the helper leaves it: freed once it is empty.
OlderLeft == IF older.size = 0 THEN NoTab ELSE older

\* The code before the helper.
Call(call, x) == pc' = call /\ key' = x /\ nwork' = 0

\* The code after it: the operation returns.
Return(found) ==
  /\ pc' = "idle" /\ nwork' = 0 /\ ret' = Result(pc, key, found)
  /\ UNCHANGED <<migrate_pos, key>>

-----------------------------------------------------------------------------
(* The operations. *)

hm_lookup(x) ==
  /\ pc = "idle" /\ Call("lookup", x)
  /\ UNCHANGED <<newer, older, migrate_pos, ret>>

\* Slip: only the newer table is searched.
LookupReturns_newer ==
  /\ Helped("lookup") /\ older' = OlderLeft
  /\ Return(h_lookup(newer, key)) /\ UNCHANGED newer
LookupReturns ==
  /\ Helped("lookup") /\ older' = OlderLeft
  /\ Return(h_lookup(newer, key) \/ h_lookup(OlderLeft, key))
  /\ UNCHANGED newer

Full(t) == t.size >= t.cap * k_max_load_factor

(* Callers insert only keys that are not in the map, after a lookup or     *)
(* without one.  A full table is demoted, unless older is still there: in  *)
(* the middle of a migration, or emptied by a delete and not yet freed.    *)
hm_insert(x) ==
  /\ pc = "idle" /\ x \notin hm_foreach /\ Call("insert", x)
  /\ LET t == h_insert(IF newer.cap = 0 THEN h_init(FirstCap) ELSE newer, x)
     IN  IF older.cap = 0 /\ Full(t)
           THEN older' = t /\ newer' = h_init(t.cap * 2) /\ migrate_pos' = 0
           ELSE newer' = t /\ UNCHANGED <<older, migrate_pos>>
  /\ ret' = Result("insert", x, FALSE)

InsertReturns == Helped("insert") /\ older' = OlderLeft /\ Return(FALSE) /\ UNCHANGED newer

hm_delete(x) ==
  /\ pc = "idle" /\ Call("delete", x)
  /\ UNCHANGED <<newer, older, migrate_pos, ret>>

DeleteReturns ==
  /\ Helped("delete")
  /\ \/ /\ h_lookup(newer, key)
        /\ newer' = h_detach(newer, Slot(newer, key), key) /\ older' = OlderLeft
        /\ Return(TRUE)
     \/ /\ ~ h_lookup(newer, key) /\ h_lookup(OlderLeft, key)
        /\ older' = h_detach(OlderLeft, Slot(OlderLeft, key), key) /\ UNCHANGED newer
        /\ Return(TRUE)
     \/ /\ ~ h_lookup(newer, key) /\ ~ h_lookup(OlderLeft, key)
        /\ older' = OlderLeft /\ UNCHANGED newer
        /\ Return(FALSE)

hm_clear ==
  /\ pc = "idle" /\ newer' = NoTab /\ older' = NoTab /\ migrate_pos' = 0
  /\ ret' = Result("clear", key, FALSE)
  /\ UNCHANGED <<pc, key, nwork>>

-----------------------------------------------------------------------------
Help == SkipEmptySlot \/ MoveNode \/ LookupReturns \/ InsertReturns \/ DeleteReturns

Next == Help \/ hm_clear \/ \E x \in Nodes : hm_lookup(x) \/ hm_insert(x) \/ hm_delete(x)

Spec == Init /\ [][Next]_vars
\* A call runs to its end: the map belongs to one thread.
FairSpec == Spec /\ WF_vars(Help)

-----------------------------------------------------------------------------
(* Properties. *)

\* A table's array has `cap` slots.
IsTable(t) ==
  /\ t.cap \in Nat /\ t.size \in Nat /\ t.tab \in [0 .. t.cap - 1 -> SUBSET Nodes]

\* Every variable stays in its type.
TypeOK ==
  /\ IsTable(newer) /\ IsTable(older)
  /\ migrate_pos \in Nat /\ nwork \in 0 .. k_rehashing_work
  /\ pc \in {"idle", "lookup", "insert", "delete"} /\ key \in Nodes
  /\ ret \in [call : {"lookup", "insert", "delete", "clear"}, key : Nodes, found : BOOLEAN]

(* The map behaves as a set of nodes in the middle of any migration: a     *)
(* lookup finds a node in whichever table it is, and moving a node neither *)
(* loses nor duplicates it ("MUST check both tables", hashtable.cpp:73).   *)
Dict == INSTANCE Dictionary WITH contents <- hm_foreach
ImplementsDictionary == Dict!DictSpec

\* Each node sits in the slot of its hash, and size counts the nodes.
Exact(t) ==
  /\ \A i \in 0 .. t.cap - 1 : \A x \in t.tab[i] : Slot(t, x) = i
  /\ t.size = Cardinality(h_foreach(t))

(* No node is in both tables, sizes and slots are right, the slots of      *)
(* older that migration has passed are empty, and the slot it reads next   *)
(* (hashtable.cpp:52) is in the array while there are nodes to move.       *)
TablesExact ==
  /\ Exact(newer) /\ Exact(older) /\ h_foreach(newer) \cap h_foreach(older) = {}
  /\ \A i \in 0 .. older.cap - 1 : i < migrate_pos => older.tab[i] = {}
  /\ older.size > 0 => migrate_pos < older.cap

(* Growth keeps pace with inserts: one node moved by each insert empties   *)
(* older before newer is full, so postponing a growth while older is there *)
(* (hashtable.cpp:80) never lets the nodes per slot, on average over the   *)
(* table, reach k_max_load_factor.  A single chain may still be longer.    *)
GrowthKeepsPace == pc = "idle" /\ newer.cap # 0 => ~ Full(newer)

\* The helper's loop ends: every call returns.
CallsReturn == pc # "idle" ~> pc = "idle"
=============================================================================
