--------------------------- MODULE KeyspaceStore ---------------------------
(***************************************************************************)
(* Keyspace as its clients see it: the refinement mapping under which it   *)
(* implements ExpiringStore.                                               *)
(***************************************************************************)
EXTENDS Keyspace

CONSTANT Absent   \* the value, in ExpiringStore, of a key that does not exist

(* What a client can see of the keyspace: the keys whose deadline, if any, *)
(* is still ahead.                                                         *)
VisibleStore ==
  [k \in Keys |->
     LET e == db.map[k]
     IN  IF e = Null \/ Overdue(db, e, now) THEN Absent
         ELSE [type |-> db.ent[e].type, str |-> db.ent[e].str,
               zset |-> db.ent[e].zset, due |-> db.ttl[e]]]

Promised == INSTANCE ExpiringStore WITH store <- VisibleStore

ASSUME AbsentAssumption == Absent \notin Promised!Item

(* Every reply is the one a store gives in which a key is gone the moment  *)
(* its deadline arrives, whether lookup_entry, the reaper or nobody yet    *)
(* has removed it (command.cpp, server.cpp).                               *)
ImplementsExpiringStore == Promised!StoreSpec
=============================================================================
