----------------------------- MODULE Dictionary -----------------------------
(***************************************************************************)
(* What the hash map promises (include/store/hashtable.h): a set of nodes  *)
(* with lookup, insert, delete and clear, whatever growth is under way.    *)
(* Keyspace (the key index) and ZSet (the name index) use it in this form. *)
(***************************************************************************)
CONSTANT Nodes

VARIABLES contents,  \* the nodes in the map
          ret        \* the last call that returned, and whether it found its key

dvars == <<contents, ret>>

Result(call, x, found) == [call |-> call, key |-> x, found |-> found]

DictInit == contents = {} /\ \E x \in Nodes : ret = Result("clear", x, FALSE)

Lookup(x) == contents' = contents /\ ret' = Result("lookup", x, x \in contents)

\* Callers insert only what is not there.
Insert(x) ==
  /\ x \notin contents
  /\ contents' = contents \cup {x} /\ ret' = Result("insert", x, FALSE)

Delete(x) == contents' = contents \ {x} /\ ret' = Result("delete", x, x \in contents)

Clear == contents' = {} /\ \E x \in Nodes : ret' = Result("clear", x, FALSE)

DictNext == Clear \/ \E x \in Nodes : Lookup(x) \/ Insert(x) \/ Delete(x)

DictSpec == DictInit /\ [][DictNext]_dvars
=============================================================================
