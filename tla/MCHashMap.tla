----------------------------- MODULE MCHashMap -----------------------------
(* HashMap on small tables: codes collide in every capacity up to 4.       *)
EXTENDS HashMap

HashCodes == [x \in Nodes |-> x % 4]
=============================================================================
