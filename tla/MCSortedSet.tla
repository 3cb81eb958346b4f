---------------------------- MODULE MCSortedSet ----------------------------
(* SortedSet on sets in which every name has one score and some have two.  *)
EXTENDS SortedSet

CONSTANT Movable   \* the names that clients rescore

MCInputs == {0} \X Names \cup {1} \X Movable
=============================================================================
