----------------------------- MODULE ScoredSet -----------------------------
(***************************************************************************)
(* What a sorted set promises (include/ds/zset.h): a score for each of its *)
(* names.  Keyspace uses sorted sets in this form.                         *)
(***************************************************************************)
EXTENDS Values

VARIABLES z,    \* the score of each name
          ret   \* what the last insert or lookup returned

zvars == <<z, ret>>

SetInit == z = EmptyZSet /\ ret = FALSE

\* Insert or update; true if the name is new.
Insert(name, score) == z' = zset_insert(z, name, score) /\ ret' = (z[name] = NoScore)

\* ZREM: look the name up, and remove the pair if there is one.
Remove(name) == z' = zset_delete(z, name) /\ ret' = (z[name] # NoScore)

Clear == z' = EmptyZSet /\ ret' = FALSE

SetNext ==
  Clear \/ \E name \in Names : Remove(name) \/ \E score \in Scores : Insert(name, score)

SetSpec == SetInit /\ [][SetNext]_zvars
=============================================================================
