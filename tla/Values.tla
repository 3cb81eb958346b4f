------------------------------- MODULE Values -------------------------------
(***************************************************************************)
(* The values a key of mini-redis can hold, the replies a command can      *)
(* send, and what the sorted-set API (include/ds/zset.h) promises about a  *)
(* set of (score, name) pairs.                                             *)
(*                                                                         *)
(* A sorted set is a function from Names to a score or NoScore.  A name is *)
(* a natural number, its place in the byte order that zless() uses, and a  *)
(* score is an integer: only the order of the two matters to any command.  *)
(***************************************************************************)
EXTENDS Integers, FiniteSets

CONSTANTS Names,     \* member names of sorted sets, in byte order
          Scores,    \* scores of sorted-set members
          NoScore    \* a name that is not a member

ASSUME NamesAssumption == Names \subseteq Nat /\ IsFiniteSet(Names)
ASSUME ScoresAssumption == Scores \subseteq Int /\ NoScore \notin Int

-----------------------------------------------------------------------------
(* Replies: one typed value per command (src/protocol/serialize.cpp).      *)

out_nil == [tag |-> "nil"]
out_int(n) == [tag |-> "int", n |-> n]
out_str(s) == [tag |-> "str", s |-> s]
out_dbl(x) == [tag |-> "dbl", x |-> x]
out_err(code) == [tag |-> "err", code |-> code]
\* An array whose elements come in a fixed order (ZQUERY).
out_arr(seq) == [tag |-> "arr", seq |-> seq]
\* An array of distinct strings in bucket order, which no client can rely on.
out_keys(keys) == [tag |-> "keys", keys |-> keys]

-----------------------------------------------------------------------------
(* Sorted sets.                                                            *)

ZSet == [Names -> Scores \cup {NoScore}]
EmptyZSet == [n \in Names |-> NoScore]

Members(z) == {n \in Names : z[n] # NoScore}
hm_size(z) == Cardinality(Members(z))

\* The (score, name) pairs, and the order of the score index.
Pairs(z) == {<<z[n], n>> : n \in Members(z)}
zless(p, q) == p[1] < q[1] \/ (p[1] = q[1] /\ p[2] < q[2])

zset_insert(z, name, score) == [z EXCEPT ![name] = score]
zset_delete(z, name) == [z EXCEPT ![name] = NoScore]

\* The number of pairs before p: the rank of p when it is one of them.
Rank(z, p) == Cardinality({q \in Pairs(z) : zless(q, p)})
PairAt(z, r) == CHOOSE p \in Pairs(z) : Rank(z, p) = r

(* The rank reached from the first pair at or after p by walking `offset`  *)
(* positions.  A seek past the last pair finds no node, and from no node   *)
(* no offset leads back; neither does an offset that leaves the set.       *)
ValidRanks(z) == 0 .. hm_size(z) - 1
SeekOffset(z, p, offset) ==
  LET first == Rank(z, p)
  IN  {r \in ValidRanks(z) : first \in ValidRanks(z) /\ r = first + offset}
=============================================================================
