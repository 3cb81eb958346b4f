----------------------------- MODULE SortedSet -----------------------------
(***************************************************************************)
(* A sorted set (src/ds/zset.cpp): nodes linked both into an AVL tree      *)
(* ordered by (score, name) and into a hash map by name.  The tree is      *)
(* modelled down to its pointers (module AVL), the map as the dictionary   *)
(* that HashMap implements.  A node is known by its name: there is never   *)
(* more than one with a given name, which the name index enforces.         *)
(***************************************************************************)
EXTENDS AVL, FiniteSets

CONSTANTS Names, Scores, NoScore,   \* as in Values
          Inputs                    \* the (score, name) pairs that clients add

ASSUME InputsAssumption == Inputs \subseteq Scores \X Names /\ Null \notin Names

VARIABLES root,    \* root of the tree
          node,    \* the tree links and aggregates of each node
          score,   \* the score stored in each node
          hmap,    \* names in the hash map
          alive,   \* nodes allocated and not freed
          ret      \* what the last insert or lookup returned

vars == <<root, node, score, hmap, alive, ret>>

Promise == INSTANCE Values

Init ==
  /\ root = Null /\ node = [x \in Names |-> avl_init]
  /\ score = [x \in Names |-> NoScore] /\ hmap = {} /\ alive = {} /\ ret = FALSE

zless(p, q) == p[1] < q[1] \/ (p[1] = q[1] /\ p[2] < q[2])
Pair(x) == <<score[x], x>>

\* An empty tree ends the search before the map is asked.
zset_lookup(x) == root # Null /\ x \in hmap

RECURSIVE EmptyLink(_, _, _)
\* The node below x whose empty link is the place for pair p in the tree.
EmptyLink(n, x, p) ==
  LET side == IF zless(p, Pair(x)) THEN "left" ELSE "right"
  IN  IF n[x][side] = Null THEN <<x, side>> ELSE EmptyLink(n, n[x][side], p)

\* Node x, with score s, joins the tree with root `top`.
tree_insert(top, n, x, s) ==
  IF top = Null THEN avl_fix(n, x)
  ELSE LET link == EmptyLink(n, top, <<s, x>>)
       IN  avl_fix([n EXCEPT ![link[1]][link[2]] = x, ![x].parent = link[1]], x)

Becomes(tree) == root' = tree.root /\ node' = tree.node

\* A new score moves the pair: out of the tree, and in again.
zset_update(x, s) ==
  IF score[x] = s THEN UNCHANGED <<root, node, score>>
  ELSE LET del == avl_del(node, x)
       IN  /\ Becomes(tree_insert(del.root, [del.node EXCEPT ![x] = avl_init], x, s))
           /\ score' = [score EXCEPT ![x] = s]

zset_insert(x, s) ==
  IF zset_lookup(x)
    THEN zset_update(x, s) /\ ret' = FALSE /\ UNCHANGED <<hmap, alive>>
    ELSE /\ alive' = alive \cup {x} /\ hmap' = hmap \cup {x}
         /\ Becomes(tree_insert(root, [node EXCEPT ![x] = avl_init], x, s))
         /\ score' = [score EXCEPT ![x] = s]
         /\ ret' = TRUE

\* znode_del: the nodes of X are freed, with what they hold.
Freed(n, X) == [x \in Names |-> IF x \in X THEN avl_init ELSE n[x]]
ScoresLeft(X) == [x \in Names |-> IF x \in X THEN NoScore ELSE score[x]]

\* Slip: the pair stays in the map.
zset_delete_indexed(x) ==
  IF zset_lookup(x)
    THEN LET del == avl_del(node, x)
         IN  /\ root' = del.root /\ node' = Freed(del.node, {x}) /\ score' = ScoresLeft({x})
             /\ alive' = alive \ {x} /\ ret' = TRUE /\ UNCHANGED hmap
    ELSE UNCHANGED <<root, node, score, hmap, alive>> /\ ret' = FALSE
\* ZREM: the pair leaves the map and the tree and its node is freed.
zset_delete(x) ==
  IF zset_lookup(x)
    THEN LET del == avl_del(node, x)
         IN  /\ root' = del.root /\ node' = Freed(del.node, {x}) /\ score' = ScoresLeft({x})
             /\ hmap' = hmap \ {x} /\ alive' = alive \ {x} /\ ret' = TRUE
    ELSE UNCHANGED <<root, node, score, hmap, alive>> /\ ret' = FALSE

RECURSIVE Subtree(_, _)
\* The nodes below and including x: what tree_dispose visits.
Subtree(n, x) ==
  IF x = Null THEN {} ELSE {x} \cup Subtree(n, n[x].left) \cup Subtree(n, n[x].right)

\* The map forgets its nodes, and the tree frees them.
zset_clear ==
  LET gone == Subtree(node, root)
  IN  /\ root' = Null /\ node' = Freed(node, gone) /\ score' = ScoresLeft(gone)
      /\ hmap' = {} /\ alive' = alive \ gone /\ ret' = FALSE

RECURSIVE SeekFrom(_, _, _)
SeekFrom(x, p, found) ==
  IF x = Null THEN found
  ELSE IF zless(Pair(x), p) THEN SeekFrom(node[x].right, p, found)
                            ELSE SeekFrom(node[x].left, p, x)

\* The first node at or after pair p.
zset_seekge(p) == SeekFrom(root, p, Null)

znode_offset(x, offset) == IF x = Null THEN Null ELSE avl_offset(node, x, offset)

Next ==
  \/ \E p \in Inputs : zset_insert(p[2], p[1])
  \/ \E x \in Names : zset_delete(x)
  \/ zset_clear

Spec == Init /\ [][Next]_vars

-----------------------------------------------------------------------------
(* Properties. *)

(* The tree is a search tree by (score, name), balanced, with exact        *)
(* heights, counts and parent links, and it holds the nodes that the name  *)
(* index holds and that are allocated: no pair is in one index only, none  *)
(* is leaked, and the assertion of zset_delete (zset.cpp:120) cannot fail. *)
TreeExact ==
  LET in == Subtree(node, root)
      Left(x) == Subtree(node, node[x].left)
      Right(x) == Subtree(node, node[x].right)
  IN  /\ in = hmap /\ in = alive
      /\ root # Null => node[root].parent = Null
      /\ \A x \in in :
           LET h == [d \in {"left", "right"} |-> avl_height(node, node[x][d])]
           IN  /\ h["left"] - h["right"] \in -1 .. 1
               /\ node[x].height = 1 + max_u32(h["left"], h["right"])
               /\ node[x].cnt = 1 + Cardinality(Left(x)) + Cardinality(Right(x))
               /\ \A d \in {"left", "right"} :
                    node[x][d] # Null => node[node[x][d]].parent = x
               /\ \A y \in Left(x) : zless(Pair(y), Pair(x))
               /\ \A y \in Right(x) : zless(Pair(x), Pair(y))

(* Seeking a pair and walking any number of positions from it through the  *)
(* subtree counts leads to the pair of that rank, or nowhere if the set    *)
(* has none (zset_seekge and znode_offset, as ZQUERY uses them).           *)
RanksExact ==
  LET size == Cardinality(hmap)
      rank == [x \in hmap |-> Promise!Rank(score, Pair(x))]
      Reached(x, r) == IF x = Null THEN r \notin 0 .. size - 1 ELSE rank[x] = r
  IN  /\ \A p \in Inputs : Reached(zset_seekge(p), Promise!Rank(score, p))
      /\ \A x \in hmap, offset \in -size .. size :
           Reached(znode_offset(x, offset), rank[x] + offset)

(* Through the name index the set is a function from names to scores:      *)
(* inserting, rescoring and removing a pair change that pair and no other, *)
(* and report rightly whether it was there.                                *)
Indexed == [x \in Names |-> IF x \in hmap THEN score[x] ELSE NoScore]
Scored == INSTANCE ScoredSet WITH z <- Indexed
ImplementsScoredSet == Scored!SetSpec
=============================================================================
