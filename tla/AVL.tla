-------------------------------- MODULE AVL --------------------------------
(***************************************************************************)
(* The intrusive AVL tree with subtree counts (src/ds/avl.cpp), at the     *)
(* level of its pointers: n maps each node to its record, a pointer is a   *)
(* node or Null, and an operation returns the records it leaves behind.    *)
(* The left and right versions of an operation are one definition with the *)
(* side as a parameter: rot_left(x) is Rotate(n, x, "left").               *)
(***************************************************************************)
EXTENDS Integers

CONSTANT Null

avl_init == [parent |-> Null, left |-> Null, right |-> Null, height |-> 1, cnt |-> 1]

avl_height(n, x) == IF x = Null THEN 0 ELSE n[x].height
avl_cnt(n, x) == IF x = Null THEN 0 ELSE n[x].cnt

max_u32(a, b) == IF a < b THEN b ELSE a

avl_update(n, x) ==
  [n EXCEPT ![x].height = 1 + max_u32(avl_height(n, n[x].left), avl_height(n, n[x].right)),
            ![x].cnt = 1 + avl_cnt(n, n[x].left) + avl_cnt(n, n[x].right)]

Mirror(d) == IF d = "left" THEN "right" ELSE "left"

\* The link of p that points at its child x.
Side(n, p, x) == IF n[p].left = x THEN "left" ELSE "right"

\* A pointer's target, if it has one, learns its parent.
Adopt(n, x, p) == IF x = Null THEN n ELSE [n EXCEPT ![x].parent = p]

\* Slip: the aggregates of the node that went down are left as they were.
Rotate_stale(n, x, d) ==
  LET o == Mirror(d)
      new_node == n[x][o]
      inner == n[new_node][d]
      linked == [n EXCEPT ![x][o] = inner, ![x].parent = new_node,
                          ![new_node][d] = x, ![new_node].parent = n[x].parent]
  IN  avl_update(Adopt(linked, inner, x), new_node)
(* x sinks to the side d and its other child takes its place; the caller   *)
(* links that child to x's old parent.                                     *)
Rotate(n, x, d) ==
  LET o == Mirror(d)
      new_node == n[x][o]
      inner == n[new_node][d]
      linked == [n EXCEPT ![x][o] = inner, ![x].parent = new_node,
                          ![new_node][d] = x, ![new_node].parent = n[x].parent]
  IN  avl_update(avl_update(Adopt(linked, inner, x), x), new_node)

\* avl_fix_left and avl_fix_right: the subtree on side d is two levels taller.
FixSide(n, x, d) ==
  LET c == n[x][d]
      inner == n[c][Mirror(d)]
  IN  Rotate(IF avl_height(n, n[c][d]) < avl_height(n, inner)
               THEN [Rotate(n, c, d) EXCEPT ![x][d] = inner] ELSE n,
             x, Mirror(d))

RECURSIVE avl_fix(_, _)
(* Rebalance from x up to the root, relinking each rotated subtree.        *)
avl_fix(n, x) ==
  LET parent == n[x].parent
      u == avl_update(n, x)
      l == avl_height(u, u[x].left)
      r == avl_height(u, u[x].right)
      fixed == IF l = r + 2 THEN FixSide(u, x, "left")
               ELSE IF l + 2 = r THEN FixSide(u, x, "right") ELSE u
      top == IF l = r + 2 \/ l + 2 = r THEN fixed[x].parent ELSE x
  IN  IF parent = Null THEN [node |-> fixed, root |-> top]
      ELSE avl_fix([fixed EXCEPT ![parent][Side(n, parent, x)] = top], parent)

\* x has at most one child, which takes its place.
avl_del_easy(n, x) ==
  LET child == IF n[x].left # Null THEN n[x].left ELSE n[x].right
      parent == n[x].parent
      m == Adopt(n, child, parent)
  IN  IF parent = Null THEN [node |-> m, root |-> child]
      ELSE avl_fix([m EXCEPT ![parent][Side(n, parent, x)] = child], parent)

RECURSIVE Leftmost(_, _)
Leftmost(n, x) == IF n[x].left = Null THEN x ELSE Leftmost(n, n[x].left)

(* With two children, the in-order successor leaves its place and takes    *)
(* over x's links and aggregates, as they are after its own removal has    *)
(* rebalanced the tree.                                                    *)
avl_del(n, x) ==
  IF n[x].left = Null \/ n[x].right = Null THEN avl_del_easy(n, x)
  ELSE LET victim == Leftmost(n, n[x].right)
           del == avl_del_easy(n, victim)
           node == del.node[x]
           m == [Adopt(Adopt(del.node, node.left, victim), node.right, victim)
                   EXCEPT ![victim] = node]
       IN  IF node.parent = Null THEN [node |-> m, root |-> victim]
           ELSE [node |-> [m EXCEPT ![node.parent][Side(m, node.parent, x)] = victim],
                 root |-> del.root]

\* Slip: the last node of the right subtree is taken to be outside of it.
Inside_short(n, x, pos, offset) ==
  IF pos < offset THEN pos + avl_cnt(n, n[x].right) > offset
                  ELSE pos - avl_cnt(n, n[x].left) =< offset
\* The node at `offset` is below x, whose own place is pos.
Inside(n, x, pos, offset) ==
  IF pos < offset THEN pos + avl_cnt(n, n[x].right) >= offset
                  ELSE pos - avl_cnt(n, n[x].left) =< offset

RECURSIVE avl_walk(_, _, _, _)
\* One iteration of avl_offset: go down towards the target, or climb.
avl_walk(n, x, pos, offset) ==
  LET l == n[x].left
      r == n[x].right
      p == n[x].parent
  IN  IF pos = offset THEN x
      ELSE IF Inside(n, x, pos, offset)
        THEN IF pos < offset THEN avl_walk(n, r, pos + avl_cnt(n, n[r].left) + 1, offset)
                             ELSE avl_walk(n, l, pos - (avl_cnt(n, n[l].right) + 1), offset)
      ELSE IF p = Null THEN Null
      ELSE avl_walk(n, p, IF n[p].right = x THEN pos - (avl_cnt(n, l) + 1)
                                            ELSE pos + avl_cnt(n, r) + 1, offset)

avl_offset(n, x, offset) == avl_walk(n, x, 0, offset)
=============================================================================
