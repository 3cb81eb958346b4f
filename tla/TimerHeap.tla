----------------------------- MODULE TimerHeap -----------------------------
(***************************************************************************)
(* The array-encoded min-heap of TTL deadlines (src/ds/heap.cpp) and the   *)
(* back-pointers that keep each entry's heap_idx in step with the array,   *)
(* under entry_set_ttl (src/store/database.cpp), its only user.  One step  *)
(* is one move of heap_up or heap_down, or the code around their loops.    *)
(***************************************************************************)
EXTENDS Integers

CONSTANTS Owners, None,   \* the entries that may own a timer; no entry
          Vals            \* the deadlines

ASSUME HeapAssumption == None \notin Owners /\ Vals \subseteq Nat

NoIdx == -1   \* (size_t)-1: the owner has no timer

VARIABLES a, size,    \* the vector of items and its length
          heap_idx,   \* the index field of each owner, written through item.ref
          pc,         \* "up" or "down": the loop under way
          pos, t,     \* its hole in the array and the item in hand
          leaving     \* the owner whose timer is being removed

vars == <<a, size, heap_idx, pc, pos, t, leaving>>

Items == [val : Vals, ref : Owners]
NoItem == [val |-> 0, ref |-> None]

heap_parent(i) == (i + 1) \div 2 - 1
heap_left(i) == i * 2 + 1
heap_right(i) == i * 2 + 2

Init ==
  /\ a = [i \in {} |-> NoItem] /\ size = 0 /\ heap_idx = [o \in Owners |-> NoIdx]
  /\ pc = "idle" /\ pos = 0 /\ t = NoItem /\ leaving = None

-----------------------------------------------------------------------------
(* heap_update *)

\* Slip: the item that replaced another is only moved down.
heap_update_down(b, n, p) ==
  /\ a' = b /\ size' = n /\ pos' = p /\ t' = b[p] /\ pc' = "down"

\* The vector is b, of length n, and b[p] has changed: which loop restores it.
heap_update(b, n, p) ==
  /\ a' = b /\ size' = n /\ pos' = p /\ t' = b[p]
  /\ pc' = IF p > 0 /\ b[heap_parent(p)].val > b[p].val THEN "up" ELSE "down"

\* Slip: the owner of the item that moves is not told.
Shift_silent(from) ==
  /\ a' = [a EXCEPT ![pos] = a[from]] /\ pos' = from
  /\ UNCHANGED <<size, heap_idx, pc, t, leaving>>
\* The item at `from` moves into the hole and leaves the hole behind.
Shift(from) ==
  /\ a' = [a EXCEPT ![pos] = a[from]]
  /\ heap_idx' = [heap_idx EXCEPT ![a[from].ref] = pos]
  /\ pos' = from
  /\ UNCHANGED <<size, pc, t, leaving>>

Rises == pos > 0 /\ a[heap_parent(pos)].val > t.val
heap_up == pc = "up" /\ Rises /\ Shift(heap_parent(pos))

\* The child that heap_down moves up, or pos if the item in hand belongs there.
min_pos ==
  LET l == heap_left(pos)
      r == heap_right(pos)
      Below(i, v) == i < size /\ a[i].val < v
  IN  IF Below(l, t.val)
        THEN IF Below(r, a[l].val) THEN r ELSE l
        ELSE IF Below(r, t.val) THEN r ELSE pos

heap_down == pc = "down" /\ min_pos # pos /\ Shift(min_pos)

AtRest == pc' = "idle" /\ pos' = 0 /\ t' = NoItem /\ leaving' = None

(* The loop ends: the item in hand fills the hole.  If this was a removal, *)
(* entry_set_ttl then marks its owner as having no timer.                  *)
Settle ==
  /\ \/ pc = "up" /\ ~ Rises
     \/ pc = "down" /\ min_pos = pos
  /\ a' = [a EXCEPT ![pos] = t]
  /\ heap_idx' = [o \in Owners |-> IF o = leaving THEN NoIdx
                                   ELSE IF o = t.ref THEN pos ELSE heap_idx[o]]
  /\ AtRest
  /\ UNCHANGED size

-----------------------------------------------------------------------------
(* entry_set_ttl *)

\* heap_upsert: overwrite the owner's item, or append when it has none.
heap_upsert(o, d) ==
  /\ pc = "idle"
  /\ LET item == [val |-> d, ref |-> o]
         p == IF heap_idx[o] \in 0 .. size - 1 THEN heap_idx[o] ELSE size
         n == IF p = size THEN size + 1 ELSE size
     IN  heap_update([i \in 0 .. n - 1 |-> IF i = p THEN item ELSE a[i]], n, p)
  /\ UNCHANGED <<heap_idx, leaving>>

\* heap_delete: the last item takes the place of the one removed.
heap_delete(o) ==
  /\ pc = "idle" /\ heap_idx[o] # NoIdx
  /\ LET p == heap_idx[o]
         n == size - 1
         b == [i \in 0 .. n - 1 |-> IF i = p THEN a[n] ELSE a[i]]
     IN  IF p < n
           THEN heap_update(b, n, p) /\ leaving' = o /\ UNCHANGED heap_idx
           ELSE /\ a' = b /\ size' = n /\ heap_idx' = [heap_idx EXCEPT ![o] = NoIdx]
                /\ AtRest

-----------------------------------------------------------------------------
Next ==
  \/ heap_up \/ heap_down \/ Settle
  \/ \E o \in Owners : heap_delete(o) \/ \E d \in Vals : heap_upsert(o, d)

Spec == Init /\ [][Next]_vars

-----------------------------------------------------------------------------
(* Properties. *)

\* Every variable stays in its type.
TypeOK ==
  /\ size \in Nat /\ a \in [0 .. size - 1 -> Items]
  /\ heap_idx \in [Owners -> Nat \cup {NoIdx}]
  /\ pc \in {"idle", "up", "down"} /\ leaving \in Owners \cup {None}
  /\ IF pc = "idle" THEN pos = 0 /\ t = NoItem ELSE pos \in 0 .. size - 1 /\ t \in Items

\* The items of the array, with the item in hand in the hole.
Item(i) == IF pc # "idle" /\ i = pos THEN t ELSE a[i]

(* "Every move re-writes *ref, so the owner always knows where its timer   *)
(* lives" (heap.h:16): between calls, index fields and items point at each *)
(* other, and an owner without a timer has no index.                       *)
IndexInSync ==
  pc = "idle" =>
    /\ \A i \in 0 .. size - 1 : heap_idx[a[i].ref] = i
    /\ \A o \in Owners : heap_idx[o] # NoIdx =>
         heap_idx[o] \in 0 .. size - 1 /\ a[heap_idx[o]].ref = o

\* "min at index 0" (heap.h:8), on which next_timer_ms and the reaper rely.
RootIsNearest ==
  pc = "idle" => \A i \in 0 .. size - 1 : a[0].val =< a[i].val

(* Setting, moving and dropping a timer change that timer and no other,    *)
(* wherever the items travel in the array.                                 *)
Timers == INSTANCE TimerSet WITH timers <- {Item(i) : i \in 0 .. size - 1}
ImplementsTimerSet == Timers!TimersSpec
=============================================================================
