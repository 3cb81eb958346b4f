-------------------------- MODULE TimerHeapProofs --------------------------
(***************************************************************************)
(* Proofs about TimerHeap, for any owners and deadlines: between calls the *)
(* back-pointers and the array agree and the root is the minimum, and the  *)
(* heap implements TimerSet through every move of its two loops.           *)
(***************************************************************************)
EXTENDS TimerHeap, WellFoundedInduction, TLAPS

-----------------------------------------------------------------------------
(* The inductive invariant. *)

\* The array b of length n is a heap.
IsHeap(b, n) == \A i \in 1 .. n - 1 : b[heap_parent(i)].val =< b[i].val

(* b is a heap but for the hole at p: the items around the hole would be   *)
(* in order if it were closed up.                                          *)
HeapAround(b, n, p) ==
  \A i \in 1 .. n - 1 :
    /\ i # p /\ heap_parent(i) # p => b[heap_parent(i)].val =< b[i].val
    /\ heap_parent(i) = p /\ p > 0 => b[heap_parent(p)].val =< b[i].val

(* Index fields are right but for the owner r of the item in hand, whose   *)
(* field is written last, and the owner l whose timer is being removed.    *)
SyncedBut(b, n, p, r, l, idx) ==
  /\ r # l
  /\ \A i \in 0 .. n - 1 : i # p => idx[b[i].ref] = i /\ b[i].ref # r /\ b[i].ref # l
  /\ \A o \in Owners : idx[o] # NoIdx /\ o # r /\ o # l =>
       idx[o] \in 0 .. n - 1 /\ idx[o] # p /\ b[idx[o]].ref = o

\* The item in hand does not belong below the hole (up), or above it (down).
InHand ==
  IF pc = "up" THEN \A i \in 1 .. size - 1 : heap_parent(i) = pos => t.val =< a[i].val
  ELSE pos > 0 => a[heap_parent(pos)].val =< t.val

IInv ==
  /\ TypeOK /\ IndexInSync
  /\ IF pc = "idle" THEN leaving = None /\ IsHeap(a, size)
     ELSE /\ HeapAround(a, size, pos) /\ InHand
          /\ SyncedBut(a, size, pos, t.ref, leaving, heap_idx)

-----------------------------------------------------------------------------
(* Arithmetic of the array encoding. *)

\* A node's parent comes before it, and is the one it is a child of.
LEMMA Parent ==
  ASSUME NEW i \in Nat \ {0}
  PROVE  /\ heap_parent(i) \in Nat /\ heap_parent(i) < i
         /\ \A p \in Nat : heap_parent(i) = p <=> i = heap_left(p) \/ i = heap_right(p)
BY DEF heap_parent, heap_left, heap_right

\* The same for the positions of an array.
LEMMA ParentInside ==
  ASSUME NEW n \in Nat, NEW i \in 0 .. n - 1, i > 0
  PROVE  heap_parent(i) \in 0 .. n - 1 /\ heap_parent(i) # i /\ heap_parent(i) < i
BY Parent

\* The heap starts empty.
LEMMA Initially == Init => IInv
BY HeapAssumption DEF Init, IInv, TypeOK, IndexInSync, IsHeap, NoIdx, NoItem, Items

(* heap_update picks the loop that the item in hand needs. *)
LEMMA UpdateKeeps ==
  ASSUME NEW n \in Nat, NEW p \in 0 .. n - 1, NEW b \in [0 .. n - 1 -> Items],
         heap_update(b, n, p), HeapAround(b, n, p),
         SyncedBut(b, n, p, b[p].ref, leaving', heap_idx'),
         heap_idx' \in [Owners -> Nat \cup {NoIdx}], leaving' \in Owners \cup {None}
  PROVE  /\ IInv'
         /\ \A i \in 0 .. n - 1 : Item(i)' = b[i]
<1>1. /\ a' = b /\ size' = n /\ pos' = p /\ t' = b[p] /\ pc' \in {"up", "down"}
      /\ pc' = "up" <=> (p > 0 /\ b[heap_parent(p)].val > b[p].val)
  BY DEF heap_update
<1>2. \A i \in 0 .. n - 1 : b[i] \in Items /\ b[i].val \in Nat
  BY HeapAssumption, Zenon DEF Items
<1>3. TypeOK' /\ IndexInSync'
  BY <1>1, <1>2 DEF TypeOK, IndexInSync
<1>4. InHand'
  <2>1. CASE pc' = "up"
    <3> SUFFICES ASSUME NEW i \in 1 .. n - 1, heap_parent(i) = p PROVE b[p].val =< b[i].val
      BY <1>1, <2>1 DEF InHand
    <3>1. b[heap_parent(p)].val > b[p].val /\ heap_parent(p) \in 0 .. n - 1 /\ p > 0
      BY <1>1, <2>1, ParentInside
    <3>2. b[heap_parent(p)].val =< b[i].val
      BY <3>1 DEF HeapAround
    <3> QED
      BY <1>2, <3>1, <3>2
  <2>2. CASE pc' = "down"
    <3> SUFFICES ASSUME p > 0 PROVE b[heap_parent(p)].val =< b[p].val
      BY <1>1, <2>2 DEF InHand
    <3> QED
      BY <1>1, <1>2, <2>2, ParentInside
  <2> QED
    BY <1>1, <2>1, <2>2
<1>5. \A i \in 0 .. n - 1 : Item(i)' = b[i]
  BY <1>1 DEF Item
<1> QED
  BY <1>1, <1>3, <1>4, <1>5 DEF IInv

Contents == {Item(i) : i \in 0 .. size - 1}

(* A move swaps the hole with an item and tells the item's owner: whatever *)
(* the order of the values, no item is lost and no index field goes wrong. *)
LEMMA ShiftKeeps ==
  ASSUME IInv, pc # "idle", NEW from \in 0 .. size - 1, from # pos, Shift(from)
  PROVE  /\ TypeOK' /\ IndexInSync' /\ Contents' = Contents
         /\ SyncedBut(a, size, pos, t.ref, leaving, heap_idx)'
         /\ pos \in 0 .. size - 1 /\ size' = size /\ t' = t /\ pos' = from /\ pc' = pc
         /\ \A i \in 0 .. size - 1 : a'[i] = IF i = pos THEN a[from] ELSE a[i]
         /\ \A i \in 0 .. size - 1 : a[i].val \in Nat
         /\ t.val \in Nat
<1>1. /\ a' = [a EXCEPT ![pos] = a[from]] /\ pos' = from
      /\ heap_idx' = [heap_idx EXCEPT ![a[from].ref] = pos]
      /\ size' = size /\ pc' = pc /\ t' = t /\ leaving' = leaving
  BY DEF Shift
<1>2. /\ pos \in 0 .. size - 1 /\ a \in [0 .. size - 1 -> Items] /\ t \in Items
      /\ size \in Nat /\ heap_idx \in [Owners -> Nat \cup {NoIdx}]
      /\ SyncedBut(a, size, pos, t.ref, leaving, heap_idx)
  BY DEF IInv, TypeOK
<1>3. /\ \A i \in 0 .. size - 1 : a[i] \in Items /\ a[i].val \in Nat /\ a[i].ref \in Owners
      /\ t.val \in Nat
  BY <1>2, HeapAssumption, Zenon DEF Items
<1>4. \A i \in 0 .. size - 1 : a'[i] = IF i = pos THEN a[from] ELSE a[i]
  BY <1>1, <1>2
<1>5. TypeOK' /\ IndexInSync'
  BY <1>1, <1>2, <1>3 DEF IInv, TypeOK, IndexInSync
<1>6. \A o \in Owners : heap_idx'[o] = IF o = a[from].ref THEN pos ELSE heap_idx[o]
  BY <1>1, <1>2, <1>3
<1>7. SyncedBut(a, size, pos, t.ref, leaving, heap_idx)'
  <2>1. t.ref # leaving
    BY <1>2 DEF SyncedBut
  <2>2. ASSUME NEW i \in 0 .. size - 1, i # from
        PROVE  heap_idx'[a'[i].ref] = i /\ a'[i].ref # t.ref /\ a'[i].ref # leaving
    BY <1>2, <1>3, <1>4, <1>6, <2>2 DEF SyncedBut
  <2>3. ASSUME NEW o \in Owners, heap_idx'[o] # NoIdx, o # t.ref, o # leaving
        PROVE  /\ heap_idx'[o] \in 0 .. size - 1 /\ heap_idx'[o] # from
               /\ a'[heap_idx'[o]].ref = o
    <3>1. CASE o = a[from].ref
      BY <1>2, <1>4, <1>6, <3>1
    <3>2. CASE o # a[from].ref
      <4>1. heap_idx[o] \in 0 .. size - 1 /\ heap_idx[o] # pos /\ a[heap_idx[o]].ref = o
        BY <1>2, <1>6, <2>3, <3>2 DEF SyncedBut
      <4> QED
        BY <1>4, <1>6, <3>2, <4>1
    <3> QED
      BY <3>1, <3>2
  <2> QED
    BY <1>1, <2>1, <2>2, <2>3 DEF SyncedBut
<1>8. Contents' = Contents
  <2>1. \A i \in 0 .. size - 1 : Item(i) = IF i = pos THEN t ELSE a[i]
    BY DEF Item
  <2>2. \A i \in 0 .. size - 1 : Item(i)' = IF i = from THEN t ELSE a'[i]
    BY <1>1 DEF Item
  <2>3. ASSUME NEW i \in 0 .. size - 1 PROVE \E j \in 0 .. size - 1 : Item(j) = Item(i)'
    BY <1>2, <1>4, <2>1, <2>2
  <2>4. ASSUME NEW i \in 0 .. size - 1 PROVE \E j \in 0 .. size - 1 : Item(j)' = Item(i)
    BY <1>2, <1>4, <2>1, <2>2
  <2> QED
    BY <1>1, <2>3, <2>4 DEF Contents
<1> QED
  BY <1>1, <1>2, <1>3, <1>4, <1>5, <1>7, <1>8

\* A step of heap_up: the parent comes down into the hole.
LEMMA UpKeeps ==
  ASSUME IInv, heap_up
  PROVE  IInv' /\ Contents' = Contents
<1> DEFINE q == heap_parent(pos)
<1>1. pc = "up" /\ pos > 0 /\ a[q].val > t.val /\ Shift(q)
  BY DEF heap_up, Rises
<1>2. size \in Nat /\ pos \in 0 .. size - 1
  BY <1>1 DEF IInv, TypeOK
<1>3. q \in 0 .. size - 1 /\ q # pos /\ q < pos
  BY <1>1, <1>2, ParentInside
<1> HIDE DEF q
<1>4. /\ TypeOK' /\ IndexInSync' /\ Contents' = Contents
      /\ SyncedBut(a, size, pos, t.ref, leaving, heap_idx)'
      /\ size' = size /\ t' = t /\ pos' = q /\ pc' = pc
      /\ \A i \in 0 .. size - 1 : a'[i] = IF i = pos THEN a[q] ELSE a[i]
      /\ \A i \in 0 .. size - 1 : a[i].val \in Nat
      /\ t.val \in Nat
  BY <1>1, <1>3, ShiftKeeps
<1>5. /\ HeapAround(a, size, pos)
      /\ \A i \in 1 .. size - 1 : heap_parent(i) = pos => t.val =< a[i].val
  BY <1>1 DEF IInv, InHand
<1>6. \A i \in 1 .. size - 1 : heap_parent(i) \in 0 .. size - 1 /\ heap_parent(i) # i
  BY <1>2, ParentInside
<1>7. q > 0 => heap_parent(q) \in 0 .. size - 1 /\ heap_parent(q) # q /\ heap_parent(q) # pos
               /\ a[heap_parent(q)].val =< a[q].val
  BY <1>2, <1>3, <1>5, ParentInside DEF HeapAround
<1>8. ASSUME NEW i \in 1 .. size - 1, heap_parent(i) = q, i # pos
      PROVE  a[q].val =< a[i].val
  BY <1>3, <1>5, <1>8 DEF HeapAround
<1>9. HeapAround(a', size, q)
  <2> SUFFICES ASSUME NEW i \in 1 .. size - 1
               PROVE  /\ i # q /\ heap_parent(i) # q => a'[heap_parent(i)].val =< a'[i].val
                      /\ heap_parent(i) = q /\ q > 0 => a'[heap_parent(q)].val =< a'[i].val
    BY DEF HeapAround
  <2>1. i # q /\ heap_parent(i) # q => a'[heap_parent(i)].val =< a'[i].val
    <3>1. CASE heap_parent(i) = pos
      BY <1>1, <1>4, <1>5, <1>6, <3>1 DEF HeapAround, q
    <3>2. CASE i = pos
      BY <3>2 DEF q
    <3>3. CASE i # pos /\ heap_parent(i) # pos
      BY <1>4, <1>5, <1>6, <3>3 DEF HeapAround
    <3> QED
      BY <3>1, <3>2, <3>3
  <2>2. heap_parent(i) = q /\ q > 0 => a'[heap_parent(q)].val =< a'[i].val
    BY <1>2, <1>3, <1>4, <1>6, <1>7, <1>8
  <2> QED
    BY <2>1, <2>2
<1>10. \A i \in 1 .. size - 1 : heap_parent(i) = q => t.val =< a'[i].val
  BY <1>1, <1>2, <1>3, <1>4, <1>8
<1> QED
  BY <1>1, <1>4, <1>9, <1>10 DEF IInv, InHand

\* What heap_down's choice of a child says about the children of the hole.
LEMMA MinPos ==
  ASSUME size \in Nat, pos \in 0 .. size - 1, t.val \in Nat,
         \A i \in 0 .. size - 1 : a[i].val \in Nat
  PROVE  /\ min_pos # pos => /\ min_pos \in 1 .. size - 1 /\ heap_parent(min_pos) = pos
                             /\ a[min_pos].val < t.val
         /\ \A i \in 1 .. size - 1 : heap_parent(i) = pos =>
              IF min_pos = pos THEN t.val =< a[i].val ELSE a[min_pos].val =< a[i].val
<1> DEFINE l == heap_left(pos)
           r == heap_right(pos)
<1>1. l \in Nat \ {0} /\ r \in Nat \ {0} /\ l # pos /\ r # pos
  BY DEF heap_left, heap_right
<1>2. heap_parent(l) = pos /\ heap_parent(r) = pos
  BY <1>1, Parent
<1>3. \A i \in 1 .. size - 1 : heap_parent(i) = pos => i = l \/ i = r
  BY Parent
<1>4. min_pos = IF l < size /\ a[l].val < t.val
                  THEN IF r < size /\ a[r].val < a[l].val THEN r ELSE l
                  ELSE IF r < size /\ a[r].val < t.val THEN r ELSE pos
  BY DEF min_pos
<1> HIDE DEF l, r
<1>5. CASE l < size /\ a[l].val < t.val
  BY <1>1, <1>2, <1>3, <1>4, <1>5
<1>6. CASE ~ (l < size /\ a[l].val < t.val)
  BY <1>1, <1>2, <1>3, <1>4, <1>6
<1> QED
  BY <1>5, <1>6

\* A step of heap_down: the smaller child comes up into the hole.
LEMMA DownKeeps ==
  ASSUME IInv, heap_down
  PROVE  IInv' /\ Contents' = Contents
<1> DEFINE m == min_pos
<1>1. pc = "down" /\ m # pos /\ Shift(m)
  BY DEF heap_down
<1>2. /\ size \in Nat /\ pos \in 0 .. size - 1 /\ t.val \in Nat
      /\ \A i \in 0 .. size - 1 : a[i].val \in Nat
  BY <1>1, HeapAssumption, Zenon DEF IInv, TypeOK, Items
<1>3. /\ m \in 1 .. size - 1 /\ heap_parent(m) = pos /\ a[m].val < t.val
      /\ \A i \in 1 .. size - 1 : heap_parent(i) = pos => a[m].val =< a[i].val
  BY <1>1, <1>2, MinPos
<1> HIDE DEF m
<1>4. /\ TypeOK' /\ IndexInSync' /\ Contents' = Contents
      /\ SyncedBut(a, size, pos, t.ref, leaving, heap_idx)'
      /\ size' = size /\ t' = t /\ pos' = m /\ pc' = pc
      /\ \A i \in 0 .. size - 1 : a'[i] = IF i = pos THEN a[m] ELSE a[i]
  BY <1>1, <1>3, ShiftKeeps
<1>5. HeapAround(a, size, pos)
  BY <1>1 DEF IInv
<1>6. \A i \in 1 .. size - 1 : heap_parent(i) \in 0 .. size - 1 /\ heap_parent(i) # i
  BY <1>2, ParentInside
<1>7. HeapAround(a', size, m)
  <2> SUFFICES ASSUME NEW i \in 1 .. size - 1
               PROVE  /\ i # m /\ heap_parent(i) # m => a'[heap_parent(i)].val =< a'[i].val
                      /\ heap_parent(i) = m /\ m > 0 => a'[heap_parent(m)].val =< a'[i].val
    BY DEF HeapAround
  <2>1. i # m /\ heap_parent(i) # m => a'[heap_parent(i)].val =< a'[i].val
    <3>1. CASE heap_parent(i) = pos
      BY <1>2, <1>3, <1>4, <1>6, <3>1
    <3>2. CASE i = pos
      BY <1>2, <1>3, <1>4, <1>5, <1>6, <3>2 DEF HeapAround
    <3>3. CASE i # pos /\ heap_parent(i) # pos
      BY <1>4, <1>5, <1>6, <3>3 DEF HeapAround
    <3> QED
      BY <3>1, <3>2, <3>3
  <2>2. heap_parent(i) = m => a'[heap_parent(m)].val =< a'[i].val
    <3> SUFFICES ASSUME heap_parent(i) = m PROVE a'[heap_parent(m)].val =< a'[i].val
      OBVIOUS
    <3>1. i # pos
      BY <1>2, <1>3, Parent
    <3>2. a[m].val =< a[i].val
      BY <1>1, <1>5, <3>1 DEF HeapAround
    <3> QED
      BY <1>2, <1>3, <1>4, <3>1, <3>2
  <2> QED
    BY <2>1, <2>2
<1>8. a'[heap_parent(m)].val =< t.val
  BY <1>2, <1>3, <1>4
<1> QED
  BY <1>1, <1>4, <1>7, <1>8 DEF IInv, InHand

\* The loop ends where the item in hand fits between its neighbours.
LEMMA SettleKeeps ==
  ASSUME IInv, Settle
  PROVE  IInv' /\ Contents' = Contents
<1>1. /\ pc \in {"up", "down"}
      /\ pc = "up" => ~ Rises
      /\ pc = "down" => min_pos = pos
      /\ a' = [a EXCEPT ![pos] = t] /\ size' = size
      /\ heap_idx' = [o \in Owners |-> IF o = leaving THEN NoIdx
                                       ELSE IF o = t.ref THEN pos ELSE heap_idx[o]]
      /\ pc' = "idle" /\ pos' = 0 /\ t' = NoItem /\ leaving' = None
  BY DEF Settle, AtRest
<1>2. /\ size \in Nat /\ pos \in 0 .. size - 1 /\ a \in [0 .. size - 1 -> Items]
      /\ t \in Items /\ heap_idx \in [Owners -> Nat \cup {NoIdx}]
      /\ SyncedBut(a, size, pos, t.ref, leaving, heap_idx) /\ HeapAround(a, size, pos)
  BY <1>1 DEF IInv, TypeOK
<1>3. /\ \A i \in 0 .. size - 1 : a[i] \in Items /\ a[i].val \in Nat /\ a[i].ref \in Owners
      /\ t.val \in Nat /\ t.ref \in Owners
  BY <1>2, HeapAssumption, Zenon DEF Items
<1>4. \A i \in 0 .. size - 1 : a'[i] = IF i = pos THEN t ELSE a[i]
  BY <1>1, <1>2
<1>5. TypeOK'
  BY <1>1, <1>2, <1>3 DEF TypeOK
<1>6. IndexInSync'
  <2>1. ASSUME NEW i \in 0 .. size - 1 PROVE heap_idx'[a'[i].ref] = i
    BY <1>1, <1>2, <1>3, <1>4 DEF SyncedBut
  <2>2. ASSUME NEW o \in Owners, heap_idx'[o] # NoIdx
        PROVE  heap_idx'[o] \in 0 .. size - 1 /\ a'[heap_idx'[o]].ref = o
    BY <1>1, <1>2, <1>4, <2>2 DEF SyncedBut
  <2> QED
    BY <1>1, <2>1, <2>2 DEF IndexInSync
<1>7. \A i \in 1 .. size - 1 : heap_parent(i) = pos => t.val =< a[i].val
  <2>1. CASE pc = "up"
    BY <2>1 DEF IInv, InHand
  <2>2. CASE pc = "down"
    BY <1>1, <1>2, <1>3, <2>2, MinPos
  <2> QED
    BY <1>1, <2>1, <2>2
<1>8. pos > 0 => a[heap_parent(pos)].val =< t.val
  BY <1>1, <1>2, <1>3, ParentInside DEF IInv, InHand, Rises
<1>9. IsHeap(a', size)
  <2> SUFFICES ASSUME NEW i \in 1 .. size - 1 PROVE a'[heap_parent(i)].val =< a'[i].val
    BY DEF IsHeap
  <2>1. heap_parent(i) \in 0 .. size - 1 /\ heap_parent(i) # i
    BY <1>2, ParentInside
  <2> QED
    BY <1>2, <1>4, <1>7, <1>8, <2>1 DEF HeapAround
<1>10. Contents' = Contents
  <2>1. \A i \in 0 .. size - 1 : Item(i)' = Item(i)
    BY <1>1, <1>4 DEF Item
  <2> QED
    BY <1>1, <2>1 DEF Contents
<1> QED
  BY <1>1, <1>5, <1>6, <1>9, <1>10 DEF IInv

\* The items of owners other than o.
Others(o) == {x \in Contents : x.ref # o}

\* heap_upsert sets the owner's timer, new or not, and leaves the others alone.
LEMMA UpsertKeeps ==
  ASSUME IInv, NEW o \in Owners, NEW d \in Vals, heap_upsert(o, d)
  PROVE  IInv' /\ Contents' = Others(o) \cup {[val |-> d, ref |-> o]}
<1> DEFINE item == [val |-> d, ref |-> o]
           p == IF heap_idx[o] \in 0 .. size - 1 THEN heap_idx[o] ELSE size
           n == IF p = size THEN size + 1 ELSE size
           b == [i \in 0 .. n - 1 |-> IF i = p THEN item ELSE a[i]]
<1>1. /\ pc = "idle" /\ heap_update(b, n, p) /\ heap_idx' = heap_idx /\ leaving' = leaving
  BY DEF heap_upsert
<1>2. /\ size \in Nat /\ a \in [0 .. size - 1 -> Items] /\ leaving = None
      /\ heap_idx \in [Owners -> Nat \cup {NoIdx}] /\ IsHeap(a, size)
      /\ \A i \in 0 .. size - 1 : heap_idx[a[i].ref] = i
      /\ \A u \in Owners : heap_idx[u] # NoIdx =>
           heap_idx[u] \in 0 .. size - 1 /\ a[heap_idx[u]].ref = u
  BY <1>1 DEF IInv, TypeOK, IndexInSync
<1>3. /\ \A i \in 0 .. size - 1 : a[i] \in Items /\ a[i].val \in Nat /\ a[i].ref \in Owners
      /\ item \in Items
  BY <1>2, HeapAssumption, Zenon DEF Items
<1>4. /\ n \in Nat /\ p \in 0 .. n - 1 /\ n >= size
      /\ \A i \in 0 .. n - 1 : i # p => i \in 0 .. size - 1
      /\ p # size => p = heap_idx[o] /\ p \in 0 .. size - 1
      /\ p = size => heap_idx[o] = NoIdx
  BY <1>2
<1>5. b \in [0 .. n - 1 -> Items] /\ \A i \in 0 .. n - 1 : b[i] = IF i = p THEN item ELSE a[i]
  BY <1>3, <1>4
<1>6. \A i \in 0 .. size - 1 : i = p <=> a[i].ref = o
  BY <1>2, <1>3, <1>4 DEF NoIdx
<1> HIDE DEF b, n, p
<1>7. HeapAround(b, n, p)
  <2> SUFFICES ASSUME NEW i \in 1 .. n - 1
               PROVE  /\ i # p /\ heap_parent(i) # p => b[heap_parent(i)].val =< b[i].val
                      /\ heap_parent(i) = p /\ p > 0 => b[heap_parent(p)].val =< b[i].val
    BY DEF HeapAround
  <2>1. heap_parent(i) \in 0 .. n - 1 /\ heap_parent(i) < i /\ heap_parent(i) # i
    BY <1>4, ParentInside
  <2>2. i # p /\ heap_parent(i) # p => b[heap_parent(i)].val =< b[i].val
    <3> SUFFICES ASSUME i # p, heap_parent(i) # p PROVE b[heap_parent(i)].val =< b[i].val
      OBVIOUS
    <3>1. i \in 1 .. size - 1 /\ heap_parent(i) \in 0 .. size - 1
      BY <1>2, <1>4, <2>1
    <3>2. b[i] = a[i] /\ b[heap_parent(i)] = a[heap_parent(i)]
      BY <1>5, <2>1
    <3> QED
      BY <1>2, <3>1, <3>2 DEF IsHeap
  <2>3. heap_parent(i) = p /\ p > 0 => b[heap_parent(p)].val =< b[i].val
    <3> SUFFICES ASSUME heap_parent(i) = p, p > 0 PROVE b[heap_parent(p)].val =< b[i].val
      OBVIOUS
    <3>1. i \in 1 .. size - 1 /\ p \in 1 .. size - 1 /\ i # p
      BY <1>2, <1>4, <2>1
    <3>2. a[p].val =< a[i].val /\ a[heap_parent(p)].val =< a[p].val
      BY <1>2, <3>1 DEF IsHeap
    <3>3. heap_parent(p) \in 0 .. size - 1 /\ heap_parent(p) # p
      BY <1>2, <3>1, ParentInside
    <3>4. b[i] = a[i] /\ b[heap_parent(p)] = a[heap_parent(p)]
      BY <1>2, <1>4, <1>5, <3>1, <3>3
    <3> QED
      BY <1>3, <3>1, <3>2, <3>3, <3>4
  <2> QED
    BY <2>2, <2>3
<1>8. b[p].ref = o /\ o # None
  BY <1>4, <1>5, HeapAssumption
<1>9. SyncedBut(b, n, p, o, leaving, heap_idx)
  <2>1. ASSUME NEW i \in 0 .. n - 1, i # p
        PROVE  heap_idx[b[i].ref] = i /\ b[i].ref # o /\ b[i].ref # leaving
    <3>1. i \in 0 .. size - 1 /\ b[i] = a[i]
      BY <1>4, <1>5, <2>1
    <3> QED
      BY <1>2, <1>3, <1>6, <2>1, <3>1, HeapAssumption
  <2>2. ASSUME NEW u \in Owners, heap_idx[u] # NoIdx, u # o
        PROVE  heap_idx[u] \in 0 .. n - 1 /\ heap_idx[u] # p /\ b[heap_idx[u]].ref = u
    BY <1>2, <1>4, <1>5, <1>6, <2>2
  <2> QED
    BY <1>2, <1>8, <2>1, <2>2 DEF SyncedBut
<1>10. IInv' /\ \A i \in 0 .. n - 1 : Item(i)' = b[i]
  BY <1>1, <1>2, <1>4, <1>5, <1>7, <1>8, <1>9, UpdateKeeps
<1>11. Contents' = Others(o) \cup {item}
  <2>1. size' = n
    BY <1>1 DEF heap_update
  <2>2. \A i \in 0 .. size - 1 : Item(i) = a[i]
    BY <1>1 DEF Item
  <2>3. Contents' = {b[i] : i \in 0 .. n - 1}
    BY <1>10, <2>1 DEF Contents
  <2>4. Others(o) = {a[i] : i \in {j \in 0 .. size - 1 : j # p}}
    BY <1>6, <2>2 DEF Others, Contents
  <2>5. \A i \in 0 .. size - 1 : i \in 0 .. n - 1
    BY <1>2, <1>4
  <2> QED
    BY <1>4, <1>5, <2>3, <2>4, <2>5
<1> QED
  BY <1>10, <1>11

\* heap_delete drops the owner's timer; the last item goes into the gap.
LEMMA DeleteKeeps ==
  ASSUME IInv, NEW o \in Owners, heap_delete(o)
  PROVE  IInv' /\ Contents' = Others(o)
<1> DEFINE p == heap_idx[o]
           n == size - 1
           b == [i \in 0 .. n - 1 |-> IF i = p THEN a[n] ELSE a[i]]
<1>1. /\ pc = "idle" /\ heap_idx[o] # NoIdx
      /\ IF p < n
           THEN heap_update(b, n, p) /\ leaving' = o /\ heap_idx' = heap_idx
           ELSE /\ a' = b /\ size' = n /\ heap_idx' = [heap_idx EXCEPT ![o] = NoIdx]
                /\ pc' = "idle" /\ pos' = 0 /\ t' = NoItem /\ leaving' = None
  BY DEF heap_delete, AtRest
<1>2. /\ size \in Nat /\ a \in [0 .. size - 1 -> Items]
      /\ heap_idx \in [Owners -> Nat \cup {NoIdx}] /\ IsHeap(a, size)
      /\ \A i \in 0 .. size - 1 : heap_idx[a[i].ref] = i
      /\ \A u \in Owners : heap_idx[u] # NoIdx =>
           heap_idx[u] \in 0 .. size - 1 /\ a[heap_idx[u]].ref = u
  BY <1>1 DEF IInv, TypeOK, IndexInSync
<1>3. \A i \in 0 .. size - 1 : a[i] \in Items /\ a[i].val \in Nat /\ a[i].ref \in Owners
  BY <1>2, HeapAssumption, Zenon DEF Items
<1>4. /\ p \in 0 .. size - 1 /\ n \in Nat /\ n \in 0 .. size - 1
      /\ \A i \in 0 .. n - 1 : i \in 0 .. size - 1 /\ i # n
      /\ \A i \in 0 .. size - 1 : i # n => i \in 0 .. n - 1
  BY <1>1, <1>2
<1>5. b \in [0 .. n - 1 -> Items] /\ \A i \in 0 .. n - 1 : b[i] = IF i = p THEN a[n] ELSE a[i]
  BY <1>3, <1>4
<1>6. \A i \in 0 .. size - 1 : i = p <=> a[i].ref = o
  BY <1>1, <1>2
<1>7. Others(o) = {a[i] : i \in {j \in 0 .. size - 1 : j # p}}
  <2>1. \A i \in 0 .. size - 1 : Item(i) = a[i]
    BY <1>1 DEF Item
  <2> QED
    BY <1>6, <2>1 DEF Others, Contents
<1> HIDE DEF b, n, p
<1>8. CASE p < n
  <2>1. heap_update(b, n, p) /\ leaving' = o /\ heap_idx' = heap_idx /\ p \in 0 .. n - 1
    BY <1>1, <1>4, <1>8
  <2>2. HeapAround(b, n, p)
    <3> SUFFICES ASSUME NEW i \in 1 .. n - 1
                 PROVE  /\ i # p /\ heap_parent(i) # p => b[heap_parent(i)].val =< b[i].val
                        /\ heap_parent(i) = p /\ p > 0 => b[heap_parent(p)].val =< b[i].val
      BY DEF HeapAround
    <3>1. heap_parent(i) \in 0 .. n - 1 /\ heap_parent(i) # i
      BY <1>4, ParentInside
    <3>2. i \in 0 .. n - 1 /\ i \in 1 .. size - 1 /\ a[heap_parent(i)].val =< a[i].val
      BY <1>2, <1>4 DEF IsHeap
    <3>3. i # p /\ heap_parent(i) # p => b[heap_parent(i)].val =< b[i].val
      BY <1>5, <3>1, <3>2
    <3>4. ASSUME heap_parent(i) = p, p > 0 PROVE b[heap_parent(p)].val =< b[i].val
      <4>1. heap_parent(p) \in 0 .. n - 1 /\ heap_parent(p) # p
        BY <1>4, <2>1, <3>4, ParentInside
      <4>2. a[heap_parent(p)].val =< a[p].val
        BY <1>2, <1>4, <3>4 DEF IsHeap
      <4>3. b[i] = a[i] /\ b[heap_parent(p)] = a[heap_parent(p)]
        BY <1>5, <3>1, <3>2, <3>4, <4>1
      <4> QED
        BY <1>3, <1>4, <3>2, <3>4, <4>1, <4>2, <4>3
    <3> QED
      BY <3>3, <3>4
  <2>3. b[p] = a[n] /\ a[n].ref # o /\ heap_idx[a[n].ref] = n
    BY <1>2, <1>4, <1>5, <1>6, <1>8, <2>1
  <2>4. SyncedBut(b, n, p, b[p].ref, o, heap_idx)
    <3>1. ASSUME NEW i \in 0 .. n - 1, i # p
          PROVE  heap_idx[b[i].ref] = i /\ b[i].ref # b[p].ref /\ b[i].ref # o
      <4>1. b[i] = a[i] /\ i \in 0 .. size - 1 /\ i # n
        BY <1>4, <1>5, <3>1
      <4> QED
        BY <1>2, <1>6, <2>3, <3>1, <4>1
    <3>2. ASSUME NEW u \in Owners, heap_idx[u] # NoIdx, u # b[p].ref, u # o
          PROVE  heap_idx[u] \in 0 .. n - 1 /\ heap_idx[u] # p /\ b[heap_idx[u]].ref = u
      <4>1. heap_idx[u] \in 0 .. size - 1 /\ a[heap_idx[u]].ref = u
        BY <1>2, <3>2
      <4>2. heap_idx[u] # n /\ heap_idx[u] # p
        BY <1>6, <2>3, <3>2, <4>1
      <4> QED
        BY <1>4, <1>5, <4>1, <4>2
    <3> QED
      BY <2>3, <3>1, <3>2 DEF SyncedBut
  <2>5. IInv' /\ \A i \in 0 .. n - 1 : Item(i)' = b[i]
    <3>1. SyncedBut(b, n, p, b[p].ref, leaving', heap_idx')
      BY <2>1, <2>4
    <3>2. heap_idx' \in [Owners -> Nat \cup {NoIdx}] /\ leaving' \in Owners \cup {None}
      BY <1>2, <2>1
    <3> QED
      BY <1>4, <1>5, <2>1, <2>2, <3>1, <3>2, UpdateKeeps
  <2>6. Contents' = {b[i] : i \in 0 .. n - 1}
    <3>1. size' = n
      BY <2>1 DEF heap_update
    <3> QED
      BY <2>5, <3>1 DEF Contents
  <2>7. {b[i] : i \in 0 .. n - 1} = {a[i] : i \in {j \in 0 .. size - 1 : j # p}}
    <3>1. ASSUME NEW i \in 0 .. n - 1 PROVE \E j \in 0 .. size - 1 : j # p /\ a[j] = b[i]
      BY <1>4, <1>5, <1>8, <2>3
    <3>2. ASSUME NEW j \in 0 .. size - 1, j # p PROVE \E i \in 0 .. n - 1 : b[i] = a[j]
      BY <1>4, <1>5, <2>1, <2>3, <3>2
    <3> QED
      BY <3>1, <3>2
  <2> QED
    BY <1>7, <2>5, <2>6, <2>7
<1>9. CASE ~ (p < n)
  <2>1. /\ a' = b /\ size' = n /\ heap_idx' = [heap_idx EXCEPT ![o] = NoIdx]
        /\ pc' = "idle" /\ pos' = 0 /\ t' = NoItem /\ leaving' = None
    BY <1>1, <1>9
  <2>2. p = n /\ \A i \in 0 .. n - 1 : b[i] = a[i]
    <3>1. p = n
      BY <1>2, <1>4, <1>9
    <3> QED
      BY <1>4, <1>5, <3>1
  <2>3. TypeOK'
    BY <1>2, <1>4, <1>5, <2>1 DEF TypeOK
  <2>4. IndexInSync'
    <3>1. ASSUME NEW i \in 0 .. n - 1 PROVE heap_idx'[a'[i].ref] = i
      BY <1>2, <1>3, <1>4, <1>6, <2>1, <2>2
    <3>2. ASSUME NEW u \in Owners, heap_idx'[u] # NoIdx
          PROVE  heap_idx'[u] \in 0 .. n - 1 /\ a'[heap_idx'[u]].ref = u
      <4>1. u # o /\ heap_idx'[u] = heap_idx[u]
        BY <1>2, <2>1, <3>2
      <4>2. heap_idx[u] \in 0 .. size - 1 /\ a[heap_idx[u]].ref = u
        BY <1>2, <3>2, <4>1
      <4> QED
        BY <1>4, <1>6, <2>1, <2>2, <4>1, <4>2
    <3> QED
      BY <2>1, <3>1, <3>2 DEF IndexInSync
  <2>5. IsHeap(b, n)
    <3> SUFFICES ASSUME NEW i \in 1 .. n - 1 PROVE b[heap_parent(i)].val =< b[i].val
      BY DEF IsHeap
    <3>1. heap_parent(i) \in 0 .. n - 1 /\ i \in 0 .. n - 1 /\ i \in 1 .. size - 1
      BY <1>4, ParentInside
    <3> QED
      BY <1>2, <2>2, <3>1 DEF IsHeap
  <2>6. Contents' = {b[i] : i \in 0 .. n - 1}
    BY <2>1 DEF Contents, Item
  <2>7. {b[i] : i \in 0 .. n - 1} = {a[i] : i \in {j \in 0 .. size - 1 : j # p}}
    BY <1>4, <2>2
  <2> QED
    BY <1>7, <2>1, <2>3, <2>4, <2>5, <2>6, <2>7 DEF IInv
<1> QED
  BY <1>8, <1>9

-----------------------------------------------------------------------------
(* The theorems. *)

\* Every step keeps the invariant and sets a timer, drops one or neither.
LEMMA Step ==
  ASSUME IInv, [Next]_vars
  PROVE  IInv' /\ [Timers!TimersNext]_Contents
<1> USE DEF Timers!TimersNext, Timers!SetTimer, Timers!DropTimer, Timers!Others, Others
<1>1. CASE heap_up
  BY <1>1, UpKeeps
<1>2. CASE heap_down
  BY <1>2, DownKeeps
<1>3. CASE Settle
  BY <1>3, SettleKeeps
<1>4. ASSUME NEW o \in Owners, heap_delete(o)
      PROVE  IInv' /\ [Timers!TimersNext]_Contents
  BY <1>4, DeleteKeeps DEF Contents
<1>5. ASSUME NEW o \in Owners, NEW d \in Vals, heap_upsert(o, d)
      PROVE  IInv' /\ [Timers!TimersNext]_Contents
  BY <1>5, UpsertKeeps DEF Contents
<1>6. CASE UNCHANGED vars
  <2>1. UNCHANGED <<a, size, heap_idx, pc, pos, t, leaving>>
    BY <1>6 DEF vars
  <2>2. IInv'
    BY <2>1 DEF IInv, TypeOK, IndexInSync, InHand
  <2>3. Contents' = Contents
    BY <2>1 DEF Contents, Item
  <2> QED
    BY <2>2, <2>3
<1> QED
  BY <1>1, <1>2, <1>3, <1>4, <1>5, <1>6 DEF Next

\* The inductive invariant holds in every reachable state of the heap.
THEOREM Invariance == Spec => []IInv
<1>1. IInv /\ [Next]_vars => IInv'
  BY Step
<1> QED
  BY Initially, <1>1, PTL DEF Spec

(* Between calls every owner's heap_idx is the place of its own timer, for *)
(* any sequence of heap_upsert and heap_delete.                            *)
THEOREM IndexSafe == Spec => []IndexInSync
<1>1. IInv => IndexInSync
  BY DEF IInv
<1> QED
  BY Invariance, <1>1, PTL

\* In a heap the root is the least: otherwise take the first that is less.
LEMMA RootLeast ==
  ASSUME NEW n \in Nat, NEW b \in [0 .. n - 1 -> Items], IsHeap(b, n), NEW i \in 0 .. n - 1
  PROVE  b[0].val =< b[i].val
<1> DEFINE Less == {j \in 0 .. n - 1 : ~ (b[0].val =< b[j].val)}
           lt == {ss \in Nat \X Nat : ss[1] < ss[2]}
<1> SUFFICES ASSUME i \in Less PROVE FALSE
  OBVIOUS
<1>1. \A j \in 0 .. n - 1 : b[j].val \in Nat
  BY HeapAssumption, Zenon DEF Items
<1>2. Less \subseteq Nat /\ Less # {}
  OBVIOUS
<1> HIDE DEF Less
<1>3. PICK j \in Less : \A k \in Less : ~ (<<k, j>> \in lt)
  <2>1. IsWellFoundedOn(lt, Nat)
    BY NatLessThanWellFounded, Zenon DEF OpToRel
  <2> HIDE DEF lt
  <2> QED
    BY <1>2, <2>1, WFMin, Zenon
<1>4. \A k \in Less : ~ (k < j)
  BY <1>2, <1>3, Zenon
<1>5. j \in 0 .. n - 1 /\ ~ (b[0].val =< b[j].val)
  BY DEF Less
<1>6. j \in 1 .. n - 1
  BY <1>1, <1>5
<1>7. heap_parent(j) \in 0 .. n - 1 /\ heap_parent(j) < j
  BY <1>6, ParentInside
<1>8. b[heap_parent(j)].val =< b[j].val
  BY <1>6 DEF IsHeap
<1>9. b[0].val =< b[heap_parent(j)].val
  BY <1>4, <1>7 DEF Less
<1> QED
  BY <1>1, <1>5, <1>6, <1>7, <1>8, <1>9

(* Between calls the first item has the nearest deadline: next_timer_ms    *)
(* and the reaper look at no other.                                        *)
THEOREM RootSafe == Spec => []RootIsNearest
<1>1. IInv => RootIsNearest
  BY RootLeast DEF IInv, TypeOK, RootIsNearest
<1> QED
  BY Invariance, <1>1, PTL

(* The array with its moves implements a set of timers, one per owner,     *)
(* and no move of an item ever shows.                                      *)
THEOREM Refinement == Spec => ImplementsTimerSet
<1>1. Init => Timers!TimersInit
  BY DEF Init, Timers!TimersInit, Item
<1>2. IInv /\ [Next]_vars => [Timers!TimersNext]_{Item(i) : i \in 0 .. size - 1}
  BY Step DEF Contents
<1> QED
  BY Invariance, <1>1, <1>2, PTL DEF Spec, ImplementsTimerSet, Timers!TimersSpec
=============================================================================
