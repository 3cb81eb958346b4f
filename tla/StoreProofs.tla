---------------------------- MODULE StoreProofs ----------------------------
(***************************************************************************)
(* Keyspace implements ExpiringStore, for every set of keys, values,       *)
(* addresses and arguments and every bound.  The mapping is restated as    *)
(* what is Seen of a database at a time; each operation on the database    *)
(* changes what is seen of one key or of none, each handler is one step of *)
(* the store, and the reaper and the workers are seen by nobody.  The      *)
(* replies of ZQUERY rest on ranks numbering the pairs of a set in order.  *)
(***************************************************************************)
EXTENDS KeyspaceStore, KeyspaceProofs, FiniteSetTheorems

\* ExpiringStore uses the values, the replies and the order of Values.
LEMMA SameValues ==
  /\ Promised!out_nil = out_nil
  /\ \A x : /\ Promised!out_int(x) = out_int(x)
           /\ Promised!out_str(x) = out_str(x)
           /\ Promised!out_dbl(x) = out_dbl(x)
           /\ Promised!out_err(x) = out_err(x)
           /\ Promised!out_arr(x) = out_arr(x)
           /\ Promised!out_keys(x) = out_keys(x)
  /\ Promised!Wrong = WrongType
  /\ Promised!EmptyZSet = EmptyZSet
  /\ \A z : Promised!Pairs(z) = Pairs(z)
  /\ \A p, q : Promised!zless(p, q) = zless(p, q)
  /\ \A S : Promised!Cardinality(S) = Cardinality(S)
  /\ \A z, p : Promised!Rank(z, p) = Rank(z, p)
<1>1. /\ Promised!out_nil = out_nil
      /\ \A x : /\ Promised!out_int(x) = out_int(x)
               /\ Promised!out_str(x) = out_str(x)
               /\ Promised!out_dbl(x) = out_dbl(x)
               /\ Promised!out_err(x) = out_err(x)
  BY Zenon DEF out_nil, out_int, out_str, out_dbl, out_err, Promised!out_nil,
    Promised!out_int, Promised!out_str, Promised!out_dbl, Promised!out_err
<1>2. /\ \A x : /\ Promised!out_arr(x) = out_arr(x)
               /\ Promised!out_keys(x) = out_keys(x)
      /\ Promised!Wrong = WrongType
      /\ Promised!EmptyZSet = EmptyZSet
  BY Zenon DEF out_arr, out_keys, out_err, WrongType, EmptyZSet, Promised!Wrong,
    Promised!out_arr, Promised!out_keys, Promised!out_err, Promised!EmptyZSet
<1>3. \A z : Promised!Pairs(z) = Pairs(z)
  BY Zenon DEF Members, Pairs, Promised!Members, Promised!Pairs
<1>4. \A p, q : Promised!zless(p, q) = zless(p, q)
  BY Zenon DEF zless, Promised!zless
<1>5. \A z, p : Promised!Rank(z, p) = Rank(z, p)
  BY Zenon DEF Rank, Pairs, Members, zless, Cardinality,
    Promised!Rank, Promised!Pairs, Promised!Members, Promised!zless,
    Promised!Cardinality
<1>6. \A S : Promised!Cardinality(S) = Cardinality(S)
  BY Zenon DEF Cardinality, Promised!Cardinality
<1> QED
  BY <1>1, <1>2, <1>3, <1>4, <1>5, <1>6, Zenon

-----------------------------------------------------------------------------
(* What is visible under one key, and how the operations change it.        *)

ItemOf(ent, due) ==
  [type |-> ent.type, str |-> ent.str, zset |-> ent.zset, due |-> due]
ItemAt(d, e) == ItemOf(d.ent[e], d.ttl[e])
View(d, k, t) ==
  IF d.map[k] = Null \/ Overdue(d, d.map[k], t) THEN Absent
  ELSE ItemAt(d, d.map[k])
Seen(d, t) == [k \in Keys |-> View(d, k, t)]

\* The visible store is what is seen of db at now, and so it is primed.
LEMMA StoreSeen ==
  VisibleStore = Seen(db, now) /\ VisibleStore' = Seen(db', now')
BY Zenon DEF VisibleStore, Seen, View, ItemAt, ItemOf, Overdue, HasTimer

\* A linked entry holds an item, which is never mistaken for Absent.
LEMMA LinkedItem ==
  ASSUME NEW d, Consistent(d), NEW k \in Keys, d.map[k] # Null
  PROVE  /\ d.map[k] \in Addrs /\ d.ent[d.map[k]] \in Entry
         /\ d.ttl[d.map[k]] \in Nat \cup {NoTimer}
         /\ ItemAt(d, d.map[k]) \in Promised!Item
         /\ ItemAt(d, d.map[k]) # Absent
<1>1. /\ d.map[k] \in Addrs /\ d.ent[d.map[k]] \in Entry
      /\ d.ttl[d.map[k]] \in Nat \cup {NoTimer}
  BY DEF Consistent, LinkedOK, Database
<1>2. ItemAt(d, d.map[k]) \in Promised!Item
  <2>1. /\ d.ent[d.map[k]].type \in {"str", "zset"}
        /\ d.ent[d.map[k]].str \in Strs /\ d.ent[d.map[k]].zset \in ZSet
    BY <1>1 DEF Entry, T_STR, T_ZSET
  <2> QED
    BY <1>1, <2>1, Zenon DEF ItemAt, ItemOf, Promised!Item, Promised!ZSet, ZSet,
      NoTimer, Promised!Never
<1> QED
  BY <1>1, <1>2, AbsentAssumption

\* No entry is linked under two keys.
LEMMA OwnEntry ==
  ASSUME NEW d, Consistent(d), NEW k \in Keys, NEW j \in Keys,
         d.map[k] # Null, d.map[j] = d.map[k]
  PROVE  j = k
BY DEF Consistent, LinkedOK

(* Unlinking and tearing down a set of linked entries hides their keys and *)
(* changes nothing that is seen under the others.                          *)
LEMMA ReapView ==
  ASSUME NEW d, Consistent(d), NEW R \in SUBSET Addrs, NEW t, NEW k \in Keys
  PROVE  View(entry_del(hm_delete_same(d, R), R), k, t)
           = IF d.map[k] \in R THEN Absent ELSE View(d, k, t)
<1> DEFINE u == hm_delete_same(d, R)
           n == entry_del(u, R)
           large == {e \in R : IsLarge(u, e)}
<1>1. d \in Database
  BY DEF Consistent
<1>2. /\ u.map = [j \in Keys |-> IF d.map[j] \in R THEN Null ELSE d.map[j]]
      /\ u.ent = d.ent /\ u.ttl = d.ttl /\ u \in Database
  BY <1>1 DEF hm_delete_same, Database
<1>3. /\ n.map = u.map
      /\ n.ttl = [a \in Addrs |-> IF a \in R THEN NoTimer ELSE d.ttl[a]]
      /\ n.ent = [a \in Addrs |-> IF a \in R \ large THEN Freed ELSE d.ent[a]]
  BY <1>1, <1>2, Zenon DEF entry_del, Database
<1> HIDE DEF u, n, large
<1>4. CASE d.map[k] \in R
  BY <1>2, <1>3, <1>4 DEF View, n, u
<1>5. CASE d.map[k] \notin R
  <2>1. n.map[k] = d.map[k]
    BY <1>2, <1>3, <1>5
  <2>2. d.map[k] # Null => d.map[k] \in Addrs
    BY <1>1 DEF Database
  <2>3. View(n, k, t) = View(d, k, t)
    <3>1. d.map[k] # Null => n.ent[d.map[k]] = d.ent[d.map[k]]
                             /\ n.ttl[d.map[k]] = d.ttl[d.map[k]]
      BY <1>3, <1>5, <2>2
    <3> QED
      BY <2>1, <3>1, Zenon DEF View, ItemAt, Overdue, HasTimer
  <2> QED
    BY <1>5, <2>3 DEF n, u
<1> QED
  BY <1>4, <1>5

\* Deleting a key hides it and no other key.
LEMMA DeleteSeen ==
  ASSUME NEW d, Consistent(d), NEW k \in Keys, d.map[k] # Null, NEW t
  PROVE  Seen(entry_del(hm_delete(d, k), {d.map[k]}), t)
           = [Seen(d, t) EXCEPT ![k] = Absent]
<1> DEFINE e == d.map[k]
<1>1. d \in Database /\ e \in Addrs
  BY LinkedItem DEF Consistent
<1>2. \A j \in Keys : d.map[j] = e <=> j = k
  BY OwnEntry
<1>3. hm_delete(d, k) = hm_delete_same(d, {e})
  <2>1. [d.map EXCEPT ![k] = Null]
          = [j \in Keys |-> IF d.map[j] \in {e} THEN Null ELSE d.map[j]]
    BY <1>1, <1>2 DEF Database
  <2> QED
    BY <2>1, <1>1 DEF hm_delete, hm_delete_same, Database
<1> DEFINE n == entry_del(hm_delete_same(d, {e}), {e})
<1>4. \A j \in Keys : View(n, j, t) = IF j = k THEN Absent ELSE View(d, j, t)
  BY <1>1, <1>2, ReapView
<1> HIDE DEF n
<1>5. Seen(n, t) = [Seen(d, t) EXCEPT ![k] = Absent]
  BY <1>4, Zenon DEF Seen
<1> QED
  BY <1>3, <1>5 DEF n

(* A lookup changes nothing a client can see, and finds an entry exactly   *)
(* when the key is visible.                                                *)
LEMMA LookupSeen ==
  ASSUME NEW d, Consistent(d), NEW k \in Keys, NEW t, NEW n,
         n = lookup_entry(d, k, t)
  PROVE  /\ Consistent(n)
         /\ Seen(n, t) = Seen(d, t)
         /\ n.map[k] = Null => Seen(d, t)[k] = Absent
         /\ n.map[k] # Null => /\ Seen(d, t)[k] = ItemAt(n, n.map[k])
                               /\ ~ Overdue(n, n.map[k], t)
<1>1. CASE d.map[k] # Null /\ Overdue(d, d.map[k], t)
  <2>1. Seen(d, t)[k] = Absent
    BY <1>1 DEF Seen, View
  <2>2. n = entry_del(hm_delete(d, k), {d.map[k]})
    BY <1>1, Zenon DEF lookup_entry
  <2>3. Seen(n, t) = [Seen(d, t) EXCEPT ![k] = Absent]
    BY <1>1, <2>2, DeleteSeen
  <2>4. Seen(n, t) = Seen(d, t)
    BY <2>1, <2>3, Zenon DEF Seen
  <2> QED
    BY <1>1, <2>1, <2>2, <2>4, DeleteConsistent
<1>2. CASE ~ (d.map[k] # Null /\ Overdue(d, d.map[k], t))
  <2>1. n = d
    BY <1>2, Zenon DEF lookup_entry
  <2> QED
    BY <1>2, <2>1 DEF Seen, View
<1> QED
  BY <1>1, <1>2

(* n is d with the entry ent, its timer and the link of k to it at address *)
(* a, which is free or already the key's own.  The deadline is after t.    *)
Puts(n, d, k, a, ent, due, t) ==
  /\ a \in Addrs /\ (d.map[k] = a \/ d.ent[a] = Freed)
  /\ ~ (due # NoTimer /\ due =< t)
  /\ n.map = [d.map EXCEPT ![k] = a]
  /\ n.ent = [d.ent EXCEPT ![a] = ent]
  /\ n.ttl = [d.ttl EXCEPT ![a] = due]

\* Linking a new entry at a free address, without a timer, is such a store.
LEMMA InsertPuts ==
  ASSUME NEW d, d \in Database, NEW a \in Addrs, d.ent[a] = Freed,
         NEW ent, NEW t
  PROVE  Puts(hm_insert(d, a, ent), d, ent.key, a, ent, NoTimer, t)
<1>1. /\ hm_insert(d, a, ent).map = [d.map EXCEPT ![ent.key] = a]
      /\ hm_insert(d, a, ent).ent = [d.ent EXCEPT ![a] = ent]
      /\ hm_insert(d, a, ent).ttl = [d.ttl EXCEPT ![a] = NoTimer]
  BY Zenon DEF hm_insert, Database
<1> QED
  BY <1>1, Zenon DEF Puts

(* Overwriting the value of the entry of a key, and its timer, is another. *)
LEMMA WritePuts ==
  ASSUME NEW d, Consistent(d), NEW k \in Keys, d.map[k] # Null,
         NEW ent, NEW due, NEW t, ~ (due # NoTimer /\ due =< t)
  PROVE  Puts([d EXCEPT !.ent[d.map[k]] = ent, !.ttl[d.map[k]] = due],
              d, k, d.map[k], ent, due, t)
<1> DEFINE e == d.map[k]
           n == [d EXCEPT !.ent[e] = ent, !.ttl[e] = due]
<1>1. d \in Database /\ e \in Addrs
  BY LinkedItem DEF Consistent
<1>2. /\ n.map = d.map
      /\ n.ent = [d.ent EXCEPT ![e] = ent]
      /\ n.ttl = [d.ttl EXCEPT ![e] = due]
  BY <1>1, Zenon DEF Database
<1>3. d.map = [d.map EXCEPT ![k] = e]
  BY <1>1 DEF Database
<1> HIDE DEF n
<1> QED
  BY <1>1, <1>2, <1>3, Zenon DEF Puts, n

\* Storing an entry changes what is seen under its key only.
LEMMA PutSeen ==
  ASSUME NEW d, Consistent(d), NEW k \in Keys, NEW t, NEW a, NEW ent, NEW due,
         NEW n, Puts(n, d, k, a, ent, due, t)
  PROVE  Seen(n, t) = [Seen(d, t) EXCEPT ![k] = ItemOf(ent, due)]
<1> USE DEF Puts
<1>1. d \in Database /\ a # Null
  BY AddrsAssumption DEF Consistent
<1>2. n.map[k] = a /\ n.ent[a] = ent /\ n.ttl[a] = due
  BY <1>1 DEF Database
<1>3. View(n, k, t) = ItemOf(ent, due)
  BY <1>1, <1>2, Zenon DEF View, ItemAt, Overdue, HasTimer
<1>4. ASSUME NEW j \in Keys, j # k PROVE View(n, j, t) = View(d, j, t)
  <2>1. n.map[j] = d.map[j]
    BY <1>1, <1>4 DEF Database
  <2>2. d.map[j] # Null => d.map[j] # a
    <3>1. d.map[j] # Null => d.ent[d.map[j]] # Freed
      BY DEF Consistent, LinkedOK
    <3> QED
      BY <1>1, <1>4, <3>1, OwnEntry
  <2>3. d.map[j] # Null => n.ent[d.map[j]] = d.ent[d.map[j]]
                           /\ n.ttl[d.map[j]] = d.ttl[d.map[j]]
    <3>1. d.ent \in [Addrs -> Entry \cup {Freed}]
          /\ d.ttl \in [Addrs -> Nat \cup {NoTimer}]
      BY <1>1 DEF Database
    <3>2. d.map[j] # Null => d.map[j] \in Addrs
      BY <1>4, LinkedItem
    <3> QED
      BY <2>2, <3>1, <3>2, Zenon
  <2> QED
    BY <2>1, <2>3, Zenon DEF View, ItemAt, Overdue, HasTimer
<1> QED
  BY <1>3, <1>4, Zenon DEF Seen

\* A worker that frees a queued entry changes nothing a client can see.
LEMMA TaskSeen ==
  ASSUME NEW d, Consistent(d), NEW a \in d.pool, NEW t
  PROVE  Seen([d EXCEPT !.ent[a] = Freed, !.pool = @ \ {a}], t) = Seen(d, t)
<1> DEFINE n == [d EXCEPT !.ent[a] = Freed, !.pool = @ \ {a}]
<1>1. d \in Database
  BY DEF Consistent
<1>2. n.map = d.map /\ n.ttl = d.ttl /\ n.ent = [d.ent EXCEPT ![a] = Freed]
  BY <1>1 DEF Database
<1> HIDE DEF n
<1>3. \A j \in Keys : d.map[j] # a
  BY DEF Consistent, OrphansOK
<1>4. ASSUME NEW j \in Keys PROVE View(n, j, t) = View(d, j, t)
  <2>1. d.map[j] # Null => n.ent[d.map[j]] = d.ent[d.map[j]]
    <3>1. d.ent \in [Addrs -> Entry \cup {Freed}]
      BY <1>1 DEF Database
    <3>2. d.map[j] # Null => d.map[j] \in Addrs
      BY <1>4, LinkedItem
    <3> QED
      BY <1>2, <1>3, <3>1, <3>2, Zenon
  <2> QED
    <3>1. n.map[j] = d.map[j] /\ n.ttl[d.map[j]] = d.ttl[d.map[j]]
      BY <1>2
    <3> QED
      BY <2>1, <3>1, Zenon DEF View, ItemAt, Overdue, HasTimer
<1> QED
  BY <1>4, Zenon DEF Seen, n

\* As time passes, exactly the keys whose deadline arrives are hidden.
LEMMA TimeSeen ==
  ASSUME NEW d, Consistent(d), NEW t \in Int, NEW u \in Int, t =< u
  PROVE  Seen(d, u) = Promised!Surviving(Seen(d, t), u)
<1>1. ASSUME NEW k \in Keys
      PROVE  View(d, k, u) = IF /\ View(d, k, t) # Absent
                                /\ View(d, k, t).due # NoTimer
                                /\ View(d, k, t).due =< u
                             THEN Absent ELSE View(d, k, t)
  <2>1. CASE d.map[k] = Null
    BY <2>1 DEF View
  <2>2. CASE d.map[k] # Null
    <3> DEFINE e == d.map[k]
    <3>1. d.ttl[e] \in Nat \cup {NoTimer} /\ ItemAt(d, e) # Absent
      BY <2>2, LinkedItem
    <3>2. ItemAt(d, e).due = d.ttl[e]
      BY DEF ItemAt, ItemOf
    <3>3. d.ttl[e] =< t => d.ttl[e] =< u
      BY <3>1 DEF NoTimer
    <3> QED
      BY <2>2, <3>1, <3>2, <3>3, Zenon DEF View, Overdue, HasTimer
  <2> QED
    BY <2>1, <2>2
<1> QED
  BY <1>1, Zenon DEF Seen, Promised!Surviving, Promised!Never, NoTimer

-----------------------------------------------------------------------------
(* A string carries no members and a sorted set no string: ExpiringStore   *)
(* sets the unused half of an item to its empty value.                     *)

PlainEntry(x) ==
  /\ x.type = T_STR => x.zset = EmptyZSet
  /\ x.type = T_ZSET => x.str = EmptyStr
Plain(d) == \A a \in Addrs : d.ent[a] # Freed => PlainEntry(d.ent[a])

\* Teardown leaves the entries it does not free as they are.
LEMMA PlainTeardown ==
  ASSUME NEW d, d \in Database, Plain(d), NEW E \in SUBSET Addrs
  PROVE  Plain(entry_del(d, E))
<1> DEFINE large == {e \in E : IsLarge(d, e)}
<1>1. entry_del(d, E).ent
        = [a \in Addrs |-> IF a \in E \ large THEN Freed ELSE d.ent[a]]
  BY Zenon DEF entry_del, Database
<1> HIDE DEF large
<1> QED
  BY <1>1, Zenon DEF Plain

\* So do deletion and lookup.
LEMMA PlainLookup ==
  ASSUME NEW d, Consistent(d), Plain(d), NEW k \in Keys
  PROVE  /\ d.map[k] # Null => Plain(entry_del(hm_delete(d, k), {d.map[k]}))
         /\ \A t : Plain(lookup_entry(d, k, t))
<1>1. d \in Database
  BY DEF Consistent
<1>2. hm_delete(d, k) \in Database /\ hm_delete(d, k).ent = d.ent
  BY <1>1 DEF hm_delete, Database
<1>3. ASSUME d.map[k] # Null
      PROVE  Plain(entry_del(hm_delete(d, k), {d.map[k]}))
  <2>1. {d.map[k]} \in SUBSET Addrs
    BY <1>3, LinkedItem
  <2>2. Plain(hm_delete(d, k))
    BY <1>2 DEF Plain
  <2> QED
    BY <1>2, <2>1, <2>2, PlainTeardown
<1> QED
  BY <1>3 DEF lookup_entry

\* Storing a plain entry.
LEMMA PlainPut ==
  ASSUME NEW d, d \in Database, Plain(d), NEW a \in Addrs,
         NEW ent, PlainEntry(ent), NEW n, n.ent = [d.ent EXCEPT ![a] = ent]
  PROVE  Plain(n)
<1>1. \A b \in Addrs : n.ent[b] = IF b = a THEN ent ELSE d.ent[b]
  BY DEF Database
<1> QED
  BY <1>1, Zenon DEF Plain

-----------------------------------------------------------------------------
(* The commands, one by one.                                               *)

(* What a handler finds with lookup_entry is what the abstract store holds *)
(* under the key.                                                          *)
LookedUp(d, e, k) ==
  /\ Consistent(d) /\ Plain(d) /\ Seen(d, now) = VisibleStore
  /\ d \in Database
  /\ Promised!Exists(k) <=> e # Null
  /\ Promised!IsStr(k) <=> e # Null /\ d.ent[e].type = T_STR
  /\ Promised!IsZset(k) <=> e # Null /\ d.ent[e].type = T_ZSET
  /\ e = Null => VisibleStore[k] = Absent
  /\ e # Null => /\ VisibleStore[k] = ItemAt(d, e)
                 /\ e \in Addrs /\ d.ent[e] \in Entry
                 /\ d.ttl[e] \in Nat \cup {NoTimer}
                 /\ ~ Overdue(d, e, now) /\ PlainEntry(d.ent[e])
LEMMA Looked ==
  ASSUME IInv, Plain(db), NEW k \in Keys,
         NEW STATE d, d = lookup_entry(db, k, now), NEW STATE e, e = d.map[k]
  PROVE  LookedUp(d, e, k)
<1>1. Consistent(db)
  BY DEF IInv
<1>2. /\ Consistent(d) /\ Seen(d, now) = VisibleStore
      /\ e = Null => VisibleStore[k] = Absent
      /\ e # Null => VisibleStore[k] = ItemAt(d, e) /\ ~ Overdue(d, e, now)
  BY <1>1, LookupSeen, StoreSeen
<1>3. Plain(d)
  BY <1>1, PlainLookup, Zenon
<1>4. e # Null => /\ e \in Addrs /\ d.ent[e] \in Entry /\ ItemAt(d, e) # Absent
                  /\ d.ttl[e] \in Nat \cup {NoTimer} /\ d.ent[e] # Freed
  BY <1>2, LinkedItem, FreedAssumption
<1>5. e # Null => PlainEntry(d.ent[e])
  BY <1>3, <1>4 DEF Plain
<1>6. Promised!Exists(k) <=> e # Null
  BY <1>2, <1>4, Zenon DEF Promised!Exists
<1>7. ItemAt(d, e).type = d.ent[e].type
  BY DEF ItemAt, ItemOf
<1>8. /\ Promised!IsStr(k) <=> e # Null /\ d.ent[e].type = T_STR
      /\ Promised!IsZset(k) <=> e # Null /\ d.ent[e].type = T_ZSET
  BY <1>2, <1>6, <1>7, Zenon DEF Promised!IsStr, Promised!IsZset, T_STR, T_ZSET
<1>9. d \in Database
  BY <1>2 DEF Consistent
<1> QED
  BY <1>2, <1>3, <1>4, <1>5, <1>6, <1>8, <1>9, Zenon DEF LookedUp

\* A handler that leaves the result of the lookup leaves the store alone.
LEMMA LookupOnly ==
  ASSUME IInv, Plain(db), NEW k \in Keys, db' = lookup_entry(db, k, now),
         now' = now
  PROVE  VisibleStore' = VisibleStore /\ Plain(db')
<1>1. Consistent(db)
  BY DEF IInv
<1>2. Seen(lookup_entry(db, k, now), now) = Seen(db, now)
  BY <1>1, LookupSeen
<1> QED
  BY <1>1, <1>2, StoreSeen, PlainLookup, Zenon

\* A reply record is an answer of the abstract store.
LEMMA Answered ==
  ASSUME NEW cmd, NEW k, NEW STATE val, reply' = [cmd |-> cmd, key |-> k, val |-> val]
  PROVE  Promised!Answer(cmd, k, val)
BY DEF Promised!Answer

(* A handler that stores an entry under its key, in place or at a free     *)
(* address, changes that key of the store and no other.                    *)
LEMMA Stored ==
  ASSUME IInv, Plain(db), NEW k \in Keys,
         NEW STATE d, d = lookup_entry(db, k, now),
         NEW STATE a, NEW STATE ent, PlainEntry(ent), NEW STATE due,
         now' = now, Puts(db', d, k, a, ent, due, now)
  PROVE  /\ VisibleStore' = [VisibleStore EXCEPT ![k] = ItemOf(ent, due)]
         /\ Plain(db')
<1>1. Consistent(d) /\ Plain(d) /\ Seen(d, now) = VisibleStore /\ d \in Database
  BY Looked DEF LookedUp
<1>2. Plain(db')
  BY <1>1, PlainPut DEF Puts
<1>3. Seen(db', now) = [Seen(d, now) EXCEPT ![k] = ItemOf(ent, due)]
  BY <1>1, PutSeen
<1> QED
  BY <1>1, <1>2, <1>3, StoreSeen, Zenon

\* A handler that deletes the entry it found, if any, hides the key.
LEMMA Removed ==
  ASSUME IInv, Plain(db), NEW k \in Keys,
         NEW STATE d, d = lookup_entry(db, k, now), now' = now,
         db' = IF d.map[k] = Null THEN d
               ELSE entry_del(hm_delete(d, k), {d.map[k]})
  PROVE  VisibleStore' = [VisibleStore EXCEPT ![k] = Absent] /\ Plain(db')
<1>1. /\ Consistent(d) /\ Plain(d) /\ Seen(d, now) = VisibleStore
      /\ d.map[k] = Null => VisibleStore[k] = Absent
  BY Looked DEF LookedUp
<1>2. CASE d.map[k] = Null
  <2>1. db' = d /\ VisibleStore' = VisibleStore
    BY <1>1, <1>2, StoreSeen
  <2>2. VisibleStore = [VisibleStore EXCEPT ![k] = Absent]
    BY <1>1, <1>2, Zenon DEF VisibleStore
  <2> QED
    BY <1>1, <2>1, <2>2
<1>3. CASE d.map[k] # Null
  <2>1. Seen(db', now) = [Seen(d, now) EXCEPT ![k] = Absent]
    BY <1>1, <1>3, DeleteSeen
  <2> QED
    BY <1>1, <1>3, <2>1, StoreSeen, PlainLookup
<1> QED
  BY <1>2, <1>3

\* GET.
LEMMA GetRefined ==
  ASSUME IInv, Plain(db), NEW k \in Keys, do_get(k)
  PROVE  Promised!Get(k) /\ Plain(db')
<1> DEFINE d == lookup_entry(db, k, now)
           e == d.map[k]
           val == IF e = Null THEN out_nil
                  ELSE IF d.ent[e].type # T_STR THEN WrongType
                  ELSE out_str(d.ent[e].str)
           pval == IF ~ Promised!Exists(k) THEN Promised!out_nil
                   ELSE IF Promised!IsStr(k)
                   THEN Promised!out_str(VisibleStore[k].str) ELSE Promised!Wrong
<1>1. db' = d /\ now' = now /\ reply' = [cmd |-> "get", key |-> k, val |-> val]
  BY Zenon DEF do_get, Reply
<1>2. VisibleStore' = VisibleStore /\ Plain(db')
  BY <1>1, LookupOnly
<1>3. /\ Promised!Exists(k) <=> e # Null
      /\ Promised!IsStr(k) <=> e # Null /\ d.ent[e].type = T_STR
      /\ e # Null => VisibleStore[k] = ItemAt(d, e)
  <2>1. d = lookup_entry(db, k, now) /\ e = d.map[k]
    OBVIOUS
  <2> HIDE DEF d, e
  <2>2. LookedUp(d, e, k)
    BY <2>1, Looked, Zenon
  <2> QED
    BY <2>2, Zenon DEF LookedUp
<1>4. ItemAt(d, e).str = d.ent[e].str
  BY DEF ItemAt, ItemOf
<1> HIDE DEF d, e
<1>5. val = pval
  BY <1>3, <1>4, SameValues, Zenon
<1> HIDE DEF val, pval
<1>6. Promised!Answer("get", k, pval)
  BY <1>1, <1>5, Answered
<1> QED
  BY <1>1, <1>2, <1>6, Zenon DEF Promised!Get, pval

\* SET.
LEMMA SetRefined ==
  ASSUME IInv, Plain(db), NEW k \in Keys, NEW s \in Strs, do_set(k, s)
  PROVE  Promised!Set(k, s) /\ Plain(db')
<1> DEFINE d == lookup_entry(db, k, now)
           e == d.map[k]
           new == [type |-> "str", str |-> s, zset |-> EmptyZSet, due |-> NoTimer]
<1>0. d = lookup_entry(db, k, now)
  OBVIOUS
<1>1. /\ Consistent(d) /\ d \in Database
      /\ Promised!IsZset(k) <=> e # Null /\ d.ent[e].type = T_ZSET
      /\ e # Null => /\ e \in Addrs /\ d.ent[e] \in Entry
                     /\ PlainEntry(d.ent[e])
  <2>1. d = lookup_entry(db, k, now) /\ e = d.map[k]
    OBVIOUS
  <2> HIDE DEF d, e
  <2>2. LookedUp(d, e, k)
    BY <2>1, Looked, Zenon
  <2> QED
    BY <2>2, Zenon DEF LookedUp
<1>2. now' = now
  BY Zenon DEF do_set
<1>3. CASE e # Null /\ d.ent[e].type # T_STR
  <2>1. db' = d /\ reply' = [cmd |-> "set", key |-> k, val |-> WrongType]
    BY <1>3, Zenon DEF do_set, Reply
  <2>2. Promised!IsZset(k)
    BY <1>1, <1>3, Zenon DEF Entry
  <2>3. Promised!Answer("set", k, Promised!Wrong)
    BY <2>1, Answered, SameValues
  <2>4. VisibleStore' = VisibleStore /\ Plain(db')
    BY <1>2, <2>1, LookupOnly
  <2> QED
    BY <1>2, <2>2, <2>3, <2>4, Zenon DEF Promised!Set
<1>4. ASSUME ~ (e # Null /\ d.ent[e].type = T_ZSET),
             VisibleStore' = [VisibleStore EXCEPT ![k] = new],
             reply' = [cmd |-> "set", key |-> k, val |-> out_nil]
      PROVE  Promised!Set(k, s)
  <2>1. Promised!Answer("set", k, Promised!out_nil)
    BY <1>4, Answered, SameValues
  <2>2. new = [type |-> "str", str |-> s, zset |-> Promised!EmptyZSet,
               due |-> Promised!Never]
    BY SameValues, Zenon DEF NoTimer, Promised!Never
  <2> QED
    BY <1>1, <1>2, <1>4, <2>1, <2>2, Zenon DEF Promised!Set
<1>5. CASE e # Null /\ d.ent[e].type = T_STR
  <2> DEFINE ent == [d.ent[e] EXCEPT !.str = s]
  <2>1. /\ db' = entry_set_ttl([d EXCEPT !.ent[e].str = s], e, -1, now)
        /\ reply' = [cmd |-> "set", key |-> k, val |-> out_nil]
    BY <1>5, Zenon DEF do_set, Reply
  <2>2. Puts(db', d, k, e, ent, NoTimer, now)
    <3>1. [d EXCEPT !.ent[e].str = s] = [d EXCEPT !.ent[e] = ent]
      BY <1>1, <1>5 DEF Database
    <3>2. db' = [d EXCEPT !.ent[e] = ent, !.ttl[e] = NoTimer]
      BY <2>1, <3>1 DEF entry_set_ttl
    <3> HIDE DEF ent
    <3> QED
      BY <1>1, <1>5, <3>2, WritePuts, Zenon
  <2>3. /\ ent.type = "str" /\ ent.str = s /\ ent.zset = EmptyZSet
        /\ PlainEntry(ent)
    BY <1>1, <1>5, Zenon DEF PlainEntry, Entry, T_STR, T_ZSET
  <2> HIDE DEF d, ent
  <2>4. VisibleStore' = [VisibleStore EXCEPT ![k] = new] /\ Plain(db')
    <3>1. /\ VisibleStore' = [VisibleStore EXCEPT ![k] = ItemOf(ent, NoTimer)]
          /\ Plain(db')
      BY <1>0, <1>2, <2>2, <2>3, Stored
    <3> QED
      BY <2>3, <3>1 DEF ItemOf
  <2> QED
    BY <1>4, <1>5, <2>1, <2>4 DEF T_STR, T_ZSET
<1>6. CASE e = Null
  <2> DEFINE ent == [key |-> k, type |-> T_STR, str |-> s, zset |-> EmptyZSet]
  <2>1. PICK a \in Addrs : d.ent[a] = Freed /\ db' = hm_insert(d, a, ent)
    BY <1>6, Zenon DEF do_set
  <2>2. reply' = [cmd |-> "set", key |-> k, val |-> out_nil]
    BY <1>6, Zenon DEF do_set, Reply
  <2>3. /\ ent.type = "str" /\ ent.str = s /\ ent.zset = EmptyZSet
        /\ PlainEntry(ent) /\ ent.key = k
    BY DEF PlainEntry, T_STR, T_ZSET
  <2> HIDE DEF d, ent
  <2>4. Puts(db', d, k, a, ent, NoTimer, now)
    <3>1. Puts(hm_insert(d, a, ent), d, ent.key, a, ent, NoTimer, now)
      BY <1>1, <2>1, InsertPuts, Zenon
    <3> QED
      BY <2>1, <2>3, <3>1
  <2>5. VisibleStore' = [VisibleStore EXCEPT ![k] = new] /\ Plain(db')
    <3>1. /\ VisibleStore' = [VisibleStore EXCEPT ![k] = ItemOf(ent, NoTimer)]
          /\ Plain(db')
      BY <1>0, <1>2, <2>3, <2>4, Stored
    <3> QED
      BY <2>3, <3>1 DEF ItemOf
  <2> QED
    BY <1>4, <1>6, <2>2, <2>5
<1> QED
  BY <1>3, <1>5, <1>6

\* DEL.
LEMMA DelRefined ==
  ASSUME IInv, Plain(db), NEW k \in Keys, do_del(k)
  PROVE  Promised!Del(k) /\ Plain(db')
<1> DEFINE d == lookup_entry(db, k, now)
           e == d.map[k]
           val == out_int(IF e = Null THEN 0 ELSE 1)
<1>1. /\ Consistent(d) /\ Plain(d) /\ Seen(d, now) = VisibleStore
      /\ Promised!Exists(k) <=> e # Null
      /\ e = Null => VisibleStore[k] = Absent
  <2>1. d = lookup_entry(db, k, now) /\ e = d.map[k]
    OBVIOUS
  <2> HIDE DEF d, e
  <2>2. LookedUp(d, e, k)
    BY <2>1, Looked, Zenon
  <2> QED
    BY <2>2, Zenon DEF LookedUp
<1>2. /\ db' = IF e = Null THEN d ELSE entry_del(hm_delete(d, k), {e})
      /\ reply' = [cmd |-> "del", key |-> k, val |-> val] /\ now' = now
  BY Zenon DEF do_del, Reply
<1>3. /\ VisibleStore' = [VisibleStore EXCEPT ![k] = Absent] /\ Plain(db')
  BY <1>1, <1>2, Removed, Zenon
<1>4. val = Promised!out_int(IF Promised!Exists(k) THEN 1 ELSE 0)
  BY <1>1, SameValues
<1>5. Promised!Answer("del", k, val)
  BY <1>2, Answered
<1> QED
  BY <1>2, <1>3, <1>4, <1>5, Zenon DEF Promised!Del

\* KEYS lists every key that exists, and may list some that are overdue.
LEMMA KeysRefined ==
  ASSUME IInv, Plain(db), do_keys
  PROVE  Promised!ListKeys /\ Plain(db')
<1> DEFINE listed == {k \in Keys : db.map[k] # Null}
<1>1. /\ reply' = [cmd |-> "keys", key |-> Null, val |-> out_keys(listed)]
      /\ db' = db /\ now' = now
  BY Zenon DEF do_keys, Reply
<1>2. VisibleStore' = VisibleStore
  BY <1>1, StoreSeen
<1>3. {k \in Keys : Promised!Exists(k)} \subseteq listed
  BY Zenon DEF Promised!Exists, VisibleStore
<1>4. listed \in SUBSET Keys
  OBVIOUS
<1> HIDE DEF listed
<1>5. Promised!Answer("keys", Null, Promised!out_keys(listed))
  BY <1>1, Answered, SameValues
<1>6. reply'.cmd = "keys"
  BY <1>1
<1> QED
  BY <1>1, <1>2, <1>3, <1>4, <1>5, <1>6, Zenon DEF Promised!ListKeys

\* A request that matches no command.
LEMMA UnknownRefined ==
  ASSUME IInv, Plain(db), do_unknown
  PROVE  Promised!Unknown /\ Plain(db')
<1>1. PICK code \in {"ERR_UNKNOWN", "ERR_ARG"} :
        reply' = [cmd |-> "unknown", key |-> Null, val |-> out_err(code)]
  BY Zenon DEF do_unknown, Reply
<1>2. db' = db /\ now' = now
  BY Zenon DEF do_unknown
<1>3. VisibleStore' = VisibleStore
  BY <1>2, StoreSeen
<1>4. Promised!Answer("unknown", Null, Promised!out_err(code))
  BY <1>1, Answered, SameValues
<1> QED
  BY <1>2, <1>3, <1>4, Zenon DEF Promised!Unknown

(* The reaper removes only what nobody could see any more, and a worker    *)
(* frees only what is no longer linked.                                    *)
LEMMA BackgroundHidden ==
  ASSUME IInv, Plain(db),
         process_timers \/ \E e \in Addrs : entry_del_task(e)
  PROVE  /\ VisibleStore' = VisibleStore /\ now' = now /\ reply' = reply
         /\ Plain(db')
<1>1. Consistent(db) /\ db \in Database
  BY DEF IInv, Consistent
<1>2. CASE process_timers
  <2>1. PICK R \in ReapSets(db, now) :
          /\ db' = entry_del(hm_delete_same(db, R), R)
          /\ now' = now /\ reply' = reply
    BY <1>2, Zenon DEF process_timers
  <2>2. R \in SUBSET Addrs /\ \A e \in R : Overdue(db, e, now)
    BY <2>1, Zenon DEF ReapSets, DueSet
  <2>3. ASSUME NEW k \in Keys PROVE View(db', k, now) = View(db, k, now)
    <3>1. View(db', k, now)
            = IF db.map[k] \in R THEN Absent ELSE View(db, k, now)
      BY <1>1, <2>1, <2>2, ReapView
    <3>2. db.map[k] \in R => View(db, k, now) = Absent
      BY <2>2, Zenon DEF View
    <3> QED
      BY <3>1, <3>2
  <2>4. VisibleStore' = VisibleStore
    BY <2>1, <2>3, StoreSeen DEF Seen
  <2>5. Plain(db')
    <3>1. hm_delete_same(db, R) \in Database /\ hm_delete_same(db, R).ent = db.ent
      BY <1>1 DEF hm_delete_same, Database
    <3>2. Plain(hm_delete_same(db, R))
      BY <3>1 DEF Plain
    <3> QED
      BY <2>1, <2>2, <3>1, <3>2, PlainTeardown
  <2> QED
    BY <2>1, <2>4, <2>5
<1>3. ASSUME NEW e \in Addrs, entry_del_task(e)
      PROVE  /\ VisibleStore' = VisibleStore /\ now' = now /\ reply' = reply
             /\ Plain(db')
  <2>1. /\ e \in db.pool /\ now' = now /\ reply' = reply
        /\ db' = [db EXCEPT !.ent[e] = Freed, !.pool = @ \ {e}]
    BY <1>3, Zenon DEF entry_del_task
  <2>2. VisibleStore' = VisibleStore
    BY <1>1, <2>1, TaskSeen, StoreSeen, Zenon
  <2>3. \A a \in Addrs : db'.ent[a] = IF a = e THEN Freed ELSE db.ent[a]
    BY <1>1, <2>1 DEF Database
  <2> QED
    BY <2>1, <2>2, <2>3, Zenon DEF Plain
<1> QED
  BY <1>2, <1>3

\* A tick of the clock.
LEMMA TickRefined ==
  ASSUME IInv, Plain(db), Tick
  PROVE  Promised!Pass /\ Plain(db')
<1>1. Consistent(db) /\ now \in Int
  BY ClockAssumption DEF IInv
<1>2. now < MaxNow /\ now' = now + 1 /\ db' = db /\ reply' = reply
  BY Zenon DEF Tick
<1>3. Seen(db, now + 1) = Promised!Surviving(Seen(db, now), now + 1)
  <2>1. now + 1 \in Int /\ now =< now + 1
    BY <1>1
  <2> QED
    BY <1>1, <2>1, TimeSeen, Zenon
<1>4. VisibleStore' = Promised!Surviving(VisibleStore, now + 1)
  BY <1>2, <1>3, StoreSeen
<1> QED
  BY <1>2, <1>4, Zenon DEF Promised!Pass, Promised!AdvanceTo

-----------------------------------------------------------------------------
(* The TTL commands: their arithmetic first.                               *)

\* One more unit is at least one unit more.
LEMMA Multiples ==
  ASSUME NEW a \in Int, NEW b \in Int, NEW u \in Nat \ {0}, a < b
  PROVE  a * u + u =< b * u
<1>1. (b - a - 1) * u >= 0
  <2>1. b - a - 1 \in Nat
    OBVIOUS
  <2>2. \A x \in Nat, y \in Nat : x * y >= 0
    BY SMTT(30)
  <2> QED
    BY <2>1, <2>2
<1>2. (b - a - 1) * u = b * u - a * u - u
  BY SMTT(30)
<1>3. a * u \in Int /\ b * u \in Int
  OBVIOUS
<1> QED
  BY <1>1, <1>2, <1>3

\* ClampedMs gives a whole number of units.
LEMMA ClampedUnits ==
  ASSUME NEW n \in 1 .. Int64Max, NEW unit_ms \in {Second, 1}
  PROVE  \E m \in 1 .. n : ClampedMs(n, unit_ms) = m * unit_ms
<1> DEFINE most == Int64Max \div unit_ms
           m == IF n > most THEN most ELSE n
<1>1. /\ n \in Nat \ {0} /\ Int64Max \in Nat \ {0}
      /\ unit_ms \in Nat \ {0} /\ unit_ms =< Int64Max
  BY ClockAssumption
<1>2. most \in Nat \ {0} /\ most * unit_ms =< Int64Max
  BY <1>1, SMTT(30)
<1> HIDE DEF most
<1>3. m \in 1 .. n /\ m =< most
  BY <1>1, <1>2
<1>4. m * unit_ms \in 0 .. Int64Max
  <2>1. m * unit_ms \in Nat /\ most * unit_ms \in Nat
    BY <1>1, <1>2, <1>3, SMTT(30)
  <2>2. m < most => m * unit_ms + unit_ms =< most * unit_ms
    BY <1>1, <1>2, <1>3, Multiples
  <2> HIDE DEF m
  <2> QED
    BY <1>1, <1>2, <1>3, <2>1, <2>2
<1>5. \A x \in 0 .. Int64Max : Int64(x) = x
  BY <1>1 DEF Int64
<1>6. ClampedMs(n, unit_ms) = Int64(m * unit_ms)
  BY DEF ClampedMs, most
<1> HIDE DEF m
<1> QED
  BY <1>3, <1>4, <1>5, <1>6

\* ClampedMs is the longest TTL that the abstract store grants.
LEMMA GrantedMs ==
  ASSUME NEW n \in 1 .. Int64Max, NEW unit_ms \in {Second, 1}
  PROVE  Promised!Granted(n, unit_ms) = ClampedMs(n, unit_ms)
<1> DEFINE c == ClampedMs(n, unit_ms)
           S == {i * unit_ms : i \in 1 .. n}
           Best(ms) == /\ ms =< Int64Max
                       /\ \A i \in 1 .. n :
                            i * unit_ms =< Int64Max => i * unit_ms =< ms
<1>1. n \in Nat \ {0} /\ Int64Max \in Nat /\ unit_ms \in Nat \ {0}
  BY ClockAssumption
<1>2. PICK m \in 1 .. n : c = m * unit_ms
  BY ClampedUnits
<1>3. /\ c \in 1 .. Int64Max
      /\ c = n * unit_ms \/ c > Int64Max - unit_ms
  BY ClampNeverWraps
<1> HIDE DEF c
<1>4. Best(c)
  <2>1. ASSUME NEW i \in 1 .. n, i * unit_ms =< Int64Max
        PROVE  i * unit_ms =< c
    <3>0. i \in Int /\ i * unit_ms \in Int /\ n * unit_ms \in Int
      BY <1>1
    <3>1. CASE c = n * unit_ms
      <4>1. i < n => i * unit_ms + unit_ms =< n * unit_ms
        BY <1>1, Multiples
      <4> QED
        BY <1>1, <3>0, <3>1, <4>1
    <3>2. CASE c > Int64Max - unit_ms
      <4>1. m < i => m * unit_ms + unit_ms =< i * unit_ms
        BY <1>1, Multiples
      <4>2. i < m => i * unit_ms + unit_ms =< m * unit_ms
        BY <1>1, Multiples
      <4>3. i = m => i * unit_ms = c
        BY <1>2
      <4> QED
        BY <1>1, <1>2, <1>3, <2>1, <3>0, <3>2, <4>1, <4>2, <4>3
    <3> QED
      BY <1>3, <3>1, <3>2
  <2> QED
    BY <1>3, <2>1
<1>5. c \in S
  BY <1>2
<1>6. ASSUME NEW x \in S, Best(x) PROVE x = c
  <2>1. PICK i \in 1 .. n : x = i * unit_ms
    OBVIOUS
  <2>2. x =< c
    BY <1>4, <1>6, <2>1
  <2>3. c =< x
    BY <1>2, <1>3, <1>6
  <2>4. x \in Int /\ c \in Int
    BY <1>1, <1>3, <2>1
  <2> QED
    BY <2>2, <2>3, <2>4
<1> HIDE DEF Best, S
<1>7. (CHOOSE ms \in S : Best(ms)) = c
  BY <1>4, <1>5, <1>6
<1> QED
  BY <1>7, Zenon DEF Promised!Granted, Best, S, c

\* do_ttl rounds up to whole seconds.
LEMMA WholeSeconds ==
  ASSUME NEW ms \in Nat
  PROVE  Promised!InSeconds(ms) = (ms + Second - 1) \div Second
<1> DEFINE q == (ms + Second - 1) \div Second
           Covers(s) == s * Second >= ms /\ (s - 1) * Second < ms
<1>1. Second \in Nat \ {0}
  BY ClockAssumption
<1>2. q \in Nat /\ q * Second =< ms + Second - 1 /\ ms + Second - 1 < q * Second + Second
  BY <1>1, SMTT(30)
<1> HIDE DEF q
<1>3. q * Second \in Int /\ (q - 1) * Second = q * Second - Second
  BY <1>1, <1>2, SMTT(30)
<1>4. Covers(q)
  BY <1>1, <1>2, <1>3
<1>5. q \in 0 .. ms
  <2>1. ms < q => ms * Second + Second =< q * Second
    BY <1>1, <1>2, Multiples
  <2>2. ms * Second >= ms /\ ms * Second \in Int
    <3>1. 1 < Second => 1 * ms + ms =< Second * ms \/ ms = 0
      BY <1>1, Multiples
    <3>2. ms * Second = Second * ms /\ 1 * ms = ms /\ ms * Second \in Nat
      BY <1>1, SMTT(30)
    <3> QED
      BY <1>1, <3>1, <3>2, SMTT(30)
  <2> QED
    BY <1>1, <1>2, <1>3, <2>1, <2>2
<1>6. ASSUME NEW s \in 0 .. ms, Covers(s) PROVE s = q
  <2>1. s * Second \in Int /\ (s - 1) * Second = s * Second - Second
    BY <1>1, SMTT(30)
  <2>2. s < q => s * Second + Second =< q * Second
    BY <1>1, <1>2, Multiples
  <2>3. q < s => q * Second + Second =< s * Second
    BY <1>1, <1>2, Multiples
  <2> QED
    BY <1>1, <1>2, <1>3, <1>4, <1>6, <2>1, <2>2, <2>3
<1> HIDE DEF Covers
<1>7. (CHOOSE s \in 0 .. ms : Covers(s)) = q
  BY <1>4, <1>5, <1>6
<1> QED
  BY <1>7, Zenon DEF Promised!InSeconds, Covers, q

\* Setting the timer of a linked entry stores its item with a new deadline.
LEMMA TimerPuts ==
  ASSUME NEW d, Consistent(d), NEW k \in Keys, d.map[k] # Null,
         NEW ms \in Int, ms # 0, NEW t \in Nat
  PROVE  Puts(entry_set_ttl(d, d.map[k], ms, t), d, k, d.map[k],
              d.ent[d.map[k]], IF ms < 0 THEN NoTimer ELSE t + ms, t)
<1> DEFINE e == d.map[k]
           due == IF ms < 0 THEN NoTimer ELSE t + ms
<1>1. d \in Database
  BY DEF Consistent
<1>2. ~ (due # NoTimer /\ due =< t)
  BY DEF NoTimer
<1>3. entry_set_ttl(d, e, ms, t) = [d EXCEPT !.ttl[e] = due]
  BY Zenon DEF entry_set_ttl
<1> HIDE DEF due
<1>4. [d EXCEPT !.ttl[e] = due] = [d EXCEPT !.ent[e] = d.ent[e], !.ttl[e] = due]
  BY <1>1, Zenon DEF Database
<1>5. Puts([d EXCEPT !.ent[e] = d.ent[e], !.ttl[e] = due], d, k, e, d.ent[e], due, t)
  BY <1>2, WritePuts, Zenon
<1> QED
  BY <1>3, <1>4, <1>5, Zenon DEF due

\* Only the deadline of the item changes.
LEMMA NewDeadline ==
  ASSUME NEW ent, NEW due, NEW new
  PROVE  [ItemOf(ent, due) EXCEPT !.due = new] = ItemOf(ent, new)
BY DEF ItemOf

\* PERSIST.
LEMMA PersistRefined ==
  ASSUME IInv, Plain(db), NEW k \in Keys, do_persist(k)
  PROVE  Promised!Persist(k) /\ Plain(db')
<1> DEFINE d == lookup_entry(db, k, now)
           e == d.map[k]
           timed == e # Null /\ HasTimer(d, e)
           ptimed == Promised!Exists(k) /\ VisibleStore[k].due # Promised!Never
<1>0. d = lookup_entry(db, k, now) /\ now \in Nat
  BY ClockAssumption DEF IInv
<1>1. /\ Consistent(d) /\ Plain(d)
      /\ Promised!Exists(k) <=> e # Null
      /\ e # Null => VisibleStore[k] = ItemAt(d, e) /\ e \in Addrs /\ PlainEntry(d.ent[e])
  <2>1. d = lookup_entry(db, k, now) /\ e = d.map[k]
    OBVIOUS
  <2> HIDE DEF d, e
  <2>2. LookedUp(d, e, k)
    BY <2>1, Looked, Zenon
  <2> QED
    BY <2>2, Zenon DEF LookedUp
<1>2. /\ db' = IF timed THEN entry_set_ttl(d, e, -1, now) ELSE d
      /\ reply' = [cmd |-> "persist", key |-> k,
                   val |-> out_int(IF timed THEN 1 ELSE 0)]
      /\ now' = now
  BY Zenon DEF do_persist, Reply
<1> HIDE DEF d
<1>3. timed <=> ptimed
  <2>1. ItemAt(d, e).due = d.ttl[e]
    BY DEF ItemAt, ItemOf
  <2> QED
    BY <1>1, <2>1, Zenon DEF HasTimer, NoTimer, Promised!Never
<1>4. Promised!Answer("persist", k, Promised!out_int(IF ptimed THEN 1 ELSE 0))
  <2>1. reply' = [cmd |-> "persist", key |-> k,
                  val |-> Promised!out_int(IF ptimed THEN 1 ELSE 0)]
    BY <1>2, <1>3, SameValues, Zenon
  <2> HIDE DEF ptimed
  <2> QED
    BY <2>1, Answered
<1>5. /\ VisibleStore' = IF ptimed THEN [VisibleStore EXCEPT ![k].due = Promised!Never]
                         ELSE VisibleStore
      /\ Plain(db')
  <2>1. CASE timed
    <3>1. Puts(db', d, k, e, d.ent[e], NoTimer, now)
      <4>1. -1 \in Int /\ -1 # 0 /\ -1 < 0
        OBVIOUS
      <4>2. Puts(entry_set_ttl(d, e, -1, now), d, k, e, d.ent[e],
                 IF -1 < 0 THEN NoTimer ELSE now + (-1), now)
        BY <1>0, <1>1, <2>1, <4>1, TimerPuts, Zenon
      <4> QED
        BY <1>2, <2>1, <4>1, <4>2, Zenon
    <3>2. /\ VisibleStore' = [VisibleStore EXCEPT ![k] = ItemOf(d.ent[e], NoTimer)]
          /\ Plain(db')
      BY <1>0, <1>1, <1>2, <2>1, <3>1, Stored, Zenon
    <3>3. [VisibleStore EXCEPT ![k].due = NoTimer]
            = [VisibleStore EXCEPT ![k] = ItemOf(d.ent[e], NoTimer)]
      <4>1. VisibleStore[k] = ItemOf(d.ent[e], d.ttl[e])
        BY <1>1, <2>1, Zenon DEF ItemAt
      <4>2. [ItemOf(d.ent[e], d.ttl[e]) EXCEPT !.due = NoTimer]
              = ItemOf(d.ent[e], NoTimer)
        BY NewDeadline
      <4> QED
        BY <4>1, <4>2, Zenon
    <3> QED
      BY <1>3, <2>1, <3>2, <3>3, Zenon DEF NoTimer, Promised!Never
  <2>2. CASE ~ timed
    BY <1>0, <1>2, <1>3, <2>2, LookupOnly
  <2> QED
    BY <2>1, <2>2
<1> QED
  BY <1>2, <1>4, <1>5, Zenon DEF Promised!Persist

(* EXPIRE and PEXPIRE of an existing key: the deadline is counted from the *)
(* second reading of the clock, and every other key is seen as of then.    *)
LEMMA ExpireSeen ==
  ASSUME IInv, Plain(db), NEW k \in Keys, NEW STATE d,
         d = lookup_entry(db, k, now), d.map[k] # Null,
         NEW ms \in Nat \ {0}, NEW t \in now .. MaxNow, now' = t,
         db' = entry_set_ttl(d, d.map[k], ms, t)
  PROVE  /\ VisibleStore'
              = Promised!Surviving([VisibleStore EXCEPT ![k].due = t + ms], t)
         /\ Plain(db')
<1> DEFINE e == d.map[k]
           ent == d.ent[e]
<1>1. /\ Consistent(d) /\ Plain(d) /\ Seen(d, now) = VisibleStore /\ d \in Database
      /\ VisibleStore[k] = ItemAt(d, e) /\ e \in Addrs /\ PlainEntry(ent)
  <2>1. d = lookup_entry(db, k, now) /\ e = d.map[k] /\ e # Null
    OBVIOUS
  <2> HIDE DEF e
  <2>2. LookedUp(d, e, k)
    BY <2>1, Looked, Zenon
  <2> QED
    BY <2>1, <2>2, Zenon DEF LookedUp
<1>2. now \in Int /\ t \in Nat /\ now =< t /\ t \in Int
  BY ClockAssumption DEF IInv
<1>3. Puts(db', d, k, e, ent, t + ms, t)
  <2>1. ms \in Int /\ ms # 0 /\ ~ (ms < 0)
    OBVIOUS
  <2>2. Puts(entry_set_ttl(d, e, ms, t), d, k, e, ent,
             IF ms < 0 THEN NoTimer ELSE t + ms, t)
    BY <1>1, <1>2, <2>1, TimerPuts, Zenon
  <2> QED
    BY <2>1, <2>2, Zenon
<1> HIDE DEF e, ent
<1>4. Plain(db')
  <2>1. e \in Addrs /\ db'.ent = [d.ent EXCEPT ![e] = ent]
    BY <1>3, Zenon DEF Puts
  <2> QED
    BY <1>1, <2>1, PlainPut
<1>5. Seen(db', t) = [Seen(d, t) EXCEPT ![k] = ItemOf(ent, t + ms)]
  BY <1>1, <1>3, PutSeen
<1>6. Seen(d, t) = Promised!Surviving(VisibleStore, t)
  BY <1>1, <1>2, TimeSeen
<1>7. Promised!Surviving([VisibleStore EXCEPT ![k] = ItemOf(ent, t + ms)], t)
        = [Promised!Surviving(VisibleStore, t) EXCEPT ![k] = ItemOf(ent, t + ms)]
  <2>1. ~ (t + ms # NoTimer /\ t + ms =< t)
    BY <1>2 DEF NoTimer
  <2>2. DOMAIN VisibleStore = Keys
    BY Zenon DEF VisibleStore
  <2>3. ItemOf(ent, t + ms).due = t + ms
    BY DEF ItemOf
  <2> QED
    BY <2>1, <2>2, <2>3, Zenon DEF Promised!Surviving, Promised!Never, NoTimer
<1>8. [VisibleStore EXCEPT ![k].due = t + ms]
        = [VisibleStore EXCEPT ![k] = ItemOf(ent, t + ms)]
  <2>1. VisibleStore[k] = ItemOf(ent, d.ttl[e])
    BY <1>1, Zenon DEF ItemAt, ent
  <2>2. [ItemOf(ent, d.ttl[e]) EXCEPT !.due = t + ms] = ItemOf(ent, t + ms)
    BY NewDeadline
  <2> QED
    BY <2>1, <2>2, Zenon
<1> QED
  BY <1>4, <1>5, <1>6, <1>7, <1>8, StoreSeen

\* EXPIRE and PEXPIRE.
LEMMA ExpireRefined ==
  ASSUME IInv, Plain(db), NEW k \in Keys, NEW n \in TtlArgs \cup {Bad},
         NEW unit_ms \in {Second, 1}, do_expire(k, n, unit_ms)
  PROVE  Promised!Expire(k, n, unit_ms) /\ Plain(db')
<1> DEFINE d == lookup_entry(db, k, now)
           e == d.map[k]
           val == IF e = Null THEN 0 ELSE 1
           pval == IF Promised!Exists(k) THEN 1 ELSE 0
<1>0. d = lookup_entry(db, k, now)
  OBVIOUS
<1>1. Promised!Exists(k) <=> e # Null
  <2>1. d = lookup_entry(db, k, now) /\ e = d.map[k]
    OBVIOUS
  <2> HIDE DEF d, e
  <2>2. LookedUp(d, e, k)
    BY <2>1, Looked, Zenon
  <2> QED
    BY <2>2, Zenon DEF LookedUp
<1>2. CASE n = Bad
  <2>1. /\ reply' = [cmd |-> "expire", key |-> k, val |-> out_err("ERR_ARG")]
        /\ db' = db /\ now' = now
    BY <1>2, ArgsAssumption, Zenon DEF do_expire, Reply
  <2>2. Promised!Answer("expire", k, Promised!out_err("ERR_ARG"))
    BY <2>1, Answered, SameValues
  <2>3. VisibleStore' = VisibleStore
    BY <2>1, StoreSeen
  <2> QED
    BY <1>2, <2>1, <2>2, <2>3, Zenon DEF Promised!Expire
<1>3. ASSUME reply' = [cmd |-> "expire", key |-> k, val |-> out_int(val)]
      PROVE  Promised!Answer("expire", k, Promised!out_int(pval))
  <2>1. out_int(val) = Promised!out_int(pval)
    BY <1>1, SameValues, Zenon
  <2> HIDE DEF val, pval
  <2> QED
    BY <1>3, <2>1, Answered
<1>4. CASE n # Bad /\ ~ (e # Null /\ n > 0)
  <2>1. /\ db' = IF e = Null THEN d ELSE entry_del(hm_delete(d, k), {e})
        /\ reply' = [cmd |-> "expire", key |-> k, val |-> out_int(val)]
        /\ now' = now
    BY <1>4, Zenon DEF do_expire, Reply
  <2>2. VisibleStore' = [VisibleStore EXCEPT ![k] = Absent] /\ Plain(db')
    BY <2>1, Removed, Zenon
  <2> QED
    BY <1>1, <1>3, <1>4, <2>1, <2>2, Zenon DEF Promised!Expire
<1>5. CASE n # Bad /\ e # Null /\ n > 0
  <2>1. n \in 1 .. Int64Max
    BY <1>5, ArgsAssumption, ClockAssumption
  <2>2. /\ reply' = [cmd |-> "expire", key |-> k, val |-> out_int(1)]
        /\ \E t \in now .. MaxNow :
             now' = t /\ db' = entry_set_ttl(d, e, ClampedMs(n, unit_ms), t)
    <3>1. ~ (n =< 0)
      BY <2>1
    <3> QED
      BY <1>5, <3>1, Zenon DEF do_expire, Reply
  <2>3. PICK t \in now .. MaxNow :
          now' = t /\ db' = entry_set_ttl(d, e, ClampedMs(n, unit_ms), t)
    BY <2>2
  <2> DEFINE ms == ClampedMs(n, unit_ms)
  <2>4. ms \in Nat \ {0} /\ Promised!Granted(n, unit_ms) = ms
    BY <2>1, GrantedMs, ClampNeverWraps
  <2> HIDE DEF ms, d
  <2>5. /\ VisibleStore'
             = Promised!Surviving([VisibleStore EXCEPT ![k].due = t + ms], t)
        /\ Plain(db')
    BY <1>0, <1>5, <2>3, <2>4, ExpireSeen DEF ms
  <2>6. Promised!AdvanceTo(
          [VisibleStore EXCEPT ![k].due = t + Promised!Granted(n, unit_ms)], t)
    BY <2>3, <2>4, <2>5, Zenon DEF Promised!AdvanceTo
  <2>7. Promised!Answer("expire", k, Promised!out_int(pval))
    BY <1>3, <1>5, <2>2
  <2> QED
    BY <1>1, <1>5, <2>3, <2>5, <2>6, <2>7, Zenon DEF Promised!Expire
<1> QED
  BY <1>2, <1>4, <1>5, Zenon

\* TTL and PTTL.
LEMMA TtlRefined ==
  ASSUME IInv, Plain(db), NEW k \in Keys, NEW in_ms \in BOOLEAN, do_ttl(k, in_ms)
  PROVE  Promised!Ttl(k, in_ms) /\ Plain(db')
<1> DEFINE d == lookup_entry(db, k, now)
           e == d.map[k]
           cmd == IF in_ms THEN "pttl" ELSE "ttl"
           rem(t) == IF d.ttl[e] > t THEN d.ttl[e] - t ELSE 0
           val(t) == IF e = Null THEN -2
                     ELSE IF ~ HasTimer(d, e) THEN -1
                     ELSE IF in_ms THEN rem(t)
                     ELSE (rem(t) + Second - 1) \div Second
           due == VisibleStore[k].due
           ms(t) == IF due > t THEN due - t ELSE 0
           pval(t) == IF ~ Promised!Exists(k) THEN -2
                      ELSE IF due = Promised!Never THEN -1
                      ELSE IF in_ms THEN ms(t) ELSE Promised!InSeconds(ms(t))
<1>1. /\ Consistent(d) /\ Plain(d) /\ Seen(d, now) = VisibleStore
      /\ Promised!Exists(k) <=> e # Null
      /\ e # Null => VisibleStore[k] = ItemAt(d, e) /\ d.ttl[e] \in Nat \cup {NoTimer}
  <2>1. d = lookup_entry(db, k, now) /\ e = d.map[k]
    OBVIOUS
  <2> HIDE DEF d, e
  <2>2. LookedUp(d, e, k)
    BY <2>1, Looked, Zenon
  <2> QED
    BY <2>2, Zenon DEF LookedUp
<1>2. now \in Int /\ now \in now .. MaxNow
  BY ClockAssumption DEF IInv
<1>3. PICK t \in now .. MaxNow :
        /\ now' = t
        /\ reply' = [cmd |-> cmd, key |-> k, val |-> out_int(val(t))]
  <2>1. CASE e = Null \/ ~ HasTimer(d, e)
    <3>1. now' = now /\ reply' = [cmd |-> cmd, key |-> k, val |-> out_int(val(now))]
      BY <2>1, Zenon DEF do_ttl, Reply
    <3> QED
      BY <1>2, <3>1, Zenon
  <2>2. CASE e # Null /\ HasTimer(d, e)
    BY <2>2, Zenon DEF do_ttl, Reply
  <2> QED
    BY <2>1, <2>2, Zenon
<1>4. db' = d
  BY Zenon DEF do_ttl
<1>5. t \in Int /\ now =< t
  BY <1>2, ClockAssumption
<1> HIDE DEF d, e
<1>6. val(t) = pval(t)
  <2>1. CASE e = Null
    BY <1>1, <2>1, Zenon
  <2>2. CASE e # Null
    <3>1. due = d.ttl[e]
      BY <1>1, <2>2 DEF ItemAt, ItemOf
    <3>2. rem(t) \in Nat /\ ms(t) = rem(t)
      <4>1. d.ttl[e] \in Int
        BY <1>1, <2>2 DEF NoTimer
      <4> HIDE DEF due
      <4> QED
        BY <1>5, <3>1, <4>1
    <3> HIDE DEF rem, ms, due
    <3>3. Promised!InSeconds(rem(t)) = (rem(t) + Second - 1) \div Second
      BY <3>2, WholeSeconds
    <3> QED
      BY <1>1, <2>2, <3>1, <3>2, <3>3, Zenon DEF HasTimer, NoTimer, Promised!Never
  <2> QED
    BY <2>1, <2>2, Zenon
<1>7. Promised!Answer(cmd, k, Promised!out_int(pval(t)))
  <2>1. reply' = [cmd |-> cmd, key |-> k, val |-> Promised!out_int(pval(t))]
    BY <1>3, <1>6, SameValues, Zenon
  <2> HIDE DEF pval, cmd
  <2> QED
    BY <2>1, Answered
<1>8. Promised!AdvanceTo(VisibleStore, t)
  <2>1. Seen(d, t) = Promised!Surviving(VisibleStore, t)
    BY <1>1, <1>2, <1>5, TimeSeen, Zenon
  <2> QED
    BY <1>3, <1>4, <2>1, StoreSeen, Zenon DEF Promised!AdvanceTo
<1> QED
  BY <1>1, <1>3, <1>4, <1>7, <1>8, Zenon DEF Promised!Ttl

-----------------------------------------------------------------------------
(* The sorted-set commands.                                                *)

(* Replacing the members of the sorted set found under a key replaces them *)
(* in the store, and nothing else.                                         *)
LEMMA MembersStored ==
  ASSUME IInv, Plain(db), NEW k \in Keys, NEW STATE d,
         d = lookup_entry(db, k, now), d.map[k] # Null,
         d.ent[d.map[k]].type = T_ZSET, NEW STATE z, now' = now,
         db' = [d EXCEPT !.ent[d.map[k]].zset = z]
  PROVE  /\ VisibleStore' = [VisibleStore EXCEPT ![k] =
              [type |-> "zset", str |-> EmptyStr, zset |-> z,
               due |-> VisibleStore[k].due]]
         /\ Plain(db')
<1> DEFINE e == d.map[k]
           ent == [d.ent[e] EXCEPT !.zset = z]
<1>1. /\ Consistent(d) /\ d \in Database /\ VisibleStore[k] = ItemAt(d, e)
      /\ e \in Addrs /\ d.ent[e] \in Entry /\ PlainEntry(d.ent[e])
      /\ ~ Overdue(d, e, now)
  <2>1. d = lookup_entry(db, k, now) /\ e = d.map[k] /\ e # Null
    OBVIOUS
  <2> HIDE DEF e
  <2>2. LookedUp(d, e, k)
    BY <2>1, Looked, Zenon
  <2> QED
    BY <2>1, <2>2, Zenon DEF LookedUp
<1>2. /\ ent.type = "zset" /\ ent.str = EmptyStr /\ ent.zset = z
      /\ PlainEntry(ent)
  BY <1>1, Zenon DEF PlainEntry, Entry, T_STR, T_ZSET
<1>3. db' = [d EXCEPT !.ent[e] = ent]
  BY <1>1 DEF Database
<1> HIDE DEF ent
<1>4. /\ db'.map = d.map /\ db'.ttl = d.ttl
      /\ db'.ent = [d.ent EXCEPT ![e] = ent]
  BY <1>1, <1>3, Zenon DEF Database
<1>5. Puts(db', d, k, e, ent, d.ttl[e], now)
  <2>1. ~ (d.ttl[e] # NoTimer /\ d.ttl[e] =< now)
    BY <1>1, Zenon DEF Overdue, HasTimer
  <2>2. d.map = [d.map EXCEPT ![k] = e] /\ d.ttl = [d.ttl EXCEPT ![e] = d.ttl[e]]
    BY <1>1 DEF Database
  <2> QED
    BY <1>1, <1>4, <2>1, <2>2, Zenon DEF Puts
<1>6. /\ VisibleStore' = [VisibleStore EXCEPT ![k] = ItemOf(ent, d.ttl[e])]
      /\ Plain(db')
  <2> HIDE DEF e
  <2> QED
    BY <1>2, <1>5, Stored, Zenon
<1>7. VisibleStore[k].due = d.ttl[e]
  <2>1. ItemAt(d, e).due = d.ttl[e]
    BY DEF ItemAt, ItemOf
  <2> QED
    BY <1>1, <2>1, Zenon
<1> QED
  BY <1>2, <1>6, <1>7, Zenon DEF ItemOf

\* ZADD.
LEMMA ZaddRefined ==
  ASSUME IInv, Plain(db), NEW k \in Keys, NEW name \in Names,
         NEW score \in Scores \cup {Bad}, do_zadd(k, score, name)
  PROVE  Promised!Zadd(k, score, name) /\ Plain(db')
<1> DEFINE d == lookup_entry(db, k, now)
           e == d.map[k]
           z == IF Promised!IsZset(k) THEN VisibleStore[k].zset
                ELSE Promised!EmptyZSet
           pval == IF score = Bad THEN Promised!out_err("ERR_ARG")
                   ELSE IF Promised!IsStr(k) THEN Promised!Wrong
                   ELSE Promised!out_int(IF z[name] = NoScore THEN 1 ELSE 0)
           new == [type |-> "zset", str |-> EmptyStr,
                   zset |-> [z EXCEPT ![name] = score],
                   due |-> IF Promised!Exists(k) THEN VisibleStore[k].due
                           ELSE Promised!Never]
<1>0. d = lookup_entry(db, k, now)
  OBVIOUS
<1>1. /\ Consistent(d) /\ d \in Database
      /\ Promised!Exists(k) <=> e # Null
      /\ Promised!IsStr(k) <=> e # Null /\ d.ent[e].type = T_STR
      /\ Promised!IsZset(k) <=> e # Null /\ d.ent[e].type = T_ZSET
      /\ e # Null => /\ VisibleStore[k] = ItemAt(d, e)
                     /\ e \in Addrs /\ d.ent[e] \in Entry
  <2>1. d = lookup_entry(db, k, now) /\ e = d.map[k]
    OBVIOUS
  <2> HIDE DEF d, e
  <2>2. LookedUp(d, e, k)
    BY <2>1, Looked, Zenon
  <2> QED
    BY <2>2, Zenon DEF LookedUp
<1>2. now' = now
  BY Zenon DEF do_zadd
<1>3. ASSUME reply' = [cmd |-> "zadd", key |-> k, val |-> pval],
             VisibleStore' = IF score = Bad \/ Promised!IsStr(k) THEN VisibleStore
                             ELSE [VisibleStore EXCEPT ![k] = new]
      PROVE  Promised!Zadd(k, score, name)
  <2>1. Promised!Answer("zadd", k, pval)
    <3> HIDE DEF pval
    <3> QED
      BY <1>3, Answered
  <2> QED
    BY <1>2, <1>3, <2>1, Zenon DEF Promised!Zadd
<1>4. CASE score = Bad
  <2>1. db' = db /\ reply' = [cmd |-> "zadd", key |-> k, val |-> out_err("ERR_ARG")]
    BY <1>4, Zenon DEF do_zadd, Reply
  <2>2. VisibleStore' = VisibleStore /\ Plain(db')
    BY <1>2, <2>1, StoreSeen
  <2>3. out_err("ERR_ARG") = pval
    BY <1>4, SameValues, Zenon
  <2> HIDE DEF pval, new
  <2> QED
    BY <1>3, <1>4, <2>1, <2>2, <2>3, Zenon
<1>5. CASE score # Bad /\ e # Null /\ d.ent[e].type # T_ZSET
  <2>1. db' = d /\ reply' = [cmd |-> "zadd", key |-> k, val |-> WrongType]
    BY <1>5, Zenon DEF do_zadd, Reply
  <2>2. VisibleStore' = VisibleStore /\ Plain(db')
    BY <1>2, <2>1, LookupOnly
  <2>3. Promised!IsStr(k)
    BY <1>1, <1>5, Zenon DEF Entry
  <2>4. WrongType = pval
    BY <1>5, <2>3, SameValues, Zenon
  <2> HIDE DEF pval, new
  <2> QED
    BY <1>3, <2>1, <2>2, <2>3, <2>4, Zenon
<1>6. CASE score # Bad /\ e # Null /\ d.ent[e].type = T_ZSET
  <2>1. /\ db' = [d EXCEPT !.ent[e].zset = zset_insert(@, name, score)]
        /\ reply' = [cmd |-> "zadd", key |-> k, val |->
             out_int(IF name \in Members(d.ent[e].zset) THEN 0 ELSE 1)]
    BY <1>6, Zenon DEF do_zadd, Reply
  <2>2. Promised!IsZset(k) /\ ~ Promised!IsStr(k) /\ Promised!Exists(k)
    BY <1>1, <1>6, Zenon DEF T_STR, T_ZSET
  <2>3. z = d.ent[e].zset
    <3>1. ItemAt(d, e).zset = d.ent[e].zset
      BY Zenon DEF ItemAt, ItemOf
    <3> QED
      BY <1>1, <1>6, <2>2, <3>1, Zenon
  <2> DEFINE y == [d.ent[e].zset EXCEPT ![name] = score]
  <2>4. db' = [d EXCEPT !.ent[e].zset = y]
    BY <2>1, Zenon DEF zset_insert
  <2>5. new = [type |-> "zset", str |-> EmptyStr, zset |-> y,
               due |-> VisibleStore[k].due]
    BY <2>2, <2>3, Zenon
  <2>6. name \in Members(d.ent[e].zset) <=> z[name] # NoScore
    BY <2>3, Zenon DEF Members
  <2>7. out_int(IF name \in Members(d.ent[e].zset) THEN 0 ELSE 1) = pval
    <3>1. (IF name \in Members(d.ent[e].zset) THEN 0 ELSE 1)
            = IF z[name] = NoScore THEN 1 ELSE 0
      BY <2>6, Zenon
    <3> QED
      BY <1>6, <2>2, <3>1, SameValues, Zenon
  <2> HIDE DEF d, y
  <2>8. VisibleStore' = [VisibleStore EXCEPT ![k] = new] /\ Plain(db')
    <3>1. /\ VisibleStore' = [VisibleStore EXCEPT ![k] =
               [type |-> "zset", str |-> EmptyStr, zset |-> y,
                due |-> VisibleStore[k].due]]
          /\ Plain(db')
      BY <1>0, <1>2, <1>6, <2>4, MembersStored, Zenon
    <3> QED
      BY <2>5, <3>1, Zenon
  <2> HIDE DEF pval, new
  <2> QED
    BY <1>3, <1>6, <2>1, <2>2, <2>7, <2>8, Zenon
<1>7. CASE score # Bad /\ e = Null
  <2> DEFINE y == zset_insert(EmptyZSet, name, score)
             ent == [key |-> k, type |-> T_ZSET, str |-> EmptyStr, zset |-> y]
  <2>1. PICK a \in Addrs : d.ent[a] = Freed /\ db' = hm_insert(d, a, ent)
    BY <1>7, Zenon DEF do_zadd
  <2>2. reply' = [cmd |-> "zadd", key |-> k, val |-> out_int(1)]
    BY <1>7, Zenon DEF do_zadd, Reply
  <2>3. ~ Promised!IsStr(k) /\ ~ Promised!IsZset(k) /\ ~ Promised!Exists(k)
    BY <1>1, <1>7, Zenon
  <2>4. z = EmptyZSet /\ z[name] = NoScore
    BY <2>3, SameValues, Zenon DEF EmptyZSet
  <2>5. new = [type |-> "zset", str |-> EmptyStr, zset |-> y, due |-> NoTimer]
    BY <2>3, <2>4, Zenon DEF NoTimer, Promised!Never, zset_insert
  <2>6. out_int(1) = pval
    BY <1>7, <2>3, <2>4, SameValues, Zenon
  <2>7. /\ ent.type = "zset" /\ ent.str = EmptyStr /\ ent.zset = y
        /\ PlainEntry(ent) /\ ent.key = k
    BY DEF PlainEntry, T_STR, T_ZSET
  <2> HIDE DEF d, ent, y
  <2>8. Puts(db', d, k, a, ent, NoTimer, now)
    <3>1. Puts(hm_insert(d, a, ent), d, ent.key, a, ent, NoTimer, now)
      BY <1>1, <2>1, InsertPuts, Zenon
    <3> QED
      BY <2>1, <2>7, <3>1
  <2>9. VisibleStore' = [VisibleStore EXCEPT ![k] = new] /\ Plain(db')
    <3>1. /\ VisibleStore' = [VisibleStore EXCEPT ![k] = ItemOf(ent, NoTimer)]
          /\ Plain(db')
      BY <1>0, <1>2, <2>7, <2>8, Stored
    <3>2. ItemOf(ent, NoTimer) = new
      BY <2>5, <2>7, Zenon DEF ItemOf
    <3> QED
      BY <3>1, <3>2, Zenon
  <2> HIDE DEF pval, new
  <2> QED
    BY <1>3, <1>7, <2>2, <2>3, <2>6, <2>9, Zenon
<1> QED
  BY <1>4, <1>5, <1>6, <1>7, Zenon

\* Giving an item the members it has.
LEMMA SameMembers ==
  ASSUME NEW ent, NEW due
  PROVE  [ItemOf(ent, due) EXCEPT !.zset = ent.zset] = ItemOf(ent, due)
BY DEF ItemOf

\* ZREM.
LEMMA ZremRefined ==
  ASSUME IInv, Plain(db), NEW k \in Keys, NEW name \in Names, do_zrem(k, name)
  PROVE  Promised!Zrem(k, name) /\ Plain(db')
<1> DEFINE d == lookup_entry(db, k, now)
           e == d.map[k]
           isset == e # Null /\ d.ent[e].type = T_ZSET
           found == isset /\ name \in Members(d.ent[e].zset)
           val == IF e # Null /\ ~ isset THEN WrongType
                  ELSE out_int(IF found THEN 1 ELSE 0)
           pfound == Promised!IsZset(k) /\ VisibleStore[k].zset[name] # NoScore
           pval == IF Promised!IsStr(k) THEN Promised!Wrong
                   ELSE Promised!out_int(IF pfound THEN 1 ELSE 0)
           y == [d.ent[e].zset EXCEPT ![name] = NoScore]
<1>0. d = lookup_entry(db, k, now)
  OBVIOUS
<1>1. /\ Consistent(d) /\ d \in Database
      /\ Promised!IsStr(k) <=> e # Null /\ d.ent[e].type = T_STR
      /\ Promised!IsZset(k) <=> e # Null /\ d.ent[e].type = T_ZSET
      /\ e # Null => /\ VisibleStore[k] = ItemAt(d, e)
                     /\ e \in Addrs /\ d.ent[e] \in Entry /\ PlainEntry(d.ent[e])
  <2>1. d = lookup_entry(db, k, now) /\ e = d.map[k]
    OBVIOUS
  <2> HIDE DEF d, e
  <2>2. LookedUp(d, e, k)
    BY <2>1, Looked, Zenon
  <2> QED
    BY <2>2, Zenon DEF LookedUp
<1>2. /\ db' = IF found THEN [d EXCEPT !.ent[e].zset = y] ELSE d
      /\ reply' = [cmd |-> "zrem", key |-> k, val |-> val] /\ now' = now
  BY Zenon DEF do_zrem, Reply, zset_delete
<1>3. ItemAt(d, e).zset = d.ent[e].zset
  BY Zenon DEF ItemAt, ItemOf
<1>4. pfound <=> found
  BY <1>1, <1>3, Zenon DEF Members
<1>5. Promised!IsStr(k) <=> e # Null /\ ~ isset
  BY <1>1, Zenon DEF Entry, T_STR, T_ZSET
<1>6. Promised!Answer("zrem", k, pval)
  <2>1. val = pval
    <3> HIDE DEF found, pfound, isset
    <3> QED
      BY <1>4, <1>5, SameValues, Zenon
  <2> HIDE DEF val, pval
  <2> QED
    BY <1>2, <2>1, Answered, Zenon
<1>7. isset => [VisibleStore EXCEPT ![k].zset[name] = NoScore]
                 = [VisibleStore EXCEPT ![k] = [type |-> "zset", str |-> EmptyStr,
                      zset |-> y, due |-> VisibleStore[k].due]]
  <2>1. ASSUME isset
        PROVE  [ItemAt(d, e) EXCEPT !.zset = y]
                 = [type |-> "zset", str |-> EmptyStr, zset |-> y,
                    due |-> ItemAt(d, e).due]
    <3>1. d.ent[e].type = "zset" /\ d.ent[e].str = EmptyStr
      BY <1>1, <2>1, Zenon DEF PlainEntry, T_ZSET
    <3> HIDE DEF y, e
    <3> QED
      BY <3>1 DEF ItemAt, ItemOf
  <2> HIDE DEF d
  <2> QED
    BY <1>1, <1>3, <2>1, Zenon
<1>8. /\ VisibleStore' = IF isset THEN [VisibleStore EXCEPT ![k].zset[name] = NoScore]
                         ELSE VisibleStore
      /\ Plain(db')
  <2>1. CASE found
    <3> HIDE DEF d, y
    <3>1. /\ VisibleStore' = [VisibleStore EXCEPT ![k] = [type |-> "zset",
               str |-> EmptyStr, zset |-> y, due |-> VisibleStore[k].due]]
          /\ Plain(db')
      BY <1>0, <1>2, <2>1, MembersStored, Zenon
    <3> QED
      BY <1>7, <2>1, <3>1, Zenon
  <2>2. CASE ~ found
    <3>1. VisibleStore' = VisibleStore /\ Plain(db')
      BY <1>2, <2>2, LookupOnly, Zenon
    <3>2. isset => y = d.ent[e].zset
      <4>1. isset => d.ent[e].zset \in ZSet
        BY <1>1, Zenon DEF Entry
      <4>2. isset => d.ent[e].zset[name] = NoScore
        BY <2>2, Zenon DEF Members
      <4> QED
        BY <4>1, <4>2, Zenon DEF ZSet
    <3>3. isset => [VisibleStore EXCEPT ![k].zset[name] = NoScore] = VisibleStore
      <4>1. isset => VisibleStore[k].zset = d.ent[e].zset
        BY <1>1, <1>3, Zenon
      <4>2. isset => [ItemAt(d, e) EXCEPT !.zset = d.ent[e].zset] = ItemAt(d, e)
        BY SameMembers, Zenon DEF ItemAt
      <4>3. isset => [VisibleStore[k] EXCEPT !.zset[name] = NoScore] = VisibleStore[k]
        <5> HIDE DEF d
        <5> QED
          BY <1>1, <3>2, <4>1, <4>2, Zenon
      <4>4. [VisibleStore EXCEPT ![k] = VisibleStore[k]] = VisibleStore
        BY Zenon DEF VisibleStore
      <4> QED
        BY <4>3, <4>4, Zenon
    <3> QED
      BY <3>1, <3>3, Zenon
  <2> QED
    BY <2>1, <2>2, Zenon
<1> QED
  BY <1>1, <1>2, <1>6, <1>8, Zenon DEF Promised!Zrem

\* ZSCORE.
LEMMA ZscoreRefined ==
  ASSUME IInv, Plain(db), NEW k \in Keys, NEW name \in Names, do_zscore(k, name)
  PROVE  Promised!Zscore(k, name) /\ Plain(db')
<1> DEFINE d == lookup_entry(db, k, now)
           e == d.map[k]
           isset == e # Null /\ d.ent[e].type = T_ZSET
           found == isset /\ name \in Members(d.ent[e].zset)
           val == IF e # Null /\ ~ isset THEN WrongType
                  ELSE IF found THEN out_dbl(d.ent[e].zset[name]) ELSE out_nil
           pfound == Promised!IsZset(k) /\ VisibleStore[k].zset[name] # NoScore
           pval == IF Promised!IsStr(k) THEN Promised!Wrong
                   ELSE IF pfound THEN Promised!out_dbl(VisibleStore[k].zset[name])
                   ELSE Promised!out_nil
<1>1. /\ Promised!IsStr(k) <=> e # Null /\ d.ent[e].type = T_STR
      /\ Promised!IsZset(k) <=> e # Null /\ d.ent[e].type = T_ZSET
      /\ e # Null => VisibleStore[k] = ItemAt(d, e) /\ d.ent[e] \in Entry
  <2>1. d = lookup_entry(db, k, now) /\ e = d.map[k]
    OBVIOUS
  <2> HIDE DEF d, e
  <2>2. LookedUp(d, e, k)
    BY <2>1, Looked, Zenon
  <2> QED
    BY <2>2, Zenon DEF LookedUp
<1>2. db' = d /\ now' = now /\ reply' = [cmd |-> "zscore", key |-> k, val |-> val]
  BY Zenon DEF do_zscore, Reply
<1>3. ItemAt(d, e).zset = d.ent[e].zset
  BY Zenon DEF ItemAt, ItemOf
<1>4. pfound <=> found
  BY <1>1, <1>3, Zenon DEF Members
<1>5. Promised!IsStr(k) <=> e # Null /\ ~ isset
  BY <1>1, Zenon DEF Entry, T_STR, T_ZSET
<1>6. found => VisibleStore[k].zset[name] = d.ent[e].zset[name]
  BY <1>1, <1>3, Zenon
<1>7. Promised!Answer("zscore", k, pval)
  <2>1. val = pval
    <3> HIDE DEF found, pfound, isset
    <3> QED
      BY <1>4, <1>5, <1>6, SameValues, Zenon
  <2> HIDE DEF val, pval
  <2> QED
    BY <1>2, <2>1, Answered
<1>8. VisibleStore' = VisibleStore /\ Plain(db')
  BY <1>2, LookupOnly, Zenon
<1> QED
  BY <1>2, <1>7, <1>8, Zenon DEF Promised!Zscore

-----------------------------------------------------------------------------
(* ZQUERY.  The ranks of the pairs of a sorted set number them in order,   *)
(* so that walking from rank to rank emits the range in order.             *)

\* An injection into a finite set of the same size reaches every element.
LEMMA Injective ==
  ASSUME NEW S, NEW T, IsFiniteSet(T), NEW f \in [S -> T],
         \A a, b \in S : f[a] = f[b] => a = b
  PROVE  /\ IsFiniteSet(S)
         /\ Cardinality(S) = Cardinality(T) <=> \A y \in T : \E x \in S : f[x] = y
<1>1. f \in Injection(S, T)
  BY DEF Injection, IsInjective
<1>2. f \in Surjection(S, T) <=> \A y \in T : \E x \in S : f[x] = y
  BY DEF Surjection
<1> QED
  BY <1>1, <1>2, FS_Injection

\* A set of numbers that is not empty has a least one.
LEMMA LeastNat ==
  ASSUME NEW S \in SUBSET Nat, S # {}
  PROVE  \E m \in S : \A x \in S : m =< x
<1> DEFINE lt == {ss \in Nat \X Nat : ss[1] < ss[2]}
<1>1. IsWellFoundedOn(lt, Nat)
  BY NatLessThanWellFounded, Zenon DEF OpToRel
<1>2. PICK m \in S : \A x \in S : ~ (<<x, m>> \in lt)
  <2> HIDE DEF lt
  <2> QED
    BY <1>1, WFMin, Zenon
<1>3. \A x \in S : ~ (x < m)
  BY <1>2, Zenon
<1> QED
  BY <1>3

Points == Int \X Nat

\* zless is a strict total order.
LEMMA Order ==
  /\ \A p \in Points : ~ zless(p, p)
  /\ \A p, q \in Points : p = q \/ zless(p, q) \/ zless(q, p)
  /\ \A p, q, r \in Points : zless(p, q) /\ zless(q, r) => zless(p, r)
<1>1. \A p \in Points : p[1] \in Int /\ p[2] \in Int
  BY DEF Points
<1>2. \A p, q \in Points : p[1] = q[1] /\ p[2] = q[2] => p = q
  BY DEF Points
<1> HIDE DEF Points
<1> QED
  BY <1>1, <1>2 DEF zless

\* The pairs of a sorted set are points, finitely many, one for each member.
LEMMA PairsCounted ==
  ASSUME NEW z \in ZSet
  PROVE  /\ Pairs(z) \subseteq Points /\ IsFiniteSet(Pairs(z))
         /\ hm_size(z) \in Nat /\ Cardinality(Pairs(z)) = hm_size(z)
<1> DEFINE M == Members(z)
           f == [p \in Pairs(z) |-> p[2]]
<1>1. IsFiniteSet(M) /\ Cardinality(M) \in Nat
  <2>1. M \in SUBSET Names
    BY DEF Members
  <2> QED
    BY <2>1, NamesAssumption, FS_Subset, FS_CardinalityType
<1>2. \A n \in M : z[n] \in Int /\ n \in Nat
  BY NamesAssumption, ScoresAssumption, Zenon DEF Members, ZSet
<1>3. Pairs(z) \subseteq Points
  BY <1>2 DEF Pairs, Points
<1>4. \A p \in Pairs(z) : p[2] \in M /\ p = <<z[p[2]], p[2]>>
  BY DEF Pairs
<1>5. f \in [Pairs(z) -> M]
  BY <1>4
<1>6. \A a, b \in Pairs(z) : f[a] = f[b] => a = b
  BY <1>4, Zenon
<1>7. \A y \in M : \E x \in Pairs(z) : f[x] = y
  <2>1. ASSUME NEW y \in M PROVE <<z[y], y>> \in Pairs(z) /\ <<z[y], y>>[2] = y
    BY DEF Pairs
  <2> QED
    BY <2>1, Zenon
<1> HIDE DEF f, M
<1>8. IsFiniteSet(Pairs(z)) /\ Cardinality(Pairs(z)) = Cardinality(M)
  BY <1>1, <1>5, <1>6, <1>7, Injective
<1> QED
  BY <1>1, <1>3, <1>8 DEF hm_size, M

\* A rank counts some of the pairs: all of them for a point past the last.
LEMMA RankRange ==
  ASSUME NEW z \in ZSet, NEW p \in Points
  PROVE  /\ Rank(z, p) \in 0 .. hm_size(z)
         /\ Rank(z, p) \in ValidRanks(z) <=> \E r \in Pairs(z) : ~ zless(r, p)
<1> DEFINE B == {q \in Pairs(z) : zless(q, p)}
<1>1. B \in SUBSET Pairs(z)
  OBVIOUS
<1>2. /\ IsFiniteSet(Pairs(z)) /\ Cardinality(Pairs(z)) = hm_size(z)
      /\ hm_size(z) \in Nat
  BY PairsCounted
<1>3. B = Pairs(z) <=> ~ \E r \in Pairs(z) : ~ zless(r, p)
  BY Zenon
<1>4. Rank(z, p) = Cardinality(B)
  BY DEF Rank
<1> HIDE DEF B
<1>5. /\ Cardinality(B) \in Nat /\ Cardinality(B) =< hm_size(z)
      /\ Cardinality(B) = hm_size(z) <=> B = Pairs(z)
  BY <1>1, <1>2, FS_Subset, FS_CardinalityType
<1>6. Rank(z, p) \in ValidRanks(z) <=> Cardinality(B) # hm_size(z)
  BY <1>2, <1>4, <1>5 DEF ValidRanks
<1>7. Rank(z, p) \in 0 .. hm_size(z)
  BY <1>2, <1>4, <1>5
<1> QED
  BY <1>3, <1>5, <1>6, <1>7, Zenon

\* A pair has a smaller rank than the pairs after it.
LEMMA RankGrows ==
  ASSUME NEW z \in ZSet, NEW p \in Pairs(z), NEW q \in Pairs(z), zless(p, q)
  PROVE  Rank(z, p) < Rank(z, q)
<1> DEFINE B(x) == {r \in Pairs(z) : zless(r, x)}
<1>1. Pairs(z) \subseteq Points /\ IsFiniteSet(Pairs(z))
  BY PairsCounted
<1>2. B(p) \in SUBSET B(q) /\ B(p) # B(q)
  <2>1. \A r \in Pairs(z) : zless(r, p) => zless(r, q)
    BY <1>1, Order, Zenon
  <2>2. p \in B(q) /\ p \notin B(p)
    BY <1>1, Order
  <2> QED
    BY <2>1, <2>2, Zenon
<1>3. B(q) \in SUBSET Pairs(z)
  OBVIOUS
<1>4. Rank(z, p) = Cardinality(B(p)) /\ Rank(z, q) = Cardinality(B(q))
  BY DEF Rank
<1> HIDE DEF B
<1>5. IsFiniteSet(B(q)) /\ IsFiniteSet(B(p))
  BY <1>1, <1>2, <1>3, FS_Subset
<1>6. /\ Cardinality(B(p)) \in Nat /\ Cardinality(B(q)) \in Nat
      /\ Cardinality(B(p)) =< Cardinality(B(q))
      /\ Cardinality(B(p)) # Cardinality(B(q))
  BY <1>2, <1>5, FS_Subset, FS_CardinalityType
<1> QED
  BY <1>4, <1>6

\* The rank of a pair is valid, and orders the pairs as zless does.
LEMMA RankOrders ==
  ASSUME NEW z \in ZSet, NEW p \in Pairs(z)
  PROVE  /\ Rank(z, p) \in ValidRanks(z)
         /\ \A q \in Pairs(z) : /\ Rank(z, p) = Rank(z, q) => p = q
                                /\ Rank(z, p) < Rank(z, q) => zless(p, q)
<1>1. Pairs(z) \subseteq Points /\ p \in Points
  BY PairsCounted
<1>2. Rank(z, p) \in ValidRanks(z)
  BY <1>1, RankRange, Order, Zenon
<1>3. ASSUME NEW q \in Pairs(z)
      PROVE  /\ Rank(z, p) = Rank(z, q) => p = q
             /\ Rank(z, p) < Rank(z, q) => zless(p, q)
  <2>1. p = q \/ zless(p, q) \/ zless(q, p)
    BY <1>1, Order, Zenon
  <2>2. Rank(z, p) \in Int /\ Rank(z, q) \in Int
    BY <1>1, RankRange
  <2>3. zless(p, q) => Rank(z, p) < Rank(z, q)
    BY RankGrows
  <2>4. zless(q, p) => Rank(z, q) < Rank(z, p)
    BY RankGrows
  <2> QED
    BY <2>1, <2>2, <2>3, <2>4
<1> QED
  BY <1>2, <1>3

\* Every valid rank is the rank of one pair, which PairAt finds.
LEMMA PairAtRank ==
  ASSUME NEW z \in ZSet, NEW r \in ValidRanks(z)
  PROVE  /\ PairAt(z, r) \in Pairs(z) /\ Rank(z, PairAt(z, r)) = r
         /\ \A q \in Pairs(z) : Rank(z, q) = r => PairAt(z, r) = q
<1> DEFINE P == Pairs(z)
           f == [p \in P |-> Rank(z, p)]
<1>1. f \in [P -> ValidRanks(z)]
  BY RankOrders
<1>2. \A a, b \in P : f[a] = f[b] => a = b
  BY RankOrders
<1>3. IsFiniteSet(ValidRanks(z)) /\ Cardinality(ValidRanks(z)) = Cardinality(P)
  <2>1. hm_size(z) \in Nat /\ Cardinality(P) = hm_size(z)
    BY PairsCounted
  <2>2. /\ IsFiniteSet(0 .. hm_size(z) - 1)
        /\ Cardinality(0 .. hm_size(z) - 1)
             = IF 0 > hm_size(z) - 1 THEN 0 ELSE hm_size(z) - 1 - 0 + 1
    <3>1. 0 \in Int /\ hm_size(z) - 1 \in Int
      BY <2>1
    <3> QED
      BY <3>1, FS_Interval, Zenon
  <2> QED
    BY <2>1, <2>2 DEF ValidRanks
<1>4. \A x \in P : f[x] = Rank(z, x)
  OBVIOUS
<1> HIDE DEF f, P
<1>5. \A y \in ValidRanks(z) : \E p \in P : f[p] = y
  BY <1>1, <1>2, <1>3, Injective
<1>6. \E p \in P : Rank(z, p) = r
  BY <1>4, <1>5
<1>7. PairAt(z, r) \in P /\ Rank(z, PairAt(z, r)) = r
  BY <1>6, Zenon DEF PairAt, P
<1> QED
  BY <1>7, RankOrders DEF P

\* g lists the elements of S in ascending order.
Lists(g, S) ==
  /\ g \in [1 .. Cardinality(S) -> S]
  /\ \A i, j \in 1 .. Cardinality(S) : i < j => zless(g[i], g[j])

\* An ascending list of the right length reaches every element, once.
LEMMA ListsAll ==
  ASSUME NEW S \in SUBSET Points, IsFiniteSet(S), NEW g, Lists(g, S)
  PROVE  \A q \in S : \E i \in 1 .. Cardinality(S) : g[i] = q
<1> DEFINE N == Cardinality(S)
           D == 1 .. N
<1>1. N \in Nat
  BY FS_CardinalityType
<1>2. ASSUME NEW a \in D, NEW b \in D, g[a] = g[b] PROVE a = b
  <2>1. g[a] \in Points /\ ~ zless(g[a], g[a])
    BY Order DEF Lists
  <2>2. ~ (a < b) /\ ~ (b < a)
    BY <1>2, <2>1 DEF Lists
  <2> QED
    BY <1>1, <2>2
<1>3. Cardinality(D) = Cardinality(S)
  <2>1. Cardinality(1 .. N) = IF 1 > N THEN 0 ELSE N - 1 + 1
    <3>1. 1 \in Int /\ N \in Int
      BY <1>1
    <3> HIDE DEF N
    <3> QED
      BY <3>1, FS_Interval, Zenon
  <2> HIDE DEF N
  <2>2. Cardinality(D) = N
    BY <1>1, <2>1
  <2> QED
    BY <2>2 DEF N
<1>4. g \in [D -> S]
  BY DEF Lists
<1> HIDE DEF D
<1>5. \A q \in S : \E i \in D : g[i] = q
  BY <1>2, <1>3, <1>4, Injective
<1> QED
  BY <1>5 DEF D

\* Two such lists agree: neither can be the first to skip an element.
LEMMA ListsSkip ==
  ASSUME NEW S \in SUBSET Points, IsFiniteSet(S), NEW g, Lists(g, S),
         NEW f, Lists(f, S), NEW i \in 1 .. Cardinality(S),
         \A j \in 1 .. Cardinality(S) : j < i => f[j] = g[j]
  PROVE  ~ zless(f[i], g[i])
<1> DEFINE N == Cardinality(S)
<1>1. N \in Nat
  BY FS_CardinalityType
<1>2. SUFFICES ASSUME zless(f[i], g[i]) PROVE FALSE
  OBVIOUS
<1>3. f[i] \in S /\ g[i] \in S
  BY DEF Lists
<1>4. PICK j \in 1 .. N : g[j] = f[i]
  BY <1>3, ListsAll
<1>5. g[j] \in S /\ f[j] \in S
  BY <1>4 DEF Lists
<1>6. ~ (j < i)
  <2>1. SUFFICES ASSUME j < i PROVE FALSE
    OBVIOUS
  <2>2. f[j] = f[i] /\ zless(f[j], f[i])
    BY <1>4, <2>1 DEF Lists
  <2> QED
    BY <1>3, <2>2, Order
<1>7. j # i
  BY <1>2, <1>3, <1>4, Order
<1>8. i < j
  BY <1>1, <1>4, <1>6, <1>7
<1>9. zless(g[i], g[j])
  BY <1>4, <1>8 DEF Lists
<1> QED
  BY <1>2, <1>3, <1>4, <1>9, Order, Zenon

\* So there is one ascending list of a set, and it is the abstract one.
LEMMA ListsOnce ==
  ASSUME NEW S \in SUBSET Points, IsFiniteSet(S), NEW g, Lists(g, S)
  PROVE  Promised!Ascending(S) = g
<1> DEFINE N == Cardinality(S)
<1>1. N \in Nat
  BY FS_CardinalityType
<1>3. Promised!Ascending(S) = CHOOSE x \in [1 .. N -> S] :
        \A i, j \in 1 .. N : i < j => zless(x[i], x[j])
  BY SameValues, Zenon DEF Promised!Ascending
<1>4. ASSUME NEW x, Lists(x, S) PROVE x = g
  <2> DEFINE Differ == {i \in 1 .. N : x[i] # g[i]}
  <2>1. Differ = {}
    <3>1. SUFFICES ASSUME Differ # {} PROVE FALSE
      OBVIOUS
    <3>2. Differ \in SUBSET Nat
      BY <1>1
    <3>3. PICK i \in Differ : \A j \in Differ : i =< j
      BY <3>1, <3>2, LeastNat, Zenon
    <3>4. i \in 1 .. N /\ x[i] # g[i]
      OBVIOUS
    <3>5. \A j \in 1 .. N : j < i => x[j] = g[j]
      BY <1>1, <3>3, <3>4
    <3>6. ~ zless(x[i], g[i]) /\ ~ zless(g[i], x[i])
      BY <1>4, <3>4, <3>5, ListsSkip
    <3>7. x[i] \in Points /\ g[i] \in Points
      BY <1>4, <3>4 DEF Lists
    <3> QED
      BY <3>4, <3>6, <3>7, Order, Zenon
  <2>2. \A i \in 1 .. N : x[i] = g[i]
    BY <2>1
  <2>3. x \in [1 .. N -> S] /\ g \in [1 .. N -> S]
    BY <1>4 DEF Lists
  <2> HIDE DEF N
  <2>4. x = [i \in 1 .. N |-> x[i]] /\ g = [i \in 1 .. N |-> g[i]]
    BY <2>3
  <2> QED
    BY <2>2, <2>4, Zenon
<1>5. (CHOOSE x \in [1 .. N -> S] : \A i, j \in 1 .. N : i < j => zless(x[i], x[j])) = g
  BY <1>4, Zenon DEF Lists
<1> QED
  BY <1>3, <1>5, Zenon

(* The loop of do_zquery, started at a valid rank, emits a list of the     *)
(* pairs it is to emit, in ascending order and without gaps.               *)
LEMMA EmitLists ==
  ASSUME NEW z \in ZSet, NEW r \in ValidRanks(z), NEW limit \in Nat \ {0}, NEW S,
         S = {q \in Pairs(z) : Rank(z, q) >= r /\ 2 * (Rank(z, q) - r) < limit}
  PROVE  Lists(EmitFrom(z, r, limit), S)
<1> DEFINE size == hm_size(z)
           I == {i \in 0 .. size - 1 - r : 2 * i < limit}
           half == (limit + 1) \div 2
           N == IF half < size - r THEN half ELSE size - r
           g == [i \in 1 .. N |-> PairAt(z, r + i - 1)]
<1>1. size \in Nat /\ r \in 0 .. size - 1
  BY PairsCounted DEF ValidRanks
<1> HIDE DEF size
<1>2. N \in Nat \ {0} /\ I = 0 .. N - 1
  BY <1>1
<1>2a. \A x \in Int : 0 =< x /\ x =< N - 1
                       <=> 0 =< x /\ x =< size - 1 - r /\ 2 * x < limit
  BY <1>1
<1>3. Cardinality(I) = N
  <2> HIDE DEF N, I
  <2>1. 0 \in Int /\ N - 1 \in Int /\ ~ (0 > N - 1) /\ N - 1 - 0 + 1 = N
    BY <1>2
  <2>2. Cardinality(0 .. N - 1) = IF 0 > N - 1 THEN 0 ELSE N - 1 - 0 + 1
    BY <2>1, FS_Interval, Zenon
  <2> QED
    BY <1>2, <2>1, <2>2, Zenon
<1>4. EmitFrom(z, r, limit) = g
  BY <1>3, Zenon DEF EmitFrom, size
<1>5. \A i \in 1 .. N : g[i] = PairAt(z, r + i - 1)
  OBVIOUS
<1> HIDE DEF g, N, I
<1>6. ASSUME NEW i \in 1 .. N
      PROVE  /\ g[i] \in Pairs(z) /\ Rank(z, g[i]) = r + i - 1
             /\ r + i - 1 >= r /\ 2 * (r + i - 1 - r) < limit
  <2>1. i \in Int /\ i - 1 \in Int /\ 0 =< i - 1 /\ i - 1 =< N - 1
    BY <1>2
  <2>2. i - 1 =< size - 1 - r /\ 2 * (i - 1) < limit
    BY <1>2a, <2>1
  <2>3. r + i - 1 >= r /\ 2 * (r + i - 1 - r) < limit
    BY <1>1, <2>1, <2>2
  <2>4. r + i - 1 \in 0 .. size - 1
    BY <1>1, <2>1, <2>2
  <2>5. PairAt(z, r + i - 1) \in Pairs(z) /\ Rank(z, PairAt(z, r + i - 1)) = r + i - 1
    BY <2>4, PairAtRank, Zenon DEF ValidRanks, size
  <2> QED
    BY <1>5, <2>3, <2>5, Zenon
<1>7. ASSUME NEW i \in 1 .. N PROVE g[i] \in S
  <2>1. r + i - 1 >= r /\ 2 * (r + i - 1 - r) < limit
    BY <1>6, Zenon
  <2>2. Rank(z, g[i]) >= r /\ 2 * (Rank(z, g[i]) - r) < limit
    <3>1. Rank(z, g[i]) = r + i - 1
      BY <1>6, Zenon
    <3>2. r \in Int /\ i \in Int
      BY <1>1, <1>2
    <3> QED
      BY <2>1, <3>1, <3>2
  <2> QED
    BY <1>6, <2>2, Zenon
<1>8. ASSUME NEW q \in S PROVE \E i \in 1 .. N : g[i] = q
  <2> DEFINE i == Rank(z, q) - r + 1
  <2>1. q \in Pairs(z) /\ Rank(z, q) >= r /\ 2 * (Rank(z, q) - r) < limit
    OBVIOUS
  <2>2. Rank(z, q) \in ValidRanks(z)
    BY <2>1, RankOrders
  <2>3. i \in 1 .. N /\ r + i - 1 = Rank(z, q)
    <3>1. Rank(z, q) \in 0 .. size - 1
      BY <2>2 DEF ValidRanks, size
    <3>2. Rank(z, q) - r =< N - 1
      BY <1>1, <1>2a, <2>1, <3>1
    <3> QED
      BY <1>1, <1>2, <2>1, <3>1, <3>2
  <2>4. PairAt(z, Rank(z, q)) = q
    BY <2>1, <2>2, PairAtRank
  <2> HIDE DEF i
  <2> QED
    BY <1>5, <2>3, <2>4, Zenon
<1>9. ASSUME NEW i \in 1 .. N, NEW j \in 1 .. N, i < j PROVE zless(g[i], g[j])
  <2>1. Rank(z, g[i]) = r + i - 1 /\ Rank(z, g[j]) = r + j - 1
    BY <1>6, Zenon
  <2>2. r + i - 1 < r + j - 1
    BY <1>1, <1>2, <1>9
  <2>3. Rank(z, g[i]) < Rank(z, g[j])
    BY <2>1, <2>2, Zenon
  <2> QED
    BY <1>6, <2>3, RankOrders, Zenon
<1>10. S \in SUBSET Pairs(z) /\ IsFiniteSet(S)
  BY PairsCounted, FS_Subset
<1>11. g \in [1 .. N -> S]
  BY <1>7, Zenon DEF g
<1>12. Cardinality(S) = N
  <2>1. \A i, j \in 1 .. N : g[i] = g[j] => i = j
    <3>1. ASSUME NEW i \in 1 .. N, NEW j \in 1 .. N, g[i] = g[j] PROVE i = j
      <4>1. r + i - 1 = r + j - 1
        BY <1>6, <3>1, Zenon
      <4> QED
        BY <1>1, <1>2, <4>1
    <3> QED
      BY <3>1, Zenon
  <2>2. \A q \in S : \E i \in 1 .. N : g[i] = q
    BY <1>8, Zenon
  <2>3. Cardinality(1 .. N) = Cardinality(S)
    <3> DEFINE D == 1 .. N
    <3>1. /\ g \in [D -> S] /\ \A i, j \in D : g[i] = g[j] => i = j
          /\ \A q \in S : \E i \in D : g[i] = q
      BY <1>11, <2>1, <2>2, Zenon
    <3> HIDE DEF D
    <3>2. Cardinality(D) = Cardinality(S)
      BY <1>10, <3>1, Injective
    <3> QED
      BY <3>2 DEF D
  <2>4. Cardinality(1 .. N) = IF 1 > N THEN 0 ELSE N - 1 + 1
    <3>1. 1 \in Int /\ N \in Int
      BY <1>2
    <3> QED
      BY <3>1, FS_Interval, Zenon
  <2> QED
    BY <1>2, <2>3, <2>4
<1> QED
  BY <1>4, <1>9, <1>11, <1>12, Zenon DEF Lists

(* A ZQUERY emits the pairs of its range, in ascending order: what the     *)
(* seek, the walk by offset and the loop do is what InRange says.          *)
LEMMA ZqueryExact ==
  ASSUME NEW z \in ZSet, NEW score \in Scores, NEW name \in Names,
         NEW offset \in Int, NEW limit \in Int, limit % 2 = 0
  PROVE  ZqueryPairs(z, score, name, offset, limit)
           = Promised!Ascending(Promised!InRange(z, <<score, name>>, offset, limit))
<1> DEFINE p == <<score, name>>
           first == Rank(z, p)
           r == first + offset
           S == Promised!InRange(z, p, offset, limit)
           start == SeekOffset(z, p, offset)
<1>1. p \in Points
  BY NamesAssumption, ScoresAssumption DEF Points
<1>2. S = {q \in Pairs(z) : /\ \E x \in Pairs(z) : ~ zless(x, p)
                            /\ r >= 0 /\ Rank(z, q) >= r
                            /\ 2 * (Rank(z, q) - r) < limit}
  <2>1. \A x \in Int : 2 * x + 2 =< limit <=> 2 * x < limit
    OBVIOUS
  <2>2. \A q \in Pairs(z) : Rank(z, q) - r \in Int
    <3>1. \A q \in Pairs(z) : Rank(z, q) \in Int
      BY RankOrders, PairsCounted DEF ValidRanks
    <3>2. r \in Int
      BY <1>1, RankRange
    <3> QED
      BY <3>1, <3>2
  <2>3. S = {q \in Pairs(z) : /\ \E x \in Pairs(z) : ~ zless(x, p)
                              /\ r >= 0 /\ Rank(z, q) >= r
                              /\ 2 * (Rank(z, q) - r) + 2 =< limit}
    BY SameValues, Zenon DEF Promised!InRange
  <2> HIDE DEF S, r, p
  <2> QED
    BY <2>1, <2>2, <2>3, Zenon
<1>3. start = {x \in ValidRanks(z) : first \in ValidRanks(z) /\ x = r}
  BY Zenon DEF SeekOffset
<1>4. /\ first \in Int /\ r \in Int /\ hm_size(z) \in Nat
      /\ first \in ValidRanks(z) <=> \E x \in Pairs(z) : ~ zless(x, p)
  BY <1>1, RankRange, PairsCounted
<1>5. \A q \in Pairs(z) : Rank(z, q) \in ValidRanks(z)
  BY RankOrders
<1>6. Pairs(z) \subseteq Points /\ IsFiniteSet(Pairs(z))
  BY PairsCounted
<1> HIDE DEF p, r, first, S, start
<1>7. S \in SUBSET Points /\ IsFiniteSet(S)
  <2>1. S \in SUBSET Pairs(z)
    BY <1>2
  <2> QED
    BY <1>6, <2>1, FS_Subset
<1>8. ZqueryPairs(z, score, name, offset, limit)
        = IF start = {} \/ limit =< 0 THEN <<>>
          ELSE EmitFrom(z, CHOOSE x \in start : TRUE, limit)
  BY Zenon DEF ZqueryPairs, start, p
<1>9. CASE start = {} \/ limit =< 0
  <2>1. S = {}
    <3>1. SUFFICES ASSUME NEW q \in S PROVE FALSE
      OBVIOUS
    <3>2. /\ q \in Pairs(z) /\ first \in ValidRanks(z)
          /\ r >= 0 /\ Rank(z, q) >= r /\ 2 * (Rank(z, q) - r) < limit
      BY <1>2, <1>4, Zenon
    <3>3. r \in ValidRanks(z) /\ limit > 0
      BY <1>4, <1>5, <3>2 DEF ValidRanks
    <3> QED
      BY <1>3, <1>9, <3>2, <3>3
  <2>2. Lists(<<>>, S)
    BY <2>1, FS_EmptySet DEF Lists
  <2> QED
    BY <1>7, <1>8, <1>9, <2>2, ListsOnce DEF S, p
<1>10. CASE start # {} /\ ~ (limit =< 0)
  <2>1. first \in ValidRanks(z) /\ r \in ValidRanks(z) /\ start = {r}
    BY <1>3, <1>10
  <2>2. r >= 0
    BY <1>4, <2>1 DEF ValidRanks
  <2>3. S = {q \in Pairs(z) : Rank(z, q) >= r /\ 2 * (Rank(z, q) - r) < limit}
    BY <1>2, <1>4, <2>1, <2>2, Zenon
  <2>4. limit \in Nat \ {0}
    BY <1>10
  <2>5. Lists(EmitFrom(z, r, limit), S)
    BY <2>1, <2>3, <2>4, EmitLists, Zenon
  <2>6. (CHOOSE x \in start : TRUE) = r
    BY <2>1
  <2> QED
    BY <1>7, <1>8, <1>10, <2>5, <2>6, ListsOnce, Zenon DEF S, p
<1> QED
  BY <1>9, <1>10

(* Whatever its limit, a ZQUERY emits at most one element more: do_zquery  *)
(* tests n < limit once for the two elements of a pair.                    *)
THEOREM ZqueryOvershoot ==
  ASSUME NEW z \in ZSet, NEW score \in Scores, NEW name \in Names,
         NEW offset \in Int, NEW limit \in Nat
  PROVE  2 * Cardinality(DOMAIN ZqueryPairs(z, score, name, offset, limit)) =< limit + 1
<1> DEFINE start == SeekOffset(z, <<score, name>>, offset)
           r == CHOOSE x \in start : TRUE
           I == {i \in 0 .. hm_size(z) - 1 - r : 2 * i < limit}
           half == (limit + 1) \div 2
<1>1. CASE start = {} \/ limit =< 0
  <2>1. ZqueryPairs(z, score, name, offset, limit) = <<>>
    BY <1>1, Zenon DEF ZqueryPairs
  <2>2. Cardinality(DOMAIN <<>>) = 0
    BY FS_EmptySet
  <2> QED
    BY <2>1, <2>2
<1>2. CASE start # {} /\ ~ (limit =< 0)
  <2>1. ZqueryPairs(z, score, name, offset, limit)
          = [i \in 1 .. Cardinality(I) |-> PairAt(z, r + i - 1)]
    BY <1>2, Zenon DEF ZqueryPairs, EmitFrom
  <2>2. half \in Nat /\ half > 0 /\ 2 * half =< limit + 1 /\ half - 1 \in Int
    BY <1>2
  <2>3. I \subseteq 0 .. half - 1
    OBVIOUS
  <2> HIDE DEF I, half, r
  <2>4. IsFiniteSet(0 .. half - 1) /\ Cardinality(0 .. half - 1) = half
    <3>1. /\ IsFiniteSet(0 .. half - 1)
          /\ Cardinality(0 .. half - 1) = IF 0 > half - 1 THEN 0 ELSE half - 1 - 0 + 1
      BY <2>2, FS_Interval
    <3> QED
      BY <2>2, <3>1
  <2>5. Cardinality(I) \in Nat /\ Cardinality(I) =< half
    <3>1. IsFiniteSet(I) /\ Cardinality(I) =< Cardinality(0 .. half - 1)
      BY <2>3, <2>4, FS_Subset, Zenon
    <3>2. Cardinality(I) \in Nat
      BY <3>1, FS_CardinalityType, Zenon
    <3> QED
      BY <2>4, <3>1, <3>2, Zenon
  <2> DEFINE n == Cardinality(I)
  <2>6. n \in Nat /\ n =< half
    BY <2>5
  <2> HIDE DEF n
  <2>7. Cardinality(1 .. n) = n
    <3>1. Cardinality(1 .. n) = IF 1 > n THEN 0 ELSE n - 1 + 1
      BY <2>6, FS_Interval
    <3> QED
      BY <2>6, <3>1
  <2>8. DOMAIN ZqueryPairs(z, score, name, offset, limit) = 1 .. n
    BY <2>1, Zenon DEF n
  <2> QED
    BY <2>2, <2>6, <2>7, <2>8
<1> QED
  BY <1>1, <1>2

(* The limits of ZQUERY count whole pairs.  With an odd one the loop of    *)
(* do_zquery, which tests n < limit before a pair, emits one element more  *)
(* than ExpiringStore allows.                                              *)
EvenLimits == \A limit \in Limits : limit % 2 = 0

\* ZQUERY.
LEMMA ZqueryRefined ==
  ASSUME EvenLimits, IInv, Plain(db), NEW k \in Keys, NEW name \in Names,
         NEW score \in Scores \cup {Bad}, NEW offset \in Offsets \cup {Bad},
         NEW limit \in Limits \cup {Bad}, do_zquery(k, score, name, offset, limit)
  PROVE  Promised!Zquery(k, score, name, offset, limit) /\ Plain(db')
<1> DEFINE d == lookup_entry(db, k, now)
           e == d.map[k]
           bad == Bad \in {score, offset, limit}
           list == ZqueryPairs(d.ent[e].zset, score, name, offset, limit)
           val == IF e = Null THEN out_arr(<<>>)
                  ELSE IF d.ent[e].type # T_ZSET THEN WrongType
                  ELSE out_arr(list)
           plist == Promised!Ascending(Promised!InRange(VisibleStore[k].zset,
                                         <<score, name>>, offset, limit))
           pval == IF Promised!IsStr(k) THEN Promised!Wrong
                   ELSE Promised!out_arr(IF ~ Promised!Exists(k) THEN <<>> ELSE plist)
           Says(v) == reply' = [cmd |-> "zquery", key |-> k, val |-> v, limit |-> limit]
           PSays(v) == /\ reply'.cmd = "zquery" /\ reply'.key = k /\ reply'.limit = limit
                       /\ reply' = [cmd |-> "zquery", key |-> k, limit |-> limit,
                                    val |-> v]
<1>1. /\ Promised!Exists(k) <=> e # Null
      /\ Promised!IsStr(k) <=> e # Null /\ d.ent[e].type = T_STR
      /\ e # Null => VisibleStore[k] = ItemAt(d, e) /\ d.ent[e] \in Entry
  <2>1. d = lookup_entry(db, k, now) /\ e = d.map[k]
    OBVIOUS
  <2> HIDE DEF d, e
  <2>2. LookedUp(d, e, k)
    BY <2>1, Looked, Zenon
  <2> QED
    BY <2>2, Zenon DEF LookedUp
<1>2. /\ now' = now
      /\ \/ bad /\ db' = db /\ Says(out_err("ERR_ARG"))
         \/ ~ bad /\ db' = d /\ Says(val)
  BY Zenon DEF do_zquery
<1>3. ASSUME NEW STATE v, Says(v) PROVE PSays(v)
  BY <1>3
<1>4. ASSUME ~ bad, e # Null PROVE list = plist
  <2>1. score \in Scores /\ offset \in Int /\ limit \in Int /\ limit % 2 = 0
    BY <1>4, ArgsAssumption DEF EvenLimits
  <2>2. d.ent[e].zset \in ZSet
    BY <1>1, <1>4, Zenon DEF Entry
  <2>3. VisibleStore[k].zset = d.ent[e].zset
    <3>1. ItemAt(d, e).zset = d.ent[e].zset
      BY Zenon DEF ItemAt, ItemOf
    <3> QED
      BY <1>1, <1>4, <3>1, Zenon
  <2> DEFINE z == d.ent[e].zset
  <2>4. z \in ZSet
    BY <2>2, Zenon
  <2> HIDE DEF z
  <2>5. ZqueryPairs(z, score, name, offset, limit)
          = Promised!Ascending(Promised!InRange(z, <<score, name>>, offset, limit))
    BY <2>1, <2>4, ZqueryExact
  <2> QED
    BY <2>3, <2>5, Zenon DEF z
<1>5. ~ bad => val = pval
  <2>1. e # Null => (d.ent[e].type = T_STR <=> d.ent[e].type # T_ZSET)
    BY <1>1, Zenon DEF Entry, T_STR, T_ZSET
  <2> HIDE DEF list, plist, bad, e, d
  <2> QED
    BY <1>1, <1>4, <2>1, SameValues, Zenon
<1>6. PSays(IF bad THEN Promised!out_err("ERR_ARG") ELSE pval)
  <2> HIDE DEF val, pval, Says, PSays, bad
  <2> QED
    BY <1>2, <1>3, <1>5, SameValues, Zenon
<1>7. VisibleStore' = VisibleStore /\ Plain(db')
  <2>1. CASE db' = db
    BY <1>2, <2>1, StoreSeen, Zenon
  <2>2. CASE db' = d
    BY <1>2, <2>2, LookupOnly, Zenon
  <2> QED
    BY <1>2, <2>1, <2>2, Zenon
<1>8. PSays(IF bad THEN Promised!out_err("ERR_ARG")
            ELSE IF Promised!IsStr(k) THEN Promised!Wrong
            ELSE Promised!out_arr(IF ~ Promised!Exists(k) THEN <<>> ELSE plist))
  BY <1>6, Zenon
<1> QED
  BY <1>2, <1>7, <1>8, Zenon DEF Promised!Zquery

-----------------------------------------------------------------------------
(* The refinement. *)

\* Every request is one request of the store.
LEMMA RequestRefined ==
  ASSUME EvenLimits, IInv, Plain(db), do_request
  PROVE  Promised!StoreNext /\ Plain(db')
<1>1. ASSUME NEW k \in Keys, do_get(k) PROVE Promised!StoreNext /\ Plain(db')
  BY <1>1, GetRefined, Zenon DEF Promised!StoreNext
<1>2. ASSUME NEW k \in Keys, NEW s \in Strs, do_set(k, s)
      PROVE  Promised!StoreNext /\ Plain(db')
  BY <1>2, SetRefined, Zenon DEF Promised!StoreNext
<1>3. ASSUME NEW k \in Keys, do_del(k) PROVE Promised!StoreNext /\ Plain(db')
  BY <1>3, DelRefined, Zenon DEF Promised!StoreNext
<1>4. ASSUME NEW k \in Keys, NEW n \in TtlArgs \cup {Bad}, NEW unit_ms \in {Second, 1},
             do_expire(k, n, unit_ms)
      PROVE  Promised!StoreNext /\ Plain(db')
  BY <1>4, ExpireRefined, Zenon DEF Promised!StoreNext
<1>5. ASSUME NEW k \in Keys, NEW in_ms \in BOOLEAN, do_ttl(k, in_ms)
      PROVE  Promised!StoreNext /\ Plain(db')
  BY <1>5, TtlRefined, Zenon DEF Promised!StoreNext
<1>6. ASSUME NEW k \in Keys, do_persist(k) PROVE Promised!StoreNext /\ Plain(db')
  BY <1>6, PersistRefined, Zenon DEF Promised!StoreNext
<1>7. ASSUME NEW k \in Keys, NEW name \in Names, NEW score \in Scores \cup {Bad},
             do_zadd(k, score, name)
      PROVE  Promised!StoreNext /\ Plain(db')
  BY <1>7, ZaddRefined, Zenon DEF Promised!StoreNext
<1>8. ASSUME NEW k \in Keys, NEW name \in Names, do_zrem(k, name)
      PROVE  Promised!StoreNext /\ Plain(db')
  BY <1>8, ZremRefined, Zenon DEF Promised!StoreNext
<1>9. ASSUME NEW k \in Keys, NEW name \in Names, do_zscore(k, name)
      PROVE  Promised!StoreNext /\ Plain(db')
  BY <1>9, ZscoreRefined, Zenon DEF Promised!StoreNext
<1>10. ASSUME NEW k \in Keys, NEW name \in Names, NEW score \in Scores \cup {Bad},
              NEW offset \in Offsets \cup {Bad}, NEW limit \in Limits \cup {Bad},
              do_zquery(k, score, name, offset, limit)
       PROVE  Promised!StoreNext /\ Plain(db')
  <2>1. Promised!Zquery(k, score, name, offset, limit) /\ Plain(db')
    BY <1>10, ZqueryRefined
  <2>2. \E sc \in Scores \cup {Bad}, o \in Offsets \cup {Bad}, l \in Limits \cup {Bad} :
          Promised!Zquery(k, sc, name, o, l)
    BY <2>1, Zenon
  <2> QED
    BY <2>1, <2>2, Zenon DEF Promised!StoreNext
<1>11. ASSUME do_keys PROVE Promised!StoreNext /\ Plain(db')
  BY <1>11, KeysRefined, Zenon DEF Promised!StoreNext
<1>12. ASSUME do_unknown PROVE Promised!StoreNext /\ Plain(db')
  BY <1>12, UnknownRefined, Zenon DEF Promised!StoreNext
<1> QED
  BY <1>1, <1>2, <1>3, <1>4, <1>5, <1>6, <1>7, <1>8, <1>9, <1>10, <1>11, <1>12, Zenon
     DEF do_request

(* Every step is a step of the store or invisible to its clients: the      *)
(* reaper and the workers are.                                             *)
LEMMA StepRefined ==
  ASSUME EvenLimits, IInv, Plain(db), [Next]_vars
  PROVE  [Promised!StoreNext]_(Promised!svars) /\ Plain(db')
<1>1. CASE do_request
  BY <1>1, RequestRefined, Zenon
<1>2. CASE process_timers \/ \E e \in Addrs : entry_del_task(e)
  BY <1>2, BackgroundHidden, Zenon DEF Promised!svars
<1>3. CASE Tick
  BY <1>3, TickRefined, Zenon DEF Promised!StoreNext
<1>4. CASE UNCHANGED vars
  <2>1. db' = db /\ now' = now /\ reply' = reply
    BY <1>4 DEF vars
  <2>2. VisibleStore' = VisibleStore
    BY <2>1, StoreSeen, Zenon
  <2> QED
    BY <2>1, <2>2, Zenon DEF Promised!svars
<1> QED
  BY <1>1, <1>2, <1>3, <1>4, Zenon DEF Next

(* An entry holds nothing of the type it does not have.                    *)
LEMMA PlainInvariant ==
  ASSUME EvenLimits
  PROVE  Spec => [](IInv /\ Plain(db))
<1>1. Init => Plain(db)
  BY DEF Init, Plain
<1>2. IInv /\ Plain(db) /\ [Next]_vars => Plain(db)'
  BY StepRefined, Zenon
<1> QED
  BY <1>1, <1>2, Invariance, PTL DEF Spec

(* Every handler of command.cpp replies as a store does in which a key is  *)
(* gone the moment its deadline arrives (KEYS alone may list more), for    *)
(* any sets of keys, names, scores and arguments and whenever              *)
(* lookup_entry, process_timers and the workers remove what is overdue,    *)
(* as long as the limits given to ZQUERY are even.                         *)
THEOREM Refinement ==
  ASSUME EvenLimits
  PROVE  Spec => ImplementsExpiringStore
<1>1. Init => Promised!StoreInit
  <2>1. Init => \A k \in Keys : db.map[k] = Null
    BY DEF Init
  <2>2. (\A k \in Keys : db.map[k] = Null) => VisibleStore = [k \in Keys |-> Absent]
    BY Zenon DEF VisibleStore
  <2>3. Init => now = 0 /\ reply = [cmd |-> "none", key |-> Null, val |-> out_nil]
    BY Zenon DEF Init
  <2> QED
    BY <2>1, <2>2, <2>3, SameValues, Zenon DEF Promised!StoreInit
<1>2. IInv /\ Plain(db) /\ [Next]_vars => [Promised!StoreNext]_(Promised!svars)
  BY StepRefined, Zenon
<1> QED
  BY PlainInvariant, <1>1, <1>2, PTL DEF Spec, ImplementsExpiringStore, Promised!StoreSpec
=============================================================================
