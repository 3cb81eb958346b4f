--------------------------- MODULE KeyspaceProofs ---------------------------
(***************************************************************************)
(* Proofs about Keyspace, for every set of keys, addresses, values and     *)
(* arguments and every bound.                                              *)
(*                                                                         *)
(* The inductive invariant is Consistent(db): the four facts about the     *)
(* index, the timers, the worker queue and the allocated entries need one  *)
(* another.  That an unlinked entry takes no timer with it needs timers to *)
(* belong to linked entries, and that a queued entry is not also linked    *)
(* needs each entry to be linked under its own key only.  Each operation   *)
(* on the Database is shown once, as a lemma, to preserve it.              *)
(***************************************************************************)
EXTENDS Keyspace, TLAPS

Consistent(d) ==
  /\ d \in Database
  /\ LinkedOK(d) /\ TimersOK(d) /\ OrphansOK(d) /\ ReachableOK(d)

(* Unlinking a set of entries by identity and tearing them down, as the    *)
(* reaper does, keeps the database consistent.                             *)
LEMMA ReapConsistent ==
  ASSUME NEW d, Consistent(d), NEW R \in SUBSET Addrs,
         \A e \in R : d.ent[e] # Freed /\ d.map[d.ent[e].key] = e
  PROVE  Consistent(entry_del(hm_delete_same(d, R), R))
<1> DEFINE u == hm_delete_same(d, R)
           n == entry_del(u, R)
           large == {e \in R : IsLarge(u, e)}
<1>1. d \in Database
  BY DEF Consistent
<1>2. /\ u.map = [k \in Keys |-> IF d.map[k] \in R THEN Null ELSE d.map[k]]
      /\ u.ent = d.ent /\ u.ttl = d.ttl /\ u.pool = d.pool /\ u \in Database
  BY <1>1 DEF hm_delete_same, Database
<1>3. /\ n.map = u.map
      /\ n.ttl = [a \in Addrs |-> IF a \in R THEN NoTimer ELSE d.ttl[a]]
      /\ n.ent = [a \in Addrs |-> IF a \in R \ large THEN Freed ELSE d.ent[a]]
      /\ n.pool = d.pool \cup large
      /\ n \in Database
  BY <1>1, <1>2, Zenon DEF entry_del, Database, NoTimer
<1> HIDE DEF u, n, large
<1>4. large \subseteq R
  BY DEF large
<1>5. LinkedOK(n)
  BY <1>1, <1>2, <1>3, <1>4, AddrsAssumption DEF LinkedOK, Consistent, Database
<1>6. TimersOK(n)
  BY <1>1, <1>2, <1>3, <1>4 DEF TimersOK, Consistent, Database, HasTimer, Entry
<1>7. OrphansOK(n)
  BY <1>1, <1>2, <1>3, <1>4, AddrsAssumption
  DEF OrphansOK, Consistent, Database, Entry
<1>8. ReachableOK(n)
  BY <1>1, <1>2, <1>3, <1>4, FreedAssumption DEF ReachableOK, Consistent, Database, Entry
<1> QED
  BY <1>3, <1>5, <1>6, <1>7, <1>8 DEF Consistent, n, u

(* Unlinking by key reaches the same database as unlinking by identity: no *)
(* other key has the entry.  So DEL, EXPIRE and lazy expiry are also safe. *)
LEMMA DeleteConsistent ==
  ASSUME NEW d, Consistent(d), NEW k \in Keys, d.map[k] # Null
  PROVE  /\ Consistent(entry_del(hm_delete(d, k), {d.map[k]}))
         /\ entry_del(hm_delete(d, k), {d.map[k]}).map[k] = Null
<1> DEFINE e == d.map[k]
<1>1. /\ d \in Database /\ e \in Addrs /\ d.ent[e] # Freed /\ d.ent[e].key = k
  BY DEF Consistent, LinkedOK, Database
<1>2. \A j \in Keys : d.map[j] = e => j = k
  BY <1>1, AddrsAssumption DEF Consistent, LinkedOK
<1>3. hm_delete(d, k) = hm_delete_same(d, {e})
  <2>1. [d.map EXCEPT ![k] = Null]
          = [j \in Keys |-> IF d.map[j] \in {e} THEN Null ELSE d.map[j]]
    BY <1>1, <1>2 DEF Database
  <2> QED
    BY <2>1, <1>1 DEF hm_delete, hm_delete_same, Database
<1>4. Consistent(entry_del(hm_delete_same(d, {e}), {e}))
  BY <1>1, ReapConsistent
<1>5. entry_del(hm_delete(d, k), {e}).map[k] = Null
  BY <1>1 DEF entry_del, hm_delete, Database
<1> QED
  BY <1>3, <1>4, <1>5

\* A lookup, with the lazy expiry inside it, keeps the database consistent.
LEMMA LookupConsistent ==
  ASSUME NEW d, Consistent(d), NEW k \in Keys, NEW t
  PROVE  Consistent(lookup_entry(d, k, t))
BY DeleteConsistent DEF lookup_entry

\* Setting or dropping the timer of a linked entry.
LEMMA SetTtlConsistent ==
  ASSUME NEW d, Consistent(d), NEW k \in Keys, d.map[k] # Null,
         NEW ttl_ms \in Int, NEW t \in Nat
  PROVE  Consistent(entry_set_ttl(d, d.map[k], ttl_ms, t))
<1> DEFINE e == d.map[k]
           due == IF ttl_ms < 0 THEN NoTimer ELSE t + ttl_ms
           n == entry_set_ttl(d, e, ttl_ms, t)
<1>1. d \in Database /\ e \in Addrs /\ d.ent[e] # Freed /\ d.ent[e].key = k
  BY DEF Consistent, LinkedOK, Database
<1>2. due \in Nat \cup {NoTimer}
  OBVIOUS
<1> HIDE DEF due
<1>3. /\ n.map = d.map /\ n.ent = d.ent /\ n.pool = d.pool
      /\ n.ttl = [d.ttl EXCEPT ![e] = due]
      /\ n \in Database
  BY <1>1, <1>2 DEF entry_set_ttl, Database, due
<1>4. TimersOK(n)
  BY <1>1, <1>3 DEF TimersOK, HasTimer, Consistent, Database
<1> QED
  BY <1>3, <1>4 DEF Consistent, LinkedOK, OrphansOK, ReachableOK, n

\* Linking a new entry, built at a free address, under a key that has none.
LEMMA InsertConsistent ==
  ASSUME NEW d, Consistent(d), NEW a \in Addrs, d.ent[a] = Freed,
         NEW ent \in Entry, d.map[ent.key] = Null
  PROVE  Consistent(hm_insert(d, a, ent))
<1> DEFINE n == hm_insert(d, a, ent)
<1>1. d \in Database /\ ent.key \in Keys
  BY DEF Consistent, Entry
<1>2. /\ n.map = [d.map EXCEPT ![ent.key] = a]
      /\ n.ent = [d.ent EXCEPT ![a] = ent]
      /\ n.ttl = [d.ttl EXCEPT ![a] = NoTimer]
      /\ n.pool = d.pool
      /\ n \in Database
  BY <1>1, Zenon DEF hm_insert, Database
<1> HIDE DEF n
<1>3. \A k \in Keys : d.map[k] # a
  BY <1>1, AddrsAssumption DEF Consistent, LinkedOK
<1>4. a \notin d.pool
  BY DEF Consistent, OrphansOK
<1>5. LinkedOK(n)
  BY <1>1, <1>2, <1>3, FreedAssumption DEF LinkedOK, Consistent, Database
<1>6. TimersOK(n)
  BY <1>1, <1>2, AddrsAssumption DEF TimersOK, HasTimer, Consistent, Database, Entry
<1>7. OrphansOK(n)
  BY <1>1, <1>2, <1>4 DEF OrphansOK, Consistent, Database
<1>8. ReachableOK(n)
  BY <1>1, <1>2, AddrsAssumption DEF ReachableOK, Consistent, Database, Entry
<1> QED
  BY <1>2, <1>5, <1>6, <1>7, <1>8 DEF Consistent, n

\* Overwriting the value of an allocated entry in place.
LEMMA WriteConsistent ==
  ASSUME NEW d, Consistent(d), NEW e \in Addrs, d.ent[e] # Freed,
         NEW ent \in Entry, ent.key = d.ent[e].key
  PROVE  Consistent([d EXCEPT !.ent[e] = ent])
<1> DEFINE n == [d EXCEPT !.ent[e] = ent]
<1>1. d \in Database
  BY DEF Consistent
<1>2. /\ n.map = d.map /\ n.ttl = d.ttl /\ n.pool = d.pool
      /\ n.ent = [d.ent EXCEPT ![e] = ent]
      /\ n \in Database
  BY <1>1 DEF Database
<1> HIDE DEF n
<1>3. LinkedOK(n) /\ OrphansOK(n)
  BY <1>1, <1>2, FreedAssumption DEF LinkedOK, OrphansOK, Consistent, Database
<1>4. TimersOK(n) /\ ReachableOK(n)
  BY <1>1, <1>2, FreedAssumption DEF TimersOK, ReachableOK, HasTimer, Consistent, Database
<1> QED
  BY <1>2, <1>3, <1>4 DEF Consistent, n

-----------------------------------------------------------------------------
(* The inductive invariant.                                                *)
IInv == Consistent(db) /\ now \in 0 .. MaxNow

\* Initially nothing is linked, timed, queued or allocated.
LEMMA InitEstablishes == Init => IInv
BY ClockAssumption
DEF Init, IInv, Consistent, Database, LinkedOK, TimersOK, OrphansOK,
    ReachableOK, HasTimer, NoTimer

\* The string commands.
LEMMA StringCommands ==
  ASSUME IInv, NEW k \in Keys
  PROVE  /\ do_get(k) => IInv'
         /\ \A s \in Strs : do_set(k, s) => IInv'
         /\ do_del(k) => IInv'
<1> DEFINE d == lookup_entry(db, k, now)
           e == d.map[k]
<1>1. Consistent(d) /\ d \in Database /\ now \in Nat
  BY LookupConsistent, ClockAssumption DEF IInv, Consistent
<1>2. e # Null => e \in Addrs /\ d.ent[e] \in Entry /\ d.ent[e] # Freed
  BY <1>1 DEF Consistent, LinkedOK, Database
<1>3. ASSUME do_get(k) PROVE IInv'
  BY <1>1, <1>3 DEF do_get, IInv
<1>4. ASSUME NEW s \in Strs, do_set(k, s) PROVE IInv'
  <2> DEFINE w == [d EXCEPT !.ent[e].str = s]
  <2>1. CASE db' = d
    BY <1>1, <1>4, <2>1 DEF do_set, IInv
  <2>2. CASE e # Null /\ db' = entry_set_ttl(w, e, -1, now)
    <3> DEFINE ent == [d.ent[e] EXCEPT !.str = s]
    <3>1. w = [d EXCEPT !.ent[e] = ent]
      BY <1>1, <1>2, <2>2 DEF Database
    <3>2. ent \in Entry /\ ent.key = d.ent[e].key
      BY <1>2, <2>2, Zenon DEF Entry
    <3>3. Consistent(w) /\ w.map = d.map
      BY <1>1, <1>2, <2>2, <3>1, <3>2, WriteConsistent, Zenon DEF Database
    <3>4. w.map[k] = e
      BY <3>3
    <3> HIDE DEF w
    <3>5. Consistent(entry_set_ttl(w, e, -1, now))
      BY <1>1, <2>2, <3>3, <3>4, SetTtlConsistent
    <3> QED
      BY <1>4, <2>2, <3>5 DEF do_set, IInv
  <2>3. CASE e = Null /\ \E a \in Addrs :
               /\ d.ent[a] = Freed
               /\ db' = hm_insert(d, a, [key |-> k, type |-> T_STR,
                                         str |-> s, zset |-> EmptyZSet])
    <3>1. [key |-> k, type |-> T_STR, str |-> s, zset |-> EmptyZSet] \in Entry
      BY DEF Entry, EmptyZSet, ZSet
    <3> QED
      BY <1>1, <1>4, <2>3, <3>1, InsertConsistent DEF do_set, IInv
  <2> QED
    BY <1>4, <2>1, <2>2, <2>3 DEF do_set
<1>5. ASSUME do_del(k) PROVE IInv'
  <2>1. e # Null => Consistent(entry_del(hm_delete(d, k), {e}))
    BY <1>1, DeleteConsistent
  <2> QED
    BY <1>1, <1>5, <2>1 DEF do_del, IInv
<1> QED
  BY <1>3, <1>4, <1>5

(* The TTL that EXPIRE and PEXPIRE compute from a positive argument is the *)
(* argument in milliseconds, or the largest whole number of units that an  *)
(* int64_t holds: the multiplication in do_expire never overflows.         *)
THEOREM ClampNeverWraps ==
  ASSUME NEW n \in 1 .. Int64Max, NEW unit_ms \in {Second, 1}
  PROVE  /\ ClampedMs(n, unit_ms) \in 1 .. Int64Max
         /\ \/ ClampedMs(n, unit_ms) = n * unit_ms
            \/ /\ n * unit_ms > Int64Max
               /\ ClampedMs(n, unit_ms) > Int64Max - unit_ms
<1> DEFINE most == Int64Max \div unit_ms
           c == IF n > most THEN most ELSE n
<1>1. /\ n \in Nat \ {0} /\ Int64Max \in Nat \ {0}
      /\ unit_ms \in Nat \ {0} /\ unit_ms =< Int64Max
  BY ClockAssumption
<1>2. /\ most \in Nat \ {0} /\ most * unit_ms =< Int64Max
      /\ Int64Max < most * unit_ms + unit_ms
  BY <1>1, SMTT(30)
<1>3. \A x \in 0 .. Int64Max : Int64(x) = x
  BY <1>1 DEF Int64
<1>4. CASE n > most
  <2>1. n * unit_ms >= most * unit_ms + unit_ms
    BY <1>1, <1>2, <1>4, SMTT(30)
  <2>2. ClampedMs(n, unit_ms) = most * unit_ms /\ most * unit_ms >= 1
    BY <1>1, <1>2, <1>3, <1>4, SMTT(30) DEF ClampedMs
  <2> QED
    BY <1>1, <1>2, <2>1, <2>2
<1>5. CASE n =< most
  <2>1. n * unit_ms =< most * unit_ms /\ n * unit_ms >= 1
    BY <1>1, <1>2, <1>5, SMTT(30)
  <2>2. ClampedMs(n, unit_ms) = n * unit_ms
    BY <1>1, <1>2, <1>3, <1>5, <2>1, SMTT(30) DEF ClampedMs
  <2> QED
    BY <1>1, <1>2, <2>1, <2>2
<1> QED
  BY <1>1, <1>2, <1>4, <1>5

\* The TTL commands.
LEMMA TtlCommands ==
  ASSUME IInv, NEW k \in Keys
  PROVE  /\ \A n \in TtlArgs \cup {Bad}, unit_ms \in {Second, 1} :
              do_expire(k, n, unit_ms) => IInv'
         /\ \A in_ms \in BOOLEAN : do_ttl(k, in_ms) => IInv'
         /\ do_persist(k) => IInv'
<1> DEFINE d == lookup_entry(db, k, now)
           e == d.map[k]
<1>1. Consistent(d) /\ d \in Database /\ now \in Nat
  BY LookupConsistent, ClockAssumption DEF IInv, Consistent
<1>2. ASSUME NEW n \in TtlArgs \cup {Bad}, NEW unit_ms \in {Second, 1},
             do_expire(k, n, unit_ms)
      PROVE  IInv'
  <2>1. CASE n = Bad
    BY <1>2, <2>1, ArgsAssumption DEF do_expire, IInv
  <2>2. CASE n # Bad /\ (e = Null \/ n =< 0)
    <3>1. e # Null => Consistent(entry_del(hm_delete(d, k), {e}))
      BY <1>1, DeleteConsistent
    <3>2. ~ (e # Null /\ n > 0)
      BY <2>2, ArgsAssumption
    <3> QED
      BY <1>1, <1>2, <2>2, <3>1, <3>2 DEF do_expire, IInv
  <2>3. CASE n # Bad /\ e # Null /\ n > 0
    <3>1. n \in Int /\ unit_ms \in Nat \ {0} /\ Int64Max \in Nat
      BY <2>3, ArgsAssumption, ClockAssumption
    <3>2. n \in 1 .. Int64Max
      BY <2>3, <3>1, ArgsAssumption
    <3>3. ClampedMs(n, unit_ms) \in Int
      BY <3>1, <3>2, ClampNeverWraps
    <3>5. PICK t \in now .. MaxNow :
             now' = t /\ db' = entry_set_ttl(d, e, ClampedMs(n, unit_ms), t)
      BY <1>2, <2>3, <3>1 DEF do_expire
    <3>6. t \in Nat /\ t \in 0 .. MaxNow
      BY <1>1, <3>5, ClockAssumption
    <3>7. Consistent(entry_set_ttl(d, e, ClampedMs(n, unit_ms), t))
      <4> HIDE DEF d
      <4> QED
        BY <1>1, <2>3, <3>3, <3>6, SetTtlConsistent
    <3> QED
      BY <3>5, <3>6, <3>7 DEF IInv
  <2> QED
    BY <2>1, <2>2, <2>3, ArgsAssumption
<1>3. ASSUME NEW in_ms \in BOOLEAN, do_ttl(k, in_ms) PROVE IInv'
  <2>1. db' = d /\ (now' = now \/ now' \in now .. MaxNow)
    BY <1>3, Zenon DEF do_ttl
  <2>2. now' \in 0 .. MaxNow
    <3>1. now \in 0 .. MaxNow
      BY Zenon DEF IInv
    <3> QED
      BY <2>1, <3>1, ClockAssumption
  <2> QED
    BY <1>1, <2>1, <2>2 DEF IInv
<1>4. ASSUME do_persist(k) PROVE IInv'
  <2>1. e # Null => Consistent(entry_set_ttl(d, e, -1, now))
    BY <1>1, SetTtlConsistent
  <2> QED
    BY <1>1, <1>4, <2>1 DEF do_persist, IInv
<1> QED
  BY <1>2, <1>3, <1>4

\* The sorted-set commands.
LEMMA ZsetCommands ==
  ASSUME IInv, NEW k \in Keys, NEW name \in Names
  PROVE  /\ \A score \in Scores \cup {Bad} : do_zadd(k, score, name) => IInv'
         /\ do_zrem(k, name) => IInv'
         /\ do_zscore(k, name) => IInv'
         /\ \A score, offset, limit :
              do_zquery(k, score, name, offset, limit) => IInv'
<1> DEFINE d == lookup_entry(db, k, now)
           e == d.map[k]
<1>1. Consistent(d) /\ d \in Database
  BY LookupConsistent DEF IInv, Consistent
<1>2. e # Null => e \in Addrs /\ d.ent[e] \in Entry /\ d.ent[e] # Freed
  BY <1>1 DEF Consistent, LinkedOK, Database
\* Replacing the members of a set leaves the rest of its entry alone.
<1>3. ASSUME e # Null, NEW z \in ZSet
      PROVE  Consistent([d EXCEPT !.ent[e].zset = z])
  <2> DEFINE ent == [d.ent[e] EXCEPT !.zset = z]
  <2>1. [d EXCEPT !.ent[e].zset = z] = [d EXCEPT !.ent[e] = ent]
    BY <1>1, <1>2, <1>3 DEF Database
  <2>2. ent \in Entry /\ ent.key = d.ent[e].key
    BY <1>2, <1>3 DEF Entry
  <2> QED
    BY <1>1, <1>2, <1>3, <2>1, <2>2, WriteConsistent, Zenon
<1>4. ASSUME NEW score \in Scores \cup {Bad}, do_zadd(k, score, name)
      PROVE  IInv'
  <2>1. CASE db' = db \/ db' = d
    BY <1>1, <1>4, <2>1, Zenon DEF do_zadd, IInv
  <2>2. CASE /\ score # Bad /\ e # Null
             /\ db' = [d EXCEPT !.ent[e].zset = zset_insert(@, name, score)]
    <3>1. zset_insert(d.ent[e].zset, name, score) \in ZSet
      BY <1>2, <2>2, Zenon DEF Entry, ZSet, zset_insert
    <3>2. db' = [d EXCEPT !.ent[e].zset = zset_insert(d.ent[e].zset, name, score)]
      BY <1>1, <1>2, <2>2 DEF Database
    <3> QED
      BY <1>3, <1>4, <2>2, <3>1, <3>2, Zenon DEF do_zadd, IInv
  <2>3. CASE /\ score # Bad /\ e = Null
             /\ \E a \in Addrs :
                  /\ d.ent[a] = Freed
                  /\ db' = hm_insert(d, a,
                             [key |-> k, type |-> T_ZSET, str |-> EmptyStr,
                              zset |-> zset_insert(EmptyZSet, name, score)])
    <3>1. zset_insert(EmptyZSet, name, score) \in ZSet
      BY <2>3 DEF ZSet, EmptyZSet, zset_insert
    <3>2. [key |-> k, type |-> T_ZSET, str |-> EmptyStr,
           zset |-> zset_insert(EmptyZSet, name, score)] \in Entry
      BY <3>1, StrsAssumption DEF Entry
    <3> QED
      BY <1>1, <1>4, <2>3, <3>2, InsertConsistent DEF do_zadd, IInv
  <2> QED
    BY <1>4, <2>1, <2>2, <2>3, Zenon DEF do_zadd
<1>5. ASSUME do_zrem(k, name) PROVE IInv'
  <2>1. CASE db' = d
    BY <1>1, <1>5, <2>1, Zenon DEF do_zrem, IInv
  <2>2. CASE e # Null /\ db' = [d EXCEPT !.ent[e].zset = zset_delete(@, name)]
    <3>1. zset_delete(d.ent[e].zset, name) \in ZSet
      BY <1>2, <2>2, Zenon DEF Entry, ZSet, zset_delete
    <3>2. db' = [d EXCEPT !.ent[e].zset = zset_delete(d.ent[e].zset, name)]
      BY <1>1, <1>2, <2>2 DEF Database
    <3> QED
      BY <1>3, <1>5, <2>2, <3>1, <3>2, Zenon DEF do_zrem, IInv
  <2> QED
    BY <1>5, <2>1, <2>2, Zenon DEF do_zrem
<1>6. ASSUME do_zscore(k, name) PROVE IInv'
  BY <1>1, <1>6, Zenon DEF do_zscore, IInv
<1>7. ASSUME NEW score, NEW offset, NEW limit,
             do_zquery(k, score, name, offset, limit)
      PROVE  IInv'
  BY <1>1, <1>7 DEF do_zquery, IInv
<1> QED
  BY <1>4, <1>5, <1>6, <1>7

\* The reaper, the workers and the clock.
LEMMA Background ==
  ASSUME IInv
  PROVE  /\ process_timers => IInv'
         /\ \A e \in Addrs : entry_del_task(e) => IInv'
         /\ Tick => IInv'
<1>1. db \in Database
  BY DEF IInv, Consistent
<1>2. ASSUME process_timers PROVE IInv'
  <2>1. PICK R \in ReapSets(db, now) : db' = entry_del(hm_delete_same(db, R), R)
    BY <1>2 DEF process_timers
  <2>2. R \in SUBSET Addrs /\ \A e \in R : HasTimer(db, e)
    BY <2>1 DEF ReapSets, DueSet, Overdue
  <2>3. \A e \in R : db.ent[e] # Freed /\ db.map[db.ent[e].key] = e
    BY <2>2 DEF IInv, Consistent, TimersOK
  <2>4. Consistent(db')
    BY <2>1, <2>2, <2>3, ReapConsistent DEF IInv
  <2> QED
    BY <1>2, <2>4 DEF process_timers, IInv
<1>3. ASSUME NEW e \in Addrs, entry_del_task(e) PROVE IInv'
  <2>1. /\ db'.map = db.map /\ db'.ttl = db.ttl
        /\ db'.ent = [db.ent EXCEPT ![e] = Freed]
        /\ db'.pool = db.pool \ {e}
        /\ db' \in Database /\ e \in db.pool
    BY <1>1, <1>3, Zenon DEF entry_del_task, Database
  <2>2. \A k \in Keys : db.map[k] # e
    BY <2>1 DEF IInv, Consistent, OrphansOK
  <2>3. LinkedOK(db')
    BY <1>1, <2>1, <2>2 DEF IInv, Consistent, LinkedOK, Database
  <2>4. TimersOK(db')
    BY <1>1, <2>1, <2>2 DEF IInv, Consistent, TimersOK, HasTimer, Database, Entry
  <2>5. OrphansOK(db') /\ ReachableOK(db')
    BY <1>1, <2>1 DEF IInv, Consistent, OrphansOK, ReachableOK, Database
  <2> QED
    BY <1>3, <2>1, <2>3, <2>4, <2>5 DEF IInv, Consistent, entry_del_task
<1>4. ASSUME Tick PROVE IInv'
  BY <1>4, ClockAssumption DEF Tick, IInv
<1> QED
  BY <1>2, <1>3, <1>4

\* Every step preserves the invariant.
LEMMA NextPreserves == IInv /\ [Next]_vars => IInv'
<1> SUFFICES ASSUME IInv, [Next]_vars PROVE IInv'
  OBVIOUS
<1>1. CASE UNCHANGED vars
  BY <1>1 DEF vars, IInv
<1>2. ASSUME NEW k \in Keys, do_get(k) PROVE IInv'
  BY <1>2, StringCommands
<1>3. ASSUME NEW k \in Keys, NEW s \in Strs, do_set(k, s) PROVE IInv'
  BY <1>3, StringCommands
<1>4. ASSUME NEW k \in Keys, do_del(k) PROVE IInv'
  BY <1>4, StringCommands
<1>5. ASSUME NEW k \in Keys, NEW n \in TtlArgs \cup {Bad},
             NEW unit_ms \in {Second, 1}, do_expire(k, n, unit_ms)
      PROVE  IInv'
  BY <1>5, TtlCommands
<1>6. ASSUME NEW k \in Keys, NEW in_ms \in BOOLEAN, do_ttl(k, in_ms) PROVE IInv'
  BY <1>6, TtlCommands
<1>7. ASSUME NEW k \in Keys, do_persist(k) PROVE IInv'
  BY <1>7, TtlCommands
<1>8. ASSUME NEW k \in Keys, NEW name \in Names, NEW score \in Scores \cup {Bad},
             do_zadd(k, score, name)
      PROVE  IInv'
  BY <1>8, ZsetCommands
<1>9. ASSUME NEW k \in Keys, NEW name \in Names,
             do_zrem(k, name) \/ do_zscore(k, name)
      PROVE  IInv'
  BY <1>9, ZsetCommands
<1>10. ASSUME NEW k \in Keys, NEW name \in Names, NEW score, NEW offset,
              NEW limit, do_zquery(k, score, name, offset, limit)
       PROVE  IInv'
  BY <1>10, ZsetCommands
<1>11. CASE do_keys \/ do_unknown
  BY <1>11 DEF do_keys, do_unknown, IInv
<1>12. CASE process_timers \/ (\E e \in Addrs : entry_del_task(e)) \/ Tick
  BY <1>12, Background
<1> QED
  BY <1>1, <1>2, <1>3, <1>4, <1>5, <1>6, <1>7, <1>8, <1>9, <1>10, <1>11, <1>12
  DEF Next, do_request

(* The inductive invariant holds in every reachable state of the keyspace, *)
(* for any number of keys, addresses, members and ticks of the clock.      *)
THEOREM Invariance == Spec => []IInv
BY InitEstablishes, NextPreserves, PTL DEF Spec

\* The database and the clock stay in their types.
THEOREM TypeCorrect == Spec => []TypeOK
<1>1. IInv => TypeOK
  BY DEF IInv, Consistent, TypeOK
<1> QED
  BY <1>1, Invariance, PTL

(* The index never reaches freed memory or the entry of another key.       *)
THEOREM IndexSafe == Spec => []LinkedEntriesLive
<1>1. IInv => LinkedEntriesLive
  BY DEF IInv, Consistent, LinkedEntriesLive
<1> QED
  BY <1>1, Invariance, PTL

(* The reaper can follow every timer to a live entry linked in the index.  *)
THEOREM TimersSafe == Spec => []TimersOfLinkedEntries
<1>1. IInv => TimersOfLinkedEntries
  BY DEF IInv, Consistent, TimersOfLinkedEntries
<1> QED
  BY <1>1, Invariance, PTL

(* What a worker is given, nobody else can reach.                          *)
THEOREM TeardownSafe == Spec => []QueuedEntriesOrphaned
<1>1. IInv => QueuedEntriesOrphaned
  <2> SUFFICES ASSUME IInv, NEW e \in db.pool PROVE ~ HasTimer(db, e)
    BY DEF IInv, Consistent, QueuedEntriesOrphaned
  <2>1. e \in Addrs /\ db.ent[e] \in Entry /\ \A k \in Keys : db.map[k] # e
    BY DEF IInv, Consistent, OrphansOK, Database
  <2> QED
    BY <2>1 DEF IInv, Consistent, TimersOK, Entry
<1> QED
  BY <1>1, Invariance, PTL

(* No command, expiry or teardown loses an allocated entry.                *)
THEOREM LeakFree == Spec => []NothingLeaks
<1>1. IInv => NothingLeaks
  BY DEF IInv, Consistent, NothingLeaks
<1> QED
  BY <1>1, Invariance, PTL

-----------------------------------------------------------------------------
(* The event loop leaves alone what it has queued for the workers. *)

Spares(d, n) == \A e \in d.pool : e \in n.pool /\ n.ent[e] = d.ent[e]

\* Tearing down entries that are not queued touches none that are.
LEMMA TeardownSpares ==
  ASSUME NEW d, d \in Database, NEW u, u \in Database, u.ent = d.ent, u.pool = d.pool,
         NEW R \in SUBSET Addrs, R \cap d.pool = {}
  PROVE  Spares(d, entry_del(u, R))
<1> DEFINE n == entry_del(u, R)
           large == {e \in R : IsLarge(u, e)}
<1>1. /\ n.ent = [a \in Addrs |-> IF a \in R \ large THEN Freed ELSE u.ent[a]]
      /\ n.pool = u.pool \cup large
  BY Zenon DEF entry_del, Database
<1> HIDE DEF n
<1>2. d.pool \subseteq Addrs
  BY DEF Database
<1>3. Spares(d, n)
  BY <1>1, <1>2 DEF Spares
<1> QED
  BY <1>3 DEF n

\* The entry of a key is not queued.
LEMMA DeleteSpares ==
  ASSUME NEW d, Consistent(d), NEW k \in Keys, d.map[k] # Null
  PROVE  Spares(d, entry_del(hm_delete(d, k), {d.map[k]}))
<1> DEFINE u == hm_delete(d, k)
<1>1. d \in Database /\ d.map[k] \in Addrs /\ d.map[k] \notin d.pool
  BY DEF Consistent, OrphansOK, Database
<1>2. u \in Database /\ u.ent = d.ent /\ u.pool = d.pool
  BY <1>1 DEF hm_delete, Database
<1> HIDE DEF u
<1>3. Spares(d, entry_del(u, {d.map[k]}))
  BY <1>1, <1>2, TeardownSpares
<1> QED
  BY <1>3 DEF u

\* A lookup leaves entries alone that are queued for a worker.
LEMMA LookupSpares ==
  ASSUME NEW d, Consistent(d), NEW k \in Keys, NEW t
  PROVE  Spares(d, lookup_entry(d, k, t))
<1>1. Spares(d, d)
  BY DEF Spares
<1> QED
  BY <1>1, DeleteSpares DEF lookup_entry

(* What a command may do after its lookup: nothing, tear the key's entry   *)
(* down, set its timer, write its value, or allocate a new entry.          *)
LEMMA HandlerSpares ==
  ASSUME NEW d, Consistent(d), NEW k \in Keys, NEW n,
         \/ n = d
         \/ d.map[k] # Null /\ n = entry_del(hm_delete(d, k), {d.map[k]})
         \/ n.pool = d.pool /\ n.ent = d.ent
         \/ d.map[k] # Null /\ n.pool = d.pool /\ \E v : n.ent = [d.ent EXCEPT ![d.map[k]] = v]
         \/ \E a \in Addrs : /\ d.ent[a] = Freed /\ n.pool = d.pool
                               /\ \E v : n.ent = [d.ent EXCEPT ![a] = v]
  PROVE  Spares(d, n)
<1>1. d \in Database /\ d.pool \subseteq Addrs /\ d.map[k] \notin d.pool
  BY DEF Consistent, OrphansOK, Database
<1>2. \A e \in d.pool : d.ent[e] # Freed
  BY DEF Consistent, OrphansOK
<1>3. CASE n = d \/ (n.pool = d.pool /\ n.ent = d.ent)
  BY <1>3 DEF Spares
<1>4. CASE d.map[k] # Null /\ n = entry_del(hm_delete(d, k), {d.map[k]})
  BY <1>4, DeleteSpares
<1>5. ASSUME NEW a \in Addrs \ d.pool, NEW v, n.pool = d.pool,
             n.ent = [d.ent EXCEPT ![a] = v]
      PROVE  Spares(d, n)
  BY <1>1, <1>5 DEF Spares, Database
<1>6. d.map[k] # Null => d.map[k] \in Addrs
  BY <1>1 DEF Database
<1> QED
  BY <1>1, <1>2, <1>3, <1>4, <1>5, <1>6, Zenon

\* Every command about a key spares the queued entries.
LEMMA CommandSpares ==
  ASSUME IInv, NEW k \in Keys,
         \/ do_get(k)
         \/ \E s \in Strs : do_set(k, s)
         \/ do_del(k)
         \/ \E n \in TtlArgs \cup {Bad}, unit_ms \in {Second, 1} : do_expire(k, n, unit_ms)
         \/ \E in_ms \in BOOLEAN : do_ttl(k, in_ms)
         \/ do_persist(k)
         \/ \E name \in Names :
              \/ \E score \in Scores \cup {Bad} : do_zadd(k, score, name)
              \/ do_zrem(k, name)
              \/ do_zscore(k, name)
              \/ \E score \in Scores \cup {Bad}, offset \in Offsets \cup {Bad},
                   limit \in Limits \cup {Bad} : do_zquery(k, score, name, offset, limit)
  PROVE  Spares(db, db')
<1> DEFINE d == lookup_entry(db, k, now)
           e == d.map[k]
           Handled ==
             \/ db' = d
             \/ e # Null /\ db' = entry_del(hm_delete(d, k), {e})
             \/ db'.pool = d.pool /\ db'.ent = d.ent
             \/ e # Null /\ db'.pool = d.pool /\ \E v : db'.ent = [d.ent EXCEPT ![e] = v]
             \/ \E a \in Addrs : /\ d.ent[a] = Freed /\ db'.pool = d.pool
                                   /\ \E v : db'.ent = [d.ent EXCEPT ![a] = v]
<1>1. Consistent(d) /\ d \in Database /\ Spares(db, d)
  BY LookupConsistent, LookupSpares DEF IInv, Consistent
<1>2. e # Null => e \in Addrs /\ d.ent[e] \in Entry
  BY <1>1 DEF Consistent, LinkedOK, Database
<1>3. Handled => Spares(db, db')
  <2> HIDE DEF d
  <2>1. Handled => Spares(d, db')
    BY <1>1, HandlerSpares, Zenon
  <2> HIDE DEF Handled
  <2> QED
    BY <1>1, <2>1, Zenon DEF Spares
<1>4. db' = db => Spares(db, db')
  BY Zenon DEF Spares
\* The updates of the database, as seen by its fields.
<1>5. \A ms, t : entry_set_ttl(d, e, ms, t).pool = d.pool /\ entry_set_ttl(d, e, ms, t).ent = d.ent
  BY <1>1 DEF entry_set_ttl, Database
<1>6. ASSUME NEW a \in Addrs, NEW ent \in Entry
      PROVE  /\ hm_insert(d, a, ent).pool = d.pool
             /\ hm_insert(d, a, ent).ent = [d.ent EXCEPT ![a] = ent]
  BY <1>1, Zenon DEF hm_insert, Database
<1>7. ASSUME NEW z
      PROVE  /\ [d EXCEPT !.ent[e].zset = z].pool = d.pool
             /\ [d EXCEPT !.ent[e].zset = z].ent = [d.ent EXCEPT ![e] = [@ EXCEPT !.zset = z]]
  BY <1>1, Zenon DEF Database
<1> HIDE DEF d
<1>8. CASE do_get(k)
  BY <1>3, <1>8, Zenon DEF do_get, d
<1>9. ASSUME NEW s \in Strs, do_set(k, s) PROVE Spares(db, db')
  <2> DEFINE w == [d EXCEPT !.ent[e].str = s]
             new == [key |-> k, type |-> T_STR, str |-> s, zset |-> EmptyZSet]
  <2>1. CASE db' = d
    BY <1>3, <2>1, Zenon
  <2>2. CASE e # Null /\ db' = entry_set_ttl(w, e, -1, now)
    <3>1. w.pool = d.pool /\ w.ent = [d.ent EXCEPT ![e] = [@ EXCEPT !.str = s]] /\ w.ttl = d.ttl
      BY <1>1, Zenon DEF Database
    <3>2. entry_set_ttl(w, e, -1, now).pool = w.pool /\ entry_set_ttl(w, e, -1, now).ent = w.ent
      BY <1>1 DEF entry_set_ttl, Database
    <3> QED
      BY <1>3, <2>2, <3>1, <3>2, Zenon
  <2>3. CASE e = Null /\ \E a \in Addrs : d.ent[a] = Freed /\ db' = hm_insert(d, a, new)
    <3>1. new \in Entry
      BY DEF Entry, EmptyZSet, ZSet
    <3> HIDE DEF new
    <3>3. PICK a \in Addrs : d.ent[a] = Freed /\ db' = hm_insert(d, a, new)
      BY <2>3
    <3>4. db'.pool = d.pool /\ db'.ent = [d.ent EXCEPT ![a] = new]
      BY <1>6, <3>1, <3>3
    <3> QED
      BY <1>3, <3>3, <3>4, Zenon
  <2> QED
    BY <1>9, <2>1, <2>2, <2>3, Zenon DEF do_set, d
<1>10. CASE do_del(k)
  BY <1>3, <1>10, Zenon DEF do_del, d
<1>11. ASSUME NEW n \in TtlArgs \cup {Bad}, NEW unit_ms \in {Second, 1}, do_expire(k, n, unit_ms)
       PROVE  Spares(db, db')
  <2>1. \/ db' = db \/ db' = d
        \/ e # Null /\ db' = entry_del(hm_delete(d, k), {e})
        \/ \E t : db' = entry_set_ttl(d, e, ClampedMs(n, unit_ms), t)
    BY <1>11, Zenon DEF do_expire, d
  <2>2. CASE \E t : db' = entry_set_ttl(d, e, ClampedMs(n, unit_ms), t)
    <3>1. db'.pool = d.pool /\ db'.ent = d.ent
      BY <1>5, <2>2, Zenon
    <3> QED
      BY <1>3, <3>1, Zenon
  <2> QED
    BY <1>3, <1>4, <2>1, <2>2, Zenon
<1>12. ASSUME NEW in_ms \in BOOLEAN, do_ttl(k, in_ms) PROVE Spares(db, db')
  BY <1>3, <1>12, Zenon DEF do_ttl, d
<1>13. CASE do_persist(k)
  <2>1. db' = d \/ db' = entry_set_ttl(d, e, -1, now)
    BY <1>13 DEF do_persist, d
  <2>2. CASE db' = entry_set_ttl(d, e, -1, now)
    <3>1. db'.pool = d.pool /\ db'.ent = d.ent
      BY <1>5, <2>2, Zenon
    <3> QED
      BY <1>3, <3>1, Zenon
  <2> QED
    BY <1>3, <2>1, <2>2, Zenon
<1>14. ASSUME NEW name \in Names, NEW score \in Scores \cup {Bad}, do_zadd(k, score, name)
       PROVE  Spares(db, db')
  <2> DEFINE new == [key |-> k, type |-> T_ZSET, str |-> EmptyStr,
                     zset |-> zset_insert(EmptyZSet, name, score)]
  <2>1. CASE db' = db \/ db' = d
    BY <1>3, <1>4, <2>1, Zenon
  <2>2. CASE e # Null /\ db' = [d EXCEPT !.ent[e].zset = zset_insert(@, name, score)]
    <3>1. db' = [d EXCEPT !.ent[e].zset = zset_insert(d.ent[e].zset, name, score)]
      BY <1>1, <1>2, <2>2 DEF Database
    <3> QED
      BY <1>3, <1>7, <2>2, <3>1, Zenon
  <2>3. CASE score # Bad /\ \E a \in Addrs : d.ent[a] = Freed /\ db' = hm_insert(d, a, new)
    <3>1. zset_insert(EmptyZSet, name, score) \in ZSet
      BY <2>3 DEF ZSet, EmptyZSet, zset_insert
    <3>2. new \in Entry
      BY <3>1, StrsAssumption DEF Entry
    <3> HIDE DEF new
    <3>3. PICK a \in Addrs : d.ent[a] = Freed /\ db' = hm_insert(d, a, new)
      BY <2>3
    <3>4. db'.pool = d.pool /\ db'.ent = [d.ent EXCEPT ![a] = new]
      BY <1>6, <3>2, <3>3
    <3> QED
      BY <1>3, <3>3, <3>4, Zenon
  <2> QED
    BY <1>14, <2>1, <2>2, <2>3, Zenon DEF do_zadd, d
<1>15. ASSUME NEW name \in Names, do_zrem(k, name) PROVE Spares(db, db')
  <2>1. CASE db' = d
    BY <1>3, <2>1, Zenon
  <2>2. CASE e # Null /\ db' = [d EXCEPT !.ent[e].zset = zset_delete(@, name)]
    <3>1. db' = [d EXCEPT !.ent[e].zset = zset_delete(d.ent[e].zset, name)]
      BY <1>1, <1>2, <2>2 DEF Database
    <3> QED
      BY <1>3, <1>7, <2>2, <3>1, Zenon
  <2> QED
    BY <1>15, <2>1, <2>2, Zenon DEF do_zrem, d
<1>16. ASSUME NEW name \in Names, do_zscore(k, name) PROVE Spares(db, db')
  BY <1>3, <1>16, Zenon DEF do_zscore, d
<1>17. ASSUME NEW name, NEW score, NEW offset, NEW limit,
              do_zquery(k, score, name, offset, limit)
       PROVE  Spares(db, db')
  BY <1>3, <1>4, <1>17, Zenon DEF do_zquery, d
<1> QED
  BY <1>8, <1>9, <1>10, <1>11, <1>12, <1>13, <1>14, <1>15, <1>16, <1>17

(* Nothing but its worker changes an entry that is queued, and the worker  *)
(* only frees it: the loop and the pool never work on the same entry.      *)
THEOREM TeardownExclusive == Spec => QueuedEntriesUntouched
<1> DEFINE A == \A e \in db.pool : db'.ent[e] = db.ent[e] \/ db'.ent[e] = Freed
<1>1. ASSUME IInv, [Next]_vars PROVE A
  <2>1. Spares(db, db') => A
    BY DEF Spares
  <2>2. CASE do_keys \/ do_unknown \/ Tick \/ UNCHANGED vars
    BY <2>2 DEF do_keys, do_unknown, Tick, vars
  <2>3. CASE process_timers
    <3>1. PICK R \in ReapSets(db, now) : db' = entry_del(hm_delete_same(db, R), R)
      BY <2>3 DEF process_timers
    <3>2. R \in SUBSET Addrs /\ \A e \in R : HasTimer(db, e)
      BY <3>1 DEF ReapSets, DueSet, Overdue
    <3>3. db \in Database /\ \A e \in R : db.map[db.ent[e].key] = e /\ db.ent[e] \in Entry
      BY <1>1, <3>2 DEF IInv, Consistent, TimersOK, Database
    <3>4. R \cap db.pool = {}
      BY <1>1, <3>3 DEF IInv, Consistent, OrphansOK, Entry
    <3>5. /\ hm_delete_same(db, R) \in Database
          /\ hm_delete_same(db, R).ent = db.ent /\ hm_delete_same(db, R).pool = db.pool
      BY <3>3 DEF hm_delete_same, Database
    <3> QED
      BY <2>1, <3>1, <3>2, <3>3, <3>4, <3>5, TeardownSpares
  <2>4. ASSUME NEW e \in Addrs, entry_del_task(e) PROVE A
    <3>1. db'.ent = [db.ent EXCEPT ![e] = Freed] /\ db \in Database
      BY <1>1, <2>4 DEF entry_del_task, IInv, Consistent, Database
    <3> QED
      BY <3>1 DEF Database
  <2> QED
    BY <1>1, <2>1, <2>2, <2>3, <2>4, CommandSpares, Zenon DEF Next, do_request
<1> QED
  BY <1>1, Invariance, PTL DEF Spec, QueuedEntriesUntouched
=============================================================================
