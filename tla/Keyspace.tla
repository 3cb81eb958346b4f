------------------------------ MODULE Keyspace ------------------------------
(***************************************************************************)
(* The keyspace of the server: Database and Entry (include/store), entry   *)
(* teardown (src/store/database.cpp), every command handler                *)
(* (src/server/command.cpp) and the expiry half of                         *)
(* Server::process_timers (src/server/server.cpp).                         *)
(*                                                                         *)
(* Entries are heap objects with an address, so that freeing one, reusing  *)
(* its memory and handing it to a worker thread are visible.  The hash     *)
(* index is a function from keys to addresses, the timer heap a function   *)
(* from addresses to deadlines and a sorted set a function from names to   *)
(* scores: what hashtable.h, heap.h and zset.h promise of them.            *)
(*                                                                         *)
(* The event-loop thread runs one handler at a time, so a handler is one   *)
(* action.  The clock moves on between handlers, and inside the handlers   *)
(* that read it twice.  Worker threads free queued entries at any time.    *)
(***************************************************************************)
EXTENDS Values

CONSTANTS Keys,                    \* the keys clients use
          Strs, EmptyStr,          \* string values; a new Entry holds EmptyStr
          Addrs, Null,             \* addresses of Entry objects; nullptr
          Freed,                   \* contents of an address with no object
          TtlArgs,                 \* integers given to EXPIRE and PEXPIRE
          Offsets, Limits,         \* integers given to ZQUERY
          Bad,                     \* an argument that does not parse
          Second,                  \* milliseconds in a second (1000)
          Int64Max,                \* largest int64_t
          k_large_container_size,  \* sets above this size are freed by a worker
          k_max_works,             \* keys reaped per pass of process_timers
          MaxNow                   \* bound: the clock stops here

ASSUME StrsAssumption == EmptyStr \in Strs
ASSUME AddrsAssumption == Null \notin Addrs /\ IsFiniteSet(Addrs)
ASSUME ArgsAssumption ==
  /\ TtlArgs \subseteq Int /\ Offsets \subseteq Int /\ Limits \subseteq Int
  /\ \A n \in TtlArgs : n =< Int64Max
  /\ Bad \notin Int
ASSUME ClockAssumption ==
  /\ Second \in Nat \ {0} /\ Int64Max \in Nat /\ Second =< Int64Max
  /\ MaxNow \in Nat /\ MaxNow =< Int64Max
ASSUME LimitsAssumption ==
  k_large_container_size \in Nat /\ k_max_works \in Nat \ {0}

VARIABLES db,     \* the Database, and the memory its entries live in
          now,    \* the monotonic clock, in milliseconds
          reply   \* the last command executed and the reply it sent

vars == <<db, now, reply>>

T_STR == "str"
T_ZSET == "zset"
NoTimer == -1     \* Entry::heap_idx = -1

Entry == [key : Keys, type : {T_STR, T_ZSET}, str : Strs, zset : ZSet]
ASSUME FreedAssumption == Freed \notin Entry

Database ==
  [map  : [Keys -> Addrs \cup {Null}],    \* the hash index
   ent  : [Addrs -> Entry \cup {Freed}],  \* what is at each address
   ttl  : [Addrs -> Nat \cup {NoTimer}],  \* the deadline of each timer
   pool : SUBSET Addrs]                   \* queued for teardown by a worker

-----------------------------------------------------------------------------
(* Timers and teardown (src/store/database.cpp).                           *)

\* The int64_t that an exact product is stored as.
Int64(x) == ((x + Int64Max + 1) % (2 * (Int64Max + 1))) - (Int64Max + 1)

entry_set_ttl(d, e, ttl_ms, t) ==
  [d EXCEPT !.ttl[e] = IF ttl_ms < 0 THEN NoTimer ELSE t + ttl_ms]

IsLarge(d, e) ==
  d.ent[e].type = T_ZSET /\ hm_size(d.ent[e].zset) > k_large_container_size

\* Slip: the timer outlives its entry.
entry_del_keeping_timer(d, E) ==
  LET large == {e \in E : IsLarge(d, e)}
  IN  [d EXCEPT
        !.ent  = [a \in Addrs |-> IF a \in E \ large THEN Freed ELSE d.ent[a]],
        !.pool = d.pool \cup large]
\* Slip: a large set is queued for a worker and also freed at once.
entry_del_twice(d, E) ==
  [d EXCEPT
    !.ttl  = [a \in Addrs |-> IF a \in E THEN NoTimer ELSE d.ttl[a]],
    !.ent  = [a \in Addrs |-> IF a \in E THEN Freed ELSE d.ent[a]],
    !.pool = d.pool \cup {e \in E : IsLarge(d, e)}]

(* entry_del for each entry of the set E: drop the timers, then queue the  *)
(* large sorted sets and free the other entries at once.                   *)
entry_del(d, E) ==
  LET large == {e \in E : IsLarge(d, e)}
  IN  [d EXCEPT
        !.ttl  = [a \in Addrs |-> IF a \in E THEN NoTimer ELSE d.ttl[a]],
        !.ent  = [a \in Addrs |-> IF a \in E \ large THEN Freed ELSE d.ent[a]],
        !.pool = d.pool \cup large]

\* Unlink by key (entry_eq), and by node identity (hnode_same).
hm_delete(d, k) == [d EXCEPT !.map[k] = Null]
\* Slip: the node is compared with a copy of itself and never found.
hm_delete_same_missing(d, E) == d
hm_delete_same(d, E) ==
  [d EXCEPT !.map = [k \in Keys |-> IF d.map[k] \in E THEN Null ELSE d.map[k]]]

\* new Entry(), filled in and linked under its key.
hm_insert(d, e, ent) ==
  [d EXCEPT !.map[ent.key] = e, !.ent[e] = ent, !.ttl[e] = NoTimer]

HasTimer(d, e) == d.ttl[e] # NoTimer
Overdue(d, e, t) == HasTimer(d, e) /\ d.ttl[e] =< t

\* Slip: an overdue key is reported as absent but its entry is not freed.
lookup_entry_leaking(d, k, t) ==
  IF d.map[k] # Null /\ Overdue(d, d.map[k], t) THEN hm_delete(d, k) ELSE d
\* Slip: no lazy expiry, the reaper is trusted to have been there.
lookup_entry_eager(d, k, t) == d

(* The Database after lookup_entry(key) at time t.  The pointer it returns *)
(* is the map field of the result at that key.                             *)
lookup_entry(d, k, t) ==
  IF d.map[k] # Null /\ Overdue(d, d.map[k], t)
    THEN entry_del(hm_delete(d, k), {d.map[k]})
    ELSE d

-----------------------------------------------------------------------------
Init ==
  /\ db = [map  |-> [k \in Keys |-> Null],
           ent  |-> [a \in Addrs |-> Freed],
           ttl  |-> [a \in Addrs |-> NoTimer],
           pool |-> {}]
  /\ now = 0
  /\ reply = [cmd |-> "none", key |-> Null, val |-> out_nil]

\* The command sends its one reply.
Reply(cmd, k, val) == reply' = [cmd |-> cmd, key |-> k, val |-> val]
WrongType == out_err("ERR_TYPE")

(* String commands. *)

do_get(k) ==
  LET d == lookup_entry(db, k, now)
      e == d.map[k]
  IN  /\ db' = d
      /\ Reply("get", k, IF e = Null THEN out_nil
                         ELSE IF d.ent[e].type # T_STR THEN WrongType
                         ELSE out_str(d.ent[e].str))
      /\ UNCHANGED now

\* Overwriting a string discards its TTL; a missing key gets a new Entry.
do_set(k, s) ==
  LET d == lookup_entry(db, k, now)
      e == d.map[k]
  IN  /\ \/ /\ e # Null /\ d.ent[e].type # T_STR
            /\ db' = d
            /\ Reply("set", k, WrongType)
         \/ /\ e # Null /\ d.ent[e].type = T_STR
            /\ db' = entry_set_ttl([d EXCEPT !.ent[e].str = s], e, -1, now)
            /\ Reply("set", k, out_nil)
         \/ /\ e = Null
            /\ \E a \in Addrs :
                 /\ d.ent[a] = Freed
                 /\ db' = hm_insert(d, a, [key |-> k, type |-> T_STR,
                                           str |-> s, zset |-> EmptyZSet])
            /\ Reply("set", k, out_nil)
      /\ UNCHANGED now

do_del(k) ==
  LET d == lookup_entry(db, k, now)
      e == d.map[k]
  IN  /\ db' = IF e = Null THEN d ELSE entry_del(hm_delete(d, k), {e})
      /\ Reply("del", k, out_int(IF e = Null THEN 0 ELSE 1))
      /\ UNCHANGED now

\* Walks the whole index: no lookup, so nothing is expired on the way.
do_keys ==
  /\ Reply("keys", Null, out_keys({k \in Keys : db.map[k] # Null}))
  /\ UNCHANGED <<db, now>>

(* TTL commands. *)

\* Slip: no clamp, the product overflows.
ClampedMs_wrapping(n, unit_ms) == Int64(n * unit_ms)
\* The TTL in milliseconds, clamped to the largest whole number of units.
ClampedMs(n, unit_ms) ==
  LET most == Int64Max \div unit_ms
  IN  Int64((IF n > most THEN most ELSE n) * unit_ms)

\* entry_set_ttl reads the clock again, at t, after the lookup at now.
do_expire(k, n, unit_ms) ==
  LET d == lookup_entry(db, k, now)
      e == d.map[k]
  IN  \/ /\ n = Bad
         /\ Reply("expire", k, out_err("ERR_ARG"))
         /\ UNCHANGED <<db, now>>
      \/ /\ n # Bad /\ (e = Null \/ n =< 0)
         /\ db' = IF e = Null THEN d ELSE entry_del(hm_delete(d, k), {e})
         /\ Reply("expire", k, out_int(IF e = Null THEN 0 ELSE 1))
         /\ UNCHANGED now
      \/ /\ n # Bad /\ e # Null /\ n > 0
         /\ \E t \in now .. MaxNow :
              /\ now' = t
              /\ db' = entry_set_ttl(d, e, ClampedMs(n, unit_ms), t)
         /\ Reply("expire", k, out_int(1))

\* The remaining time is computed from a second reading of the clock, at t.
do_ttl(k, in_ms) ==
  LET d == lookup_entry(db, k, now)
      e == d.map[k]
      cmd == IF in_ms THEN "pttl" ELSE "ttl"
  IN  /\ db' = d
      /\ \/ /\ e = Null
            /\ Reply(cmd, k, out_int(-2))
            /\ UNCHANGED now
         \/ /\ e # Null /\ ~ HasTimer(d, e)
            /\ Reply(cmd, k, out_int(-1))
            /\ UNCHANGED now
         \/ /\ e # Null /\ HasTimer(d, e)
            /\ \E t \in now .. MaxNow :
                 LET rem == IF d.ttl[e] > t THEN d.ttl[e] - t ELSE 0
                 IN  /\ now' = t
                     /\ Reply(cmd, k,
                          out_int(IF in_ms THEN rem
                                  ELSE (rem + Second - 1) \div Second))

do_persist(k) ==
  LET d == lookup_entry(db, k, now)
      e == d.map[k]
      timed == e # Null /\ HasTimer(d, e)
  IN  /\ db' = IF timed THEN entry_set_ttl(d, e, -1, now) ELSE d
      /\ Reply("persist", k, out_int(IF timed THEN 1 ELSE 0))
      /\ UNCHANGED now

(* Sorted-set commands.  expect_zset is lookup_entry and the type check.   *)

\* Slip: the score is stored without looking at whether it parsed.
do_zadd_unparsed(k, score, name) ==
  LET d == lookup_entry(db, k, now)
      e == d.map[k]
  IN  /\ \/ /\ e # Null
            /\ db' = IF d.ent[e].type # T_ZSET THEN d
                     ELSE [d EXCEPT !.ent[e].zset = zset_insert(@, name, score)]
         \/ /\ e = Null
            /\ \E a \in Addrs :
                 /\ d.ent[a] = Freed
                 /\ db' = hm_insert(d, a,
                            [key |-> k, type |-> T_ZSET, str |-> EmptyStr,
                             zset |-> zset_insert(EmptyZSet, name, score)])
      /\ Reply("zadd", k, out_int(1))
      /\ UNCHANGED now

do_zadd(k, score, name) ==
  LET d == lookup_entry(db, k, now)
      e == d.map[k]
  IN  /\ \/ /\ score = Bad
            /\ db' = db
            /\ Reply("zadd", k, out_err("ERR_ARG"))
         \/ /\ score # Bad /\ e # Null /\ d.ent[e].type # T_ZSET
            /\ db' = d
            /\ Reply("zadd", k, WrongType)
         \/ /\ score # Bad /\ e # Null /\ d.ent[e].type = T_ZSET
            /\ db' = [d EXCEPT !.ent[e].zset = zset_insert(@, name, score)]
            /\ Reply("zadd", k,
                     out_int(IF name \in Members(d.ent[e].zset) THEN 0 ELSE 1))
         \/ /\ score # Bad /\ e = Null
            /\ \E a \in Addrs :
                 /\ d.ent[a] = Freed
                 /\ db' = hm_insert(d, a,
                            [key |-> k, type |-> T_ZSET, str |-> EmptyStr,
                             zset |-> zset_insert(EmptyZSet, name, score)])
            /\ Reply("zadd", k, out_int(1))
      /\ UNCHANGED now

\* The last member leaves an empty set behind, still linked under its key.
do_zrem(k, name) ==
  LET d == lookup_entry(db, k, now)
      e == d.map[k]
      isset == e # Null /\ d.ent[e].type = T_ZSET
      found == isset /\ name \in Members(d.ent[e].zset)
  IN  /\ db' = IF found
                 THEN [d EXCEPT !.ent[e].zset = zset_delete(@, name)]
                 ELSE d
      /\ Reply("zrem", k, IF e # Null /\ ~ isset THEN WrongType
                          ELSE out_int(IF found THEN 1 ELSE 0))
      /\ UNCHANGED now

do_zscore(k, name) ==
  LET d == lookup_entry(db, k, now)
      e == d.map[k]
      isset == e # Null /\ d.ent[e].type = T_ZSET
      found == isset /\ name \in Members(d.ent[e].zset)
  IN  /\ db' = d
      /\ Reply("zscore", k, IF e # Null /\ ~ isset THEN WrongType
                            ELSE IF found THEN out_dbl(d.ent[e].zset[name])
                            ELSE out_nil)
      /\ UNCHANGED now

\* Slip: n =< limit.
EmitFrom_inclusive(z, r, limit) ==
  LET pairs == Cardinality({i \in 0 .. hm_size(z) - 1 - r : 2 * i =< limit})
  IN  [i \in 1 .. pairs |-> PairAt(z, r + i - 1)]
(* The pairs the loop of do_zquery emits from rank r on: its test n < limit*)
(* is made before each pair, and n grows by two with each pair.            *)
EmitFrom(z, r, limit) ==
  LET pairs == Cardinality({i \in 0 .. hm_size(z) - 1 - r : 2 * i < limit})
  IN  [i \in 1 .. pairs |-> PairAt(z, r + i - 1)]

ZqueryPairs(z, score, name, offset, limit) ==
  LET start == SeekOffset(z, <<score, name>>, offset)
  IN  IF start = {} \/ limit =< 0 THEN <<>>
      ELSE EmitFrom(z, CHOOSE r \in start : TRUE, limit)

do_zquery(k, score, name, offset, limit) ==
  LET d == lookup_entry(db, k, now)
      e == d.map[k]
      ZReply(val) ==
        reply' = [cmd |-> "zquery", key |-> k, val |-> val, limit |-> limit]
  IN  /\ \/ /\ Bad \in {score, offset, limit}
            /\ db' = db
            /\ ZReply(out_err("ERR_ARG"))
         \/ /\ Bad \notin {score, offset, limit}
            /\ db' = d
            /\ ZReply(IF e = Null THEN out_arr(<<>>)
                      ELSE IF d.ent[e].type # T_ZSET THEN WrongType
                      ELSE out_arr(ZqueryPairs(d.ent[e].zset, score, name,
                                               offset, limit)))
      /\ UNCHANGED now

\* No verb and arity match, or the command is empty.
do_unknown ==
  /\ \E code \in {"ERR_UNKNOWN", "ERR_ARG"} : Reply("unknown", Null, out_err(code))
  /\ UNCHANGED <<db, now>>

-----------------------------------------------------------------------------
(* The rest of the server, as the keyspace sees it.                        *)

(* process_timers reaps overdue entries from the heap's root until none is *)
(* left or k_max_works are gone: any choice of that many earliest ones.    *)
DueSet(d, t) == {e \in Addrs : Overdue(d, e, t)}
ReapSets(d, t) ==
  LET due == DueSet(d, t)
      work == IF Cardinality(due) > k_max_works THEN k_max_works
              ELSE Cardinality(due)
  IN  {R \in SUBSET due :
         /\ Cardinality(R) = work
         /\ \A e \in R, f \in due \ R : d.ttl[e] =< d.ttl[f]}

process_timers ==
  /\ \E R \in ReapSets(db, now) :
       db' = entry_del(hm_delete_same(db, R), R)
  /\ UNCHANGED <<now, reply>>

\* A worker runs entry_del_task: entry_del_sync of one queued entry.
entry_del_task(e) ==
  /\ e \in db.pool
  /\ db' = [db EXCEPT !.ent[e] = Freed, !.pool = @ \ {e}]
  /\ UNCHANGED <<now, reply>>

\* Time passes while the event loop waits or works.
Tick ==
  /\ now < MaxNow
  /\ now' = now + 1
  /\ UNCHANGED <<db, reply>>

\* do_request: dispatch of one parsed request.
do_request ==
  \/ \E k \in Keys :
       \/ do_get(k)
       \/ \E s \in Strs : do_set(k, s)
       \/ do_del(k)
       \/ \E n \in TtlArgs \cup {Bad}, unit_ms \in {Second, 1} :
            do_expire(k, n, unit_ms)
       \/ \E in_ms \in BOOLEAN : do_ttl(k, in_ms)
       \/ do_persist(k)
       \/ \E name \in Names :
            \/ \E score \in Scores \cup {Bad} : do_zadd(k, score, name)
            \/ do_zrem(k, name)
            \/ do_zscore(k, name)
            \/ \E score \in Scores \cup {Bad}, offset \in Offsets \cup {Bad},
                 limit \in Limits \cup {Bad} :
                 do_zquery(k, score, name, offset, limit)
  \/ do_keys
  \/ do_unknown

Next ==
  \/ do_request
  \/ process_timers
  \/ \E e \in Addrs : entry_del_task(e)
  \/ Tick

Spec == Init /\ [][Next]_vars

-----------------------------------------------------------------------------
(* Properties.                                                             *)

\* Every field of the database and the clock stay in their types.
TypeOK == db \in Database /\ now \in 0 .. MaxNow

LinkedOK(d) ==
  \A k \in Keys : d.map[k] # Null =>
    d.ent[d.map[k]] # Freed /\ d.ent[d.map[k]].key = k
TimersOK(d) ==
  \A e \in Addrs : HasTimer(d, e) =>
    d.ent[e] # Freed /\ d.map[d.ent[e].key] = e
OrphansOK(d) ==
  \A e \in d.pool : d.ent[e] # Freed /\ \A k \in Keys : d.map[k] # e
ReachableOK(d) ==
  \A e \in Addrs : d.ent[e] # Freed => e \in d.pool \/ d.map[d.ent[e].key] = e

(* The hash index never points at freed memory or at another key's entry,  *)
(* whichever of DEL, EXPIRE, lazy expiry and the reaper removed a key.     *)
LinkedEntriesLive == LinkedOK(db)

(* A timer always belongs to an entry that is alive and linked: the reaper *)
(* may follow the root's back-pointer (container_of) and unlink the entry. *)
TimersOfLinkedEntries == TimersOK(db)

(* An entry queued for a worker has left the index and the timer heap, as  *)
(* the comment in entry_del says, and is not freed twice.                  *)
QueuedEntriesOrphaned ==
  OrphansOK(db) /\ \A e \in db.pool : ~ HasTimer(db, e)

\* Every allocated entry can still be reached or is about to be freed.
NothingLeaks == ReachableOK(db)

(* No step of the event loop writes an entry that is queued for a worker,  *)
(* and its memory is not reused before the worker has freed it.            *)
QueuedEntriesUntouched ==
  [][\A e \in db.pool : db'.ent[e] = db.ent[e] \/ db'.ent[e] = Freed]_vars

(* "no handler ever observes a key past its TTL deadline" (command.cpp:7), *)
(* for the keys that KEYS lists.                                           *)
NoOverdueKeyListed ==
  [][reply'.cmd = "keys" /\ reply' # reply =>
       \A k \in reply'.val.keys : ~ Overdue(db, db.map[k], now)]_vars
=============================================================================
