---------------------------- MODULE ExpiringStore ----------------------------
(***************************************************************************)
(* What the keyspace promises a client: a store in which a key with a TTL  *)
(* is gone the moment its deadline arrives.  There are no entries, timers, *)
(* lookups or reapers here; expiry is part of the passage of time.         *)
(*                                                                         *)
(* Keyspace is shown to implement this specification: when expired keys    *)
(* are really removed, by a lookup or by the reaper, and who frees their   *)
(* memory, cannot be observed through any command.  KEYS is the exception: *)
(* it promises to list every key, but may list some that are gone.         *)
(***************************************************************************)
EXTENDS Values

CONSTANTS Keys, Strs, EmptyStr, Null, Absent, TtlArgs, Offsets, Limits, Bad,
          Second, Int64Max, MaxNow

VARIABLES store,   \* the value and deadline of each key that exists
          now,     \* the clock, in milliseconds
          reply    \* the last command and the reply it sent

svars == <<store, now, reply>>

Never == -1        \* the deadline of a key without a TTL
Item == [type : {"str", "zset"}, str : Strs, zset : ZSet, due : Nat \cup {Never}]

\* The first conjunct lets TLC drop the steps of other commands early.
Answer(cmd, k, val) ==
  /\ reply'.cmd = cmd /\ reply'.key = k
  /\ reply' = [cmd |-> cmd, key |-> k, val |-> val]
Exists(k) == store[k] # Absent
IsStr(k) == Exists(k) /\ store[k].type = "str"
IsZset(k) == Exists(k) /\ store[k].type = "zset"

\* The keys of s that still exist at time t.
Surviving(s, t) ==
  [k \in Keys |-> IF s[k] # Absent /\ s[k].due # Never /\ s[k].due =< t
                    THEN Absent ELSE s[k]]

\* The clock reaches t while the store becomes s.
AdvanceTo(s, t) == now' = t /\ store' = Surviving(s, t)

StoreInit ==
  /\ store = [k \in Keys |-> Absent]
  /\ now = 0
  /\ reply = [cmd |-> "none", key |-> Null, val |-> out_nil]

Wrong == out_err("ERR_TYPE")

Get(k) ==
  /\ Answer("get", k, IF ~ Exists(k) THEN out_nil
                      ELSE IF IsStr(k) THEN out_str(store[k].str) ELSE Wrong)
  /\ UNCHANGED <<store, now>>

Set(k, s) ==
  /\ Answer("set", k, IF IsZset(k) THEN Wrong ELSE out_nil)
  /\ store' = IF IsZset(k) THEN store
              ELSE [store EXCEPT ![k] = [type |-> "str", str |-> s,
                                         zset |-> EmptyZSet, due |-> Never]]
  /\ UNCHANGED now

Del(k) ==
  /\ Answer("del", k, out_int(IF Exists(k) THEN 1 ELSE 0))
  /\ store' = [store EXCEPT ![k] = Absent]
  /\ UNCHANGED now

ListKeys ==
  /\ reply'.cmd = "keys"
  /\ \E listed \in SUBSET Keys :
       /\ {k \in Keys : Exists(k)} \subseteq listed
       /\ Answer("keys", Null, out_keys(listed))
  /\ UNCHANGED <<store, now>>

\* The longest time, up to n units, that an int64_t of milliseconds can hold.
Granted(n, unit_ms) ==
  CHOOSE ms \in {i * unit_ms : i \in 1 .. n} :
    /\ ms =< Int64Max
    /\ \A i \in 1 .. n : i * unit_ms =< Int64Max => i * unit_ms =< ms

Expire(k, n, unit_ms) ==
  IF n = Bad
    THEN Answer("expire", k, out_err("ERR_ARG")) /\ UNCHANGED <<store, now>>
    ELSE /\ Answer("expire", k, out_int(IF Exists(k) THEN 1 ELSE 0))
         /\ IF Exists(k) /\ n > 0
              THEN \E t \in now .. MaxNow :
                     AdvanceTo([store EXCEPT ![k].due = t + Granted(n, unit_ms)], t)
              ELSE store' = [store EXCEPT ![k] = Absent] /\ UNCHANGED now

\* The least number of seconds that covers ms milliseconds.
InSeconds(ms) == CHOOSE s \in 0 .. ms : s * Second >= ms /\ (s - 1) * Second < ms

Ttl(k, in_ms) ==
  \E t \in now .. MaxNow :
    LET due == store[k].due
        ms == IF due > t THEN due - t ELSE 0
    IN  /\ Answer(IF in_ms THEN "pttl" ELSE "ttl", k,
                  out_int(IF ~ Exists(k) THEN -2
                          ELSE IF due = Never THEN -1
                          ELSE IF in_ms THEN ms ELSE InSeconds(ms)))
        /\ AdvanceTo(store, t)

Persist(k) ==
  LET timed == Exists(k) /\ store[k].due # Never
  IN  /\ Answer("persist", k, out_int(IF timed THEN 1 ELSE 0))
      /\ store' = IF timed THEN [store EXCEPT ![k].due = Never] ELSE store
      /\ UNCHANGED now

Zadd(k, score, name) ==
  LET z == IF IsZset(k) THEN store[k].zset ELSE EmptyZSet
  IN  /\ Answer("zadd", k, IF score = Bad THEN out_err("ERR_ARG")
                           ELSE IF IsStr(k) THEN Wrong
                           ELSE out_int(IF z[name] = NoScore THEN 1 ELSE 0))
      /\ store' = IF score = Bad \/ IsStr(k) THEN store
                  ELSE [store EXCEPT ![k] =
                          [type |-> "zset", str |-> EmptyStr,
                           zset |-> [z EXCEPT ![name] = score],
                           due |-> IF Exists(k) THEN store[k].due ELSE Never]]
      /\ UNCHANGED now

Zrem(k, name) ==
  /\ Answer("zrem", k, IF IsStr(k) THEN Wrong
                       ELSE out_int(IF IsZset(k) /\ store[k].zset[name] # NoScore
                                      THEN 1 ELSE 0))
  /\ store' = IF IsZset(k) THEN [store EXCEPT ![k].zset[name] = NoScore] ELSE store
  /\ UNCHANGED now

Zscore(k, name) ==
  /\ Answer("zscore", k, IF IsStr(k) THEN Wrong
                         ELSE IF IsZset(k) /\ store[k].zset[name] # NoScore
                                THEN out_dbl(store[k].zset[name]) ELSE out_nil)
  /\ UNCHANGED <<store, now>>

(* The pairs of a range query: from `offset` places after the first pair   *)
(* that is not before (score, name), up to `limit` elements, of which each *)
(* pair takes two.                                                         *)
InRange(z, p, offset, limit) ==
  LET start == Rank(z, p) + offset
  IN  {q \in Pairs(z) :
         /\ \E r \in Pairs(z) : ~ zless(r, p)
         /\ start >= 0 /\ Rank(z, q) >= start
         /\ 2 * (Rank(z, q) - start) + 2 =< limit}

Ascending(S) ==
  CHOOSE seq \in [1 .. Cardinality(S) -> S] :
    \A i, j \in 1 .. Cardinality(S) : i < j => zless(seq[i], seq[j])

Zquery(k, score, name, offset, limit) ==
  /\ reply'.cmd = "zquery" /\ reply'.key = k /\ reply'.limit = limit
  /\ reply' = [cmd |-> "zquery", key |-> k, limit |-> limit, val |->
                 IF Bad \in {score, offset, limit} THEN out_err("ERR_ARG")
                 ELSE IF IsStr(k) THEN Wrong
                 ELSE out_arr(IF ~ Exists(k) THEN <<>>
                              ELSE Ascending(InRange(store[k].zset, <<score, name>>,
                                                     offset, limit)))]
  /\ UNCHANGED <<store, now>>

Unknown ==
  /\ \E code \in {"ERR_UNKNOWN", "ERR_ARG"} :
       Answer("unknown", Null, out_err(code))
  /\ UNCHANGED <<store, now>>

Pass ==
  /\ UNCHANGED reply
  /\ now < MaxNow
  /\ AdvanceTo(store, now + 1)

StoreNext ==
  \/ \E k \in Keys :
       \/ Get(k) \/ Del(k) \/ Persist(k)
       \/ \E s \in Strs : Set(k, s)
       \/ \E n \in TtlArgs \cup {Bad}, unit_ms \in {Second, 1} : Expire(k, n, unit_ms)
       \/ \E in_ms \in BOOLEAN : Ttl(k, in_ms)
       \/ \E name \in Names :
            \/ Zrem(k, name) \/ Zscore(k, name)
            \/ \E score \in Scores \cup {Bad} : Zadd(k, score, name)
            \/ \E score \in Scores \cup {Bad}, offset \in Offsets \cup {Bad},
                 limit \in Limits \cup {Bad} : Zquery(k, score, name, offset, limit)
  \/ ListKeys \/ Unknown \/ Pass

StoreSpec == StoreInit /\ [][StoreNext]_svars
=============================================================================
