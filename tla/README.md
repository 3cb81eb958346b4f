# mini-redis in TLA+

TLA+ models of the mini-redis server and its client, checked with TLC on small
instances; what is proved with TLAPS holds for every instance. Paths below are
relative to the repository. `PROJECT.json` maps every definition to the lines it
models and lists runs, mutants, hazards and theorems.

## The system

One process, one event-loop thread, a pool of worker threads.

| Part | Source | State | What changes it | What it promises |
|---|---|---|---|---|
| Server loop | `src/server/server.cpp`, `include/server/server.h` | `conns_`, `idle_list_`, poll set | `run`, `accept_new`, `handle_read`, `try_one_request`, `handle_write`, `process_timers` | sleeps at most until the nearest timer; executes every complete pipelined frame; a connection reads or writes, never both |
| Conn | `include/server/conn.h` | buffers, `want_*`, `last_active_ms` | the loop | its destructor detaches and closes |
| Keyspace | `src/server/command.cpp`, `src/store/database.cpp`, `include/store/*.h` | `Database` = hash index + TTL heap + pool | 13 commands, lazy expiry, reaper | no overdue key is seen; large sets are freed by workers |
| ThreadPool | `src/threadpool/thread_pool.cpp` | `queue_`, `mu_`, `stop_`, threads | `queue`, `worker_loop`, destructor | every task once; the destructor drains |
| HMap | `src/store/hashtable.cpp` | two tables, `migrate_pos` | insert, lookup, delete (each migrates nodes), clear | a dictionary at every moment of a migration |
| TimerHeap | `src/ds/heap.cpp` | array with back-pointers | upsert, delete | the root is the minimum; `heap_idx` is in step |
| AVL, ZSet | `src/ds/avl.cpp`, `src/ds/zset.cpp` | tree + name index | insert, update, delete, clear, seek, offset | both indexes hold the same pairs, in order and by rank |
| DList | `include/ds/dlist.h` | ring of nodes | detach, insert before | |
| Wire, serializer | `src/protocol/*.cpp` | none | | frames of at most `MAX_MSG`, tagged replies |
| Client, io_helpers | `client/client.cpp`, `src/net/io_helpers.cpp` | a blocking stream | one command at a time | prints the reply it got |
| Socket, main, log, hash, clock | `src/net/socket.cpp`, `src/main.cpp`, `include/common` | a descriptor | | |

Components that `docs/architecture.md` describes but for which there is no code
(AOF, RDB, LRU, Pub/Sub, a command table class, a benchmark) are listed as not
modelled.

How they interact: the loop reads bytes, `try_one_request` cuts frames and calls
`do_request`, handlers change the `Database` (a map of entries, a heap of their
deadlines, sorted sets as values), `entry_del` may pass an entry to the pool, and
the loop's `poll` timeout is computed from the idle list and the TTL heap, which
`process_timers` then works off.

## Modules

The models meet at abstract specifications: a component is modelled over what
the components below it promise, and those are shown to keep the promise.

| Module | Models | State |
|---|---|---|
| `Values` | replies, sorted sets as functions with ranks | none |
| `Keyspace` | `Database`, `Entry`, all handlers, reaper, teardown | `db` (index, memory, timers, worker queue), `now`, `reply` |
| `ExpiringStore` | abstract: a store in which a key is gone at its deadline; implemented by Keyspace | `store`, `now`, `reply` |
| `KeyspaceStore` | Keyspace as its clients see it: the refinement mapping `VisibleStore` to ExpiringStore | |
| `ThreadPool` | the pool at the granularity of mutex and condition variable | `queue_`, `mu_`, `stop_`, `pc`, `task`, and the history `given`, `runs` |
| `TaskPool` | abstract: submit, finish, close when empty; implemented by ThreadPool | `pending`, `finished`, `closed` |
| `HashMap` | the two tables and the migration between them | `newer`, `older`, `migrate_pos`, and the call under way |
| `Dictionary` | abstract: a set of nodes; implemented by HashMap, used by Keyspace and SortedSet | `contents`, `ret` |
| `TimerHeap` | the array, the index fields, the two sifting loops | `a`, `size`, `heap_idx`, `pos`, `t` |
| `TimerSet` | abstract: a deadline per owner; implemented by TimerHeap, used by Keyspace and EventLoop | `timers` |
| `AVL` | the tree's operations on its pointers, as operators | none |
| `SortedSet` | a ZSet: AVL tree and name index | `root`, `node`, `score`, `hmap`, `alive` |
| `ScoredSet` | abstract: a score per name; implemented by SortedSet, used by Keyspace | `z`, `ret` |
| `EventLoop` | the poll loop, its connections, timers, clients, the network | `pc`, `conns_`, `conn`, `idle_list_`, `ttl`, ... |
| `Wire` | client, encoder, parser, serializer, printer, as bytes | streams, buffers, the command and its reply |
| `MCKeyspace`, `MCHashMap`, `MCTimerHeap`, `MCSortedSet`, `MCEventLoop`, `MCWire` | the models for TLC: inputs and symmetry | |
| `KeyspaceProofs`, `StoreProofs`, `ThreadPoolProofs`, `HashMapProofs`, `TimerHeapProofs`, `EventLoopProofs`, `LoopProofs`, `WireProofs` | theorems; `StoreProofs` builds on `KeyspaceProofs`, `LoopProofs` on `EventLoopProofs` | |

Definitions keep the names of the source. An operator with a comment that starts
"Slip:" is a plausible bug, used to show that a property can fail; no
specification uses it.

### Keyspace

The loop thread runs one handler at a time, so a handler is one action, and it
includes the lazy expiry that its lookup does. Entries have addresses: an address
is `Freed`, linked in the index, or queued for a worker, and a freed address can
be allocated again. `entry_set_ttl` and `do_ttl` read the clock a second time;
the clock may move between the two readings. Integers of TTL commands have the
width `Int64Max`; the product is stored through `Int64`, which wraps. `Bad`
stands for an argument that does not parse. Worker threads are `entry_del_task`;
ThreadPool justifies that it is taken once, at any time, for each queued entry.

Abstracted: bytes of keys and values, the order in which `KEYS` lists, the
wording of errors. Names are numbers, their place in the byte order, and scores
are integers. Scores that are not numbers or infinite are not in the model. The
index, the heap and the sorted set are functions: the promises of Dictionary,
TimerSet and ScoredSet.

### ThreadPool

What happens between a lock and the following unlock is one step, except
`wait()`: a worker that found nothing to do (`Test`) holds the mutex until it is
on the condition variable (`Sleep`), and others run in between. `notify_one` and
`notify_all` are steps of their own because the code calls them after the unlock.
Leaving the loop body releases the mutex if it is still held (`lock` is a scoped
`unique_lock`), which `Run` includes; the code has released it before, and
`TasksRunUnlocked` says so. Wakeups may be spurious. Producers may call `queue()` only until destruction
starts, which is the contract of any C++ object.

### HashMap

A call is the operation around its call of `hm_help_rehashing`, whose loop takes
one step per iteration, so the walk over empty slots and the work limit are
explicit. A chain is the set of its nodes: insertion is at its head and no caller
depends on the order. `hcode` is any function. `hm_insert` takes any node that is in
neither table, whether or not a lookup came before it: lazy expiry deletes and then
inserts, and the first insert of a sorted set looks nothing up. So an insert also
meets an `older` that a delete has emptied and nobody has freed yet. `k_max_load_factor`,
`k_rehashing_work` and the first capacity are constants; capacities double. The
code counts the nodes it moves, not the slots it visits (the comment at
`src/store/hashtable.cpp:46` speaks of slots); the model counts nodes.

### TimerHeap

`heap_upsert` and `heap_delete` are called by `entry_set_ttl` only. One step is
one iteration of `heap_up` or `heap_down`, with the item in hand, the hole in the
array, and the index field that each move writes through `ref`. Between these
steps nothing else runs; they are steps so that the loop invariant can be stated.

### AVL and SortedSet

The tree has its parent, left and right pointers, heights and counts. Its
operations are operators over the map from nodes to records, following the code
line by line as to which link is written from which; left and right versions are
one definition with the side as a parameter. An operation of the sorted set is
one action. A node is known by its name. `zset_lookup` and the clear are included,
and memory is tracked (`alive`), so that a node in one index and freed through the
other would show.

### EventLoop

One step is one call made by `run()`. Clients connect, send, read, half-close and
reset, and the clock moves, between any two steps. A frame is two units, header
and body, and a read or a write moves any number of units. Requests differ only
in being oversized, in touching the timer of a key, or neither. `revents` is
poll's contract as the loop uses it. `accept` gives out the lowest free
descriptor, of which there are `MaxFd`. The `int32_t` cast of the poll timeout
has the width `Int32Max`.

Abstracted: the bytes of a header (a header cut in the middle acts like one that
has not arrived; the bytes are in Wire), `poll` failing with an error other than
`EINTR` (the process dies), the constructor.

### Wire

A `u32` is `Width` digits in base `Base`, least significant first; in the code 4
and 256. `send_command` encodes, `write_all` and `read_full` move any number of
bytes per step, `try_one_request` parses and serializes. The server may close at
any moment.

The loop of `parse_req` is the recursive function `Arguments`, one `Argument` per
turn. A reply is the sequence of `out_` calls that a handler makes: an array is its
header followed by the calls for its elements, as in the code, and a reply is one
value when the headers ask for exactly the calls that follow (`IsReply`).
`print_value` calls itself for the elements of an array and stops at the first
failure; the model keeps the number of values that the open calls still wait for
(`left`), which is all that the nesting does to the bytes consumed and the lines
printed. Indentation is left out. `resp` holds the bytes given to `print_value`.

`Answers` is `do_request` as far as the length of a reply goes. A body that does not
parse and the empty command get `ERR_ARG`. `KEYS` lists all keys of one of the
contents in `Stored`, each of which a `SET` within `MAX_MSG` can have stored. Any other
command gets one of the `Replies` for its number of strings, whose values are left
open; what the handlers compute is in Keyspace. `ERR_ARG` has an empty text. `ZQUERY`
takes six strings, more than the run's commands have. Other programs send whole
frames with arbitrary bodies, which meet the parser only.

## Runs

| Run | Instance | Shows |
|---|---|---|
| `keyspace_lifetimes` | 2 keys, 3 addresses, sets with a member are large, reaper of one key per pass, clock to 2 | types; no dangling index slot, stray timer, shared orphan or leak; queued entries untouched; replies are ExpiringStore's while keys are overdue, reaped late and freed asynchronously |
| `keyspace_commands` | 1 key, 2 strings, 2 names, 2 scores, TTL beyond the clamp, ZQUERY offsets -1, 0, 1 and limits 0, 2, 4 | every reply is the one ExpiringStore gives |
| `pool` | 3 workers, 2 producers, 3 tasks | once each and outside the lock, no lost wakeup, drained; the destructor returns; implements TaskPool, fairness included |
| `hash_map` | 6 nodes, colliding hashes, capacities 1, 2, 4, one node moved per operation | nodes are in one table and in their slot; `migrate_pos` in range; a migration ends before the next growth; implements Dictionary; calls return |
| `timer_heap` | 6 owners, 3 deadlines | index fields and array agree; the root is nearest; implements TimerSet |
| `sorted_set` | 10 names, one of which is rescored | tree balanced, sorted, with exact heights and counts; both indexes agree; every offset walk ends at the right rank; implements ScoredSet |
| `loop_streams` | 1 connection, 3 requests, any of them oversized, 2 keys, one reaped per pass | replies in order, whole, once; no stranded request; back-pressure; a half-closed client gets its replies; requests are answered, silent connections closed, due keys reaped |
| `loop_conns` | 3 connections on 2 descriptors, 1 key, clock to 1 | tables, idle list and pending events agree; the list is sorted, the sweep exact, poll wakes in time |
| `wire` | 2 commands of up to 3 strings per session, on both sides of `MAX_MSG`, a store of up to 2 keys, every body of up to 6 bytes | the parser accepts exactly the encodings; the client prints exactly the reply or fails; every command ends |
| `keyspace_keys_finding`, `loop_poll_finding`, `wire_reply_finding` | | violations, see below |

Bounds, all of them named constants:

* Keyspace: two keys and three addresses are the least with which one entry is
  linked, one queued and one allocated again. A width of a few units makes the
  clamp, the wrap and the rounding happen (`Second` = 2, `Int64Max` = 5). A reaper
  limit of 1 makes the remainder happen with two keys.
* ThreadPool: two workers can compete for a task; the third leaves one asleep
  while two compete.
* HashMap: six nodes at load factor 2 make the table grow twice, so that an
  operation meets every stage of a migration, and the second growth follows the
  first as closely as it can. One node per operation is the slowest migration.
* TimerHeap: six items give three levels, the last with two parents, which is
  what a removal that sifts up needs.
* SortedSet: ten nodes give four levels, every single and double rotation and
  successors at any depth. Two rotations in one removal need twelve nodes; that
  instance was checked too (109,522 states, no error) but is too slow to keep.
* EventLoop: three requests with a send buffer of three units give a batch cut
  inside a frame in both directions. Three connections on two descriptors give
  both reuse and exhaustion. The clock stops at `MaxNow`; deadlines after it are
  never due.
* Wire: words of two digits in base 6, so that lengths have a second digit;
  `MAX_MSG` = 10 lies between the lengths of the commands in use and between the
  listings of one and of two keys. Five arguments are what fits a body of that length.

`pool` and `wire` are run without deadlock checking: a pool that nobody uses and
nobody destroys may stand still, and a session ends. What must not stand still is
stated as liveness (`DestructorReturns`, `CommandsEnd`). Symmetry
is used for addresses, connections, keys and timer owners, which nothing orders,
and only in runs without liveness properties.

### Fairness

* ThreadPool: weak fairness for each thread's own steps; strong fairness where a
  thread waits for the mutex, which is freed again and again by workers that wake
  up spuriously. Nothing obliges a producer to call or the owner to destroy.
* EventLoop: the loop goes on (weak). Strong fairness for `PollReturn`,
  `ReadData` and `WriteData` says that signals do not interrupt every single
  `poll`, and that a descriptor reported ready does not answer `EAGAIN` every
  single time. The clock moves, and clients read what was sent to them.
* HashMap: an operation that has begun goes on (weak fairness of the loop); it is
  a plain function call.
* Wire: bytes move and the server answers what reaches it (weak), which
  `RequestsAnswered` of EventLoop justifies. A server that closes lets the client
  end with an error.

## Findings

* `KEYS` lists overdue keys that nobody has removed yet
  (`src/server/command.cpp:118`), while its header comment and the repository's
  README say no command ever sees one.
* The poll timeout is cast to `int32_t` (`src/server/server.cpp:165`): with a key
  due in 30 days and no connection the timeout is negative and `poll` waits for
  I/O only, against "sleeping at most until the nearest timer is due".
* A reply can be longer than `MAX_MSG` (`src/server/server.cpp:122`): `KEYS` over a
  few thousand keys is one, and the client refuses it as a bad reply, while the
  repository's README limits messages in both directions. In the run two keys are
  enough, each short enough to be set. A long `ZQUERY` does the same in the code; it
  is not in the run.

One more disagreement has no run of its own: `ZQUERY` with an odd limit sends one
element more than "up to `limit` output elements" (`src/server/command.cpp:230`
against `:252`; the repository's README says at `:1072` that `limit` counts output
elements). ExpiringStore promises at most `limit` elements, so Keyspace implements it
for even limits only: `keyspace_commands` uses even ones, and the theorem has the
hypothesis `EvenLimits`. For every limit, `ZqueryOvershoot` proves that the excess is
at most that one element.

The other runs keep clear of these findings: ExpiringStore lets `KEYS` list more;
`loop_conns` uses deadlines that
fit the width; `ReplyExact` lets the client give up on a reply that is too long.

## Proofs

Each theorem holds for every value of the constants that satisfies the named
`ASSUME` of the module it is about.

**Keyspace** (`KeyspaceProofs`): types, `LinkedEntriesLive`,
`TimersOfLinkedEntries`, `QueuedEntriesOrphaned`, `NothingLeaks`, and the action
property `QueuedEntriesUntouched`. None of them is inductive alone: a
timer may be followed only because the entry it belongs to is linked, an entry
may be queued only because it is linked under one key and has just been unlinked,
and the two together are what rules out leaks. The inductive invariant
`Consistent(db)` is their conjunction with the type; each operation on the
database is shown once to preserve it, each handler from that. `Spares` says of an
operation that it leaves queued entries alone; it holds for each operation because
handlers reach entries through the index only, and queued entries are not in it.
`ClampNeverWraps` shows that the TTL product of `EXPIRE` never overflows.
Assumptions: finite address and name sets, markers outside the sets they mark,
arguments and the clock bound within `Int64Max`.

**Keyspace implements ExpiringStore** (`StoreProofs`): `ImplementsExpiringStore`, for
any keys, strings, names, scores, arguments and addresses. The mapping is
restated as what is seen of a database at a time (`Seen`), so that each operation
on the database has one lemma: unlinking what is overdue changes nothing that is
seen, storing an entry under its key (`Puts`) changes what is seen of that key
only, and letting time pass drops what falls due. Each handler then comes down to
what its lookup finds (`LookedUp`) and one of those lemmas; the reaper and the
workers are stuttering steps. Beyond `IInv` of `KeyspaceProofs` the argument needs

* `Plain(db)`: a string entry has no members and a sorted set no string, which
  makes overwriting in place the same as storing a new item;
* the arithmetic of TTLs: the clamp of `do_expire` gives what the abstract store
  grants (`GrantedMs`), and rounding up to seconds agrees (`WholeSeconds`);
* the order of a sorted set: ranks number its pairs without gaps (`RankOrders`,
  `PairAtRank`), a finite set has one ascending list (`ListsOnce`), and what the
  seek, the walk by offset and the loop of `do_zquery` emit is that list of the
  range (`EmitLists`, `ZqueryExact`), if the limit is even.

Assumption besides those of Keyspace: `Absent` is not an item. Hypothesis of the
theorem: `EvenLimits`, the limits given to `ZQUERY` are even; with an odd one it is
false (see Findings). `ZqueryOvershoot` needs no such hypothesis.

**ThreadPool** (`ThreadPoolProofs`): types, `ExactlyOnce`, `NoForgottenTask`,
`NobodySleepsThroughStop`, `DrainedBeforeGone`, `TasksRunUnlocked`, and that the
pool implements `TaskPool!PoolSpec`. The
invariant `IInv` adds what the program counters say: the mutex is held between
steps only by a worker inside `wait()`, and then the queue is empty and `stop_`
is unset (`LockOK`, the reason no wakeup is lost); `stop_` follows the destructor
(`StopOK`); a worker leaves only when the queue is empty for good (`ExitOK`); a
thread holds a task exactly while it queues or runs it (`HandOK`). Assumption:
at least one worker, distinct threads.

**HashMap** (`HashMapProofs`): `TablesExact`, `GrowthKeepsPace` and
`ImplementsDictionary`, for any finite set of nodes, any hash function, load factor,
first capacity and work limit. That `migrate_pos` stays in the array follows from
the slots below it being empty while `size` counts the nodes: as long as nodes are
left, one is at or above `migrate_pos`. `GrowthKeepsPace` needs an account of the
migration, `Pace`: the size of `newer` plus twice what is left in `older` stays
below the load limit of `newer`, since every insert adds one node and moves at least
one, and `newer` has twice the room of `older`. It bounds the nodes per slot on average
over the table; how long one chain gets depends on the hash. `Answers` keeps track of
the call under way, whose answer an insert has fixed when it starts.

**TimerHeap** (`TimerHeapProofs`): `IndexInSync`, `RootIsNearest` and
`ImplementsTimerSet`, for any owners and deadlines. The invariant describes the array
with a hole: it would be a heap if the hole were closed up (`HeapAround`), the item
in hand belongs at the hole or further in the direction of the loop (`InHand`), and
all index fields are right but the one of the item in hand and of the owner that is
leaving (`SyncedBut`). That the root is the minimum is well-founded induction along
parents, done by a least counterexample.

**EventLoop**, for any number of clients, descriptors, keys and requests:

* `EventLoopProofs`: `TablesAgree`. The invariant `Tables` adds `Order`: events
  still to be handled are of different descriptors, so that closing one connection
  cannot leave an event of the same descriptor behind; `accept_new` runs before
  any event is handled and gives out descriptors that are free and hence have none;
  a connection that is not open has no state. The lemmas named `...Shape` say what
  each step does field by field; `LoopProofs` uses them.
* `LoopProofs`, timers: `IdleListSorted`, and from it `SweepExact`. Inductive together
  with "no connection was active in the future", without which a refreshed
  connection need not belong at the back. Then `TypeOK`, which is more than
  types: no client gets more than it asked for, because what it has got and what
  is in the four segments on the way never add up to more than it sent
  (`Counts`); clock, deadlines and poll's timeout stay numbers (`Clocks`).
  From the sorted list also `WakesInTime`: the front of the list and the root of
  the heap stand for all deadlines (`ConsultedSuffice`). This one is proved under
  the hypothesis `TimeoutsFit`, that the idle timeout and the TTLs in use fit an
  `int32_t`; then no deadline is ever further ahead than that (`KeysNear`) and
  the cast changes nothing. Without the hypothesis it is false: that is the run
  `loop_poll_finding`.
* `LoopProofs`, streams: `StreamsExact`, `NoStrandedRequest`, `BackPressure` and
  `OrderlyClose`. Their invariant `StreamInv` keeps the four segments of a
  connection's streams consecutive (`Streams`) and the number of answered units
  even, so that a frame always starts at the front of `incoming`; it says who may
  hold more than a piece of a frame (`Drained`), that a connection that reads has
  nothing to write except inside its own batch (`Turns`), and why a connection is
  about to be closed (`Ends`), which is what `OrderlyClose` comes down to.

**Wire** (`WireProofs`): `ParseExact` and `ReplyExact`, for words of any width in any
base with room for the six tags, any limits, commands, bodies and replies. In three
layers:

* the formats, as facts about operators. Reading a word gives back what was written
  (`NumberBytes`, and `BytesNumber` the other way round). Pieces joined together can be
  cut apart at the sums of their lengths (`Cuts`, with `JoinedCuts` and `CutsJoined`).
  From these: `parse_req` accepts only encodings (`ParseSound`) and every encoding of at
  most `MAX_MSG` bytes (`ParseComplete`); one turn of the printing loop prints the call
  whose bytes come next if they are all there, and fails if not (`CallPrints`,
  `PrintNextAt`); hence a whole reply is printed as it was written and every proper
  prefix of it fails (`PrintsExactly`);
* the conversation. The invariant `Conversation` says for each thing the client may be
  doing what lies between it and the server: a request stays whole until the server
  takes all of it, what has been read and what is on its way make up the reply, and
  `need` is what is left of it. `ReplyExact` alone is not inductive, since it says
  nothing while the bytes move. `Conversation` was model-checked on the instance of
  the run `wire` before it was proved;
* `ParseSafe` and `ReplySafe`, from both.

The loops are recursive functions on an interval of numbers. What they compute is
shown by exhibiting a function that satisfies the recursion (`Iterate`, or an explicit
one) and comparing the two up to a least difference (`Climb`), so no induction scheme
is needed. That the listing of `KEYS` is one value is proved (`ListingIsReply`), that the
other replies are is assumed. Further assumptions: `MAX_MSG` and the lengths of bodies
and replies fit a word, and a request with more than `k_max_args` arguments would be longer than `MAX_MSG`, which
is what the comment at `src/protocol/wire.cpp:6` relies on.

Only model-checked:

* all liveness (`DestructorReturns`, the fair half of
  `ImplementsFairTaskPool`, `RequestsAnswered`, `SilentConnsClosed`,
  `DueKeysReaped`, `CallsReturn`, `CommandsEnd`), which is out of the prover's reach;
* SortedSet (`TreeExact`, `RanksExact`, `ImplementsScoredSet`): the tree's operations
  climb and descend by recursive operators over a shape that is itself defined by
  recursion, and what they do to every tree needs induction over that shape.

## Plan

1. `Server`: EventLoop, Keyspace and ThreadPool composed, so that replies seen by
   clients are those of ExpiringStore in request order.
2. `DList` at the level of its pointers, implementing the sequence `idle_list_`.
3. Numeric parsing of command arguments.

## Not modelled

* Socket set-up in the constructor, which dies on any error, and `Socket`, an owning
  descriptor used once. `connect_to` and the splitting of a line into words in the
  client. `main`, logging, the build: no state that anything depends on.
* `~Server`, which no path reaches, since `run()` does not return.
* Signals: `write()` to a connection that the peer has reset raises `SIGPIPE`, which
  nothing in the repository handles. The model has the runs in which `write()`
  reports an error.
* Memory exhaustion.
* Scores that are infinite or not numbers; string-to-number conversion in general.
