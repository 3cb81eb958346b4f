----------------------------- MODULE EventLoop -----------------------------
(***************************************************************************)
(* The server's single-threaded event loop (src/server/server.cpp): poll,  *)
(* accept, buffered non-blocking reads and writes with pipelining, idle    *)
(* timeouts and the expiry of keys, against clients that connect, send,    *)
(* read, half-close and reset at any moment.                               *)
(*                                                                         *)
(* One step is one call: poll(), accept_new(), the refresh of a ready      *)
(* connection, the read(), one try_one_request(), the write(), the close   *)
(* check, process_timers().  Clients and the clock move between steps.     *)
(*                                                                         *)
(* A frame is two units, its length header and its body, and read() and    *)
(* write() move any number of units, so frames arrive and leave in pieces. *)
(* Of a request matters whether it is longer than MAX_MSG ("huge"), may    *)
(* touch the timer of a key ("timed": EXPIRE and PERSIST, but DEL and any  *)
(* lookup that expires its key as well) or does neither ("plain", which    *)
(* includes the malformed frames: they are answered too).  Of a reply      *)
(* matters which request it answers.                                       *)
(***************************************************************************)
EXTENDS Integers, Sequences, FiniteSets, FiniteSetsExt

CONSTANTS Clients, None,     \* connections, each used once; no connection
          MaxFd,             \* descriptors 1 .. MaxFd are left for connections
          Kinds,             \* the kinds of requests that clients send
          Keys,              \* the keys that may carry a timer
          MaxReqs,           \* bound: requests per connection
          SndBuf,            \* units that fit in a socket's send buffer
          idle_timeout_ms,   \* a silent connection is closed after this long
          TtlMs,             \* TTLs that requests give to keys
          k_max_works,       \* keys reaped per pass of process_timers
          Int32Max,          \* largest int32_t
          MaxNow             \* bound: the clock stops here

ASSUME LoopAssumption ==
  /\ None \notin Clients /\ Kinds \subseteq {"plain", "timed", "huge"}
  /\ MaxFd \in Nat \ {0} /\ MaxReqs \in Nat /\ SndBuf \in Nat \ {0}
  /\ idle_timeout_ms \in Nat /\ TtlMs \subseteq Nat \ {0}
  /\ k_max_works \in Nat \ {0} /\ Int32Max \in Nat /\ MaxNow \in Nat

VARIABLES pc,          \* the next call of run()
          wake_at,     \* when the poll() under way times out
          ready,       \* the revents still to be looked at, by descriptor
          accepting,   \* the listener was readable
          cur,         \* the entry of poll_args being handled
          conns_,      \* the connection of each descriptor
          conn,        \* the Conn of each connection
          idle_list_,  \* connections, least recently active first
          ttl,         \* the deadline of each key in the TTL heap
          now,         \* the monotonic clock
          backlog,     \* connections the kernel has not handed over yet
          peer,        \* what each client has done with its end
          rx, tx,      \* units on their way to the server and back
          sent, got    \* requests sent and reply units read by each client

loop == <<pc, wake_at, ready, accepting, cur, conns_, conn, idle_list_, ttl>>
net == <<backlog, peer, rx, tx, sent, got>>
vars == <<loop, now, net>>

Fds == 1 .. MaxFd
Forever == -1
NoTimer == -1
NoEvent == [fd |-> 0, who |-> None, re |-> {}]

Unit(part, i, kind) == [part |-> part, id |-> i, kind |-> kind]
NoConn == [want_read |-> FALSE, want_write |-> FALSE, want_close |-> FALSE,
           incoming |-> <<>>, outgoing |-> <<>>, last_active_ms |-> 0]

Live == {conns_[fd] : fd \in Fds} \ {None}
Waiting == {backlog[i] : i \in DOMAIN backlog}
Closed(c) == peer[c] # "none" /\ c \notin Live \cup Waiting

Init ==
  /\ pc = "poll" /\ wake_at = Forever /\ ready = {} /\ accepting = FALSE
  /\ cur = NoEvent
  /\ conns_ = [fd \in Fds |-> None] /\ conn = [c \in Clients |-> NoConn]
  /\ idle_list_ = <<>> /\ ttl = [k \in Keys |-> NoTimer] /\ now = 0
  /\ backlog = <<>> /\ peer = [c \in Clients |-> "none"]
  /\ rx = [c \in Clients |-> <<>>] /\ tx = [c \in Clients |-> <<>>]
  /\ sent = [c \in Clients |-> 0] /\ got = [c \in Clients |-> 0]

-----------------------------------------------------------------------------
(* Connections and the idle list.                                          *)

\* Slip: a closed or refreshed connection stays linked.
Detached_linked(list, c) == list
\* The idle list without the node of c.
Detached(list, c) ==
  LET p == CHOOSE i \in DOMAIN list : list[i] = c
  IN  [i \in 1 .. Len(list) - 1 |-> IF i < p THEN list[i] ELSE list[i + 1]]

(* conns_[fd].reset() for the connections C: ~Conn closes and detaches,    *)
(* which leaves the list `rest`.                                           *)
Reset(C, rest) ==
  /\ conns_' = [fd \in Fds |-> IF conns_[fd] \in C THEN None ELSE conns_[fd]]
  /\ conn' = [c \in Clients |-> IF c \in C THEN NoConn ELSE conn[c]]
  /\ idle_list_' = rest
  /\ rx' = [c \in Clients |-> IF c \in C THEN <<>> ELSE rx[c]]

-----------------------------------------------------------------------------
(* poll *)

Armed == {k \in Keys : ttl[k] # NoTimer}
KeyTimers == {ttl[k] : k \in Armed}

\* The int32_t that a difference of two uint64_t is cast to.
Int32(x) == ((x + Int32Max + 1) % (2 * (Int32Max + 1))) - (Int32Max + 1)

\* Slip: only the idle list is consulted.
next_timer_ms_idle ==
  IF idle_list_ = <<>> THEN -1
  ELSE LET next == conn[Head(idle_list_)].last_active_ms + idle_timeout_ms
       IN  IF next =< now THEN 0 ELSE Int32(next - now)
\* Slip: only the heap is consulted.
next_timer_ms_keys ==
  IF Armed = {} THEN -1
  ELSE IF Min(KeyTimers) =< now THEN 0 ELSE Int32(Min(KeyTimers) - now)

next_timer_ms ==
  LET idle == IF idle_list_ = <<>> THEN {}
              ELSE {conn[Head(idle_list_)].last_active_ms + idle_timeout_ms}
      timers == idle \cup KeyTimers
  IN  IF timers = {} THEN -1
      ELSE IF Min(timers) =< now THEN 0
      ELSE Int32(Min(timers) - now)

\* Any negative timeout makes poll() wait for I/O only.
PollCall ==
  /\ pc = "poll"
  /\ wake_at' = IF next_timer_ms < 0 THEN Forever ELSE now + next_timer_ms
  /\ pc' = "sleep"
  /\ UNCHANGED <<ready, accepting, cur, conns_, conn, idle_list_, ttl, now, net>>

\* The revents of a connection: POLLHUP is reported whether asked for or not.
revents(c) ==
  (IF conn[c].want_read /\ (rx[c] # <<>> \/ peer[c] \in {"fin", "reset"})
     THEN {"in"} ELSE {}) \cup
  (IF conn[c].want_write /\ (Len(tx[c]) < SndBuf \/ peer[c] = "reset")
     THEN {"out"} ELSE {}) \cup
  (IF peer[c] = "reset" THEN {"hup"} ELSE {})

ReadyFds == {fd \in Fds : conns_[fd] # None /\ revents(conns_[fd]) # {}}

PollReturn ==
  /\ pc = "sleep"
  /\ \/ ReadyFds # {}
     \/ backlog # <<>>
     \/ wake_at # Forever /\ now >= wake_at
  /\ ready' = {[fd |-> fd, who |-> conns_[fd], re |-> revents(conns_[fd])] :
                 fd \in ReadyFds}
  /\ accepting' = (backlog # <<>>)
  /\ pc' = "accept" /\ wake_at' = Forever
  /\ UNCHANGED <<cur, conns_, conn, idle_list_, ttl, now, net>>

\* EINTR: start over.
PollInterrupted ==
  /\ pc = "sleep"
  /\ pc' = "poll" /\ wake_at' = Forever
  /\ UNCHANGED <<ready, accepting, cur, conns_, conn, idle_list_, ttl, now, net>>
-----------------------------------------------------------------------------
(* accept_new *)

FreeFds == {fd \in Fds : conns_[fd] = None}

Skip(label) ==
  /\ pc' = label
  /\ UNCHANGED <<wake_at, ready, accepting, cur, conns_, conn, idle_list_, ttl, now, net>>

\* The listener was not readable, or accept() fails: no descriptor is left.
AcceptNothing ==
  /\ pc = "accept" /\ (~ accepting \/ FreeFds = {})
  /\ pc' = "conns" /\ accepting' = FALSE
  /\ UNCHANGED <<wake_at, ready, cur, conns_, conn, idle_list_, ttl, now, net>>

\* fcntl() fails: the new descriptor is closed again.
AcceptClosed ==
  /\ pc = "accept" /\ accepting /\ FreeFds # {}
  /\ backlog' = Tail(backlog)
  /\ rx' = [rx EXCEPT ![Head(backlog)] = <<>>]
  /\ pc' = "conns" /\ accepting' = FALSE
  /\ UNCHANGED <<wake_at, ready, cur, conns_, conn, idle_list_, ttl, now,
                 peer, tx, sent, got>>

\* The kernel hands out the lowest free descriptor.
accept_new ==
  /\ pc = "accept" /\ accepting /\ FreeFds # {}
  /\ LET c == Head(backlog)
     IN  /\ conns_' = [conns_ EXCEPT ![Min(FreeFds)] = c]
         /\ conn' = [conn EXCEPT ![c].want_read = TRUE, ![c].last_active_ms = now]
         /\ idle_list_' = Append(idle_list_, c)
  /\ backlog' = Tail(backlog)
  /\ pc' = "conns" /\ accepting' = FALSE
  /\ UNCHANGED <<wake_at, ready, cur, ttl, now, peer, rx, tx, sent, got>>

-----------------------------------------------------------------------------
(* The loop over the ready connections, in the order of poll_args.         *)

First(R) == CHOOSE r \in R : \A q \in R : r.fd =< q.fd

\* Slip: the time is refreshed, but the connection keeps its place.
Refreshed_unsorted(c) == idle_list_
\* The idle list with c moved to its back.
Refreshed(c) == Append(Detached(idle_list_, c), c)

(* Any readiness counts as activity.  An entry whose connection is gone by *)
(* now is passed over.                                                     *)
Touch ==
  /\ pc = "conns" /\ ready # {}
  /\ LET r == First(ready)
         c == conns_[r.fd]
     IN  /\ ready' = ready \ {r}
         /\ IF c = None THEN UNCHANGED <<pc, cur, conn, idle_list_>>
            ELSE /\ conn' = [conn EXCEPT ![c].last_active_ms = now]
                 /\ idle_list_' = Refreshed(c)
                 /\ cur' = r
                 /\ pc' = IF "in" \in r.re THEN "read" ELSE "write"
  /\ UNCHANGED <<wake_at, accepting, conns_, ttl, now, net>>

c_ == conns_[cur.fd]     \* the Conn& that the handlers work on

(* handle_read *)

\* read() has nothing after all (EAGAIN).
ReadAgain == pc = "read" /\ Skip("write")

\* End of file, or an error.
ReadEnd ==
  /\ pc = "read"
  /\ peer[c_] = "reset" \/ (peer[c_] = "fin" /\ rx[c_] = <<>>)
  /\ conn' = [conn EXCEPT ![c_].want_close = TRUE]
  /\ pc' = "write"
  /\ UNCHANGED <<wake_at, ready, accepting, cur, conns_, idle_list_, ttl, now, net>>

ReadData ==
  /\ pc = "read"
  /\ \E n \in 1 .. Len(rx[c_]) :
       /\ conn' = [conn EXCEPT ![c_].incoming = @ \o SubSeq(rx[c_], 1, n)]
       /\ rx' = [rx EXCEPT ![c_] = SubSeq(@, n + 1, Len(@))]
  /\ pc' = "drain"
  /\ UNCHANGED <<wake_at, ready, accepting, cur, conns_, idle_list_, ttl, now,
                 backlog, peer, tx, sent, got>>

(* try_one_request *)

Huge(in) == in # <<>> /\ Head(in).kind = "huge"
Complete(in) == Len(in) >= 2 /\ ~ Huge(in)

\* Slip: the request's own bytes are sent back in place of the reply.
try_one_request_echo ==
  LET in == conn[c_].incoming
  IN  /\ pc = "drain" /\ Complete(in)
      /\ conn' = [conn EXCEPT ![c_].outgoing = @ \o SubSeq(in, 1, 2),
                               ![c_].incoming = SubSeq(@, 3, Len(@))]
      /\ UNCHANGED <<pc, wake_at, ready, accepting, cur, conns_, idle_list_, ttl, now, net>>

\* A complete frame is executed, answered and consumed.
try_one_request ==
  LET in == conn[c_].incoming
      i == in[1].id
  IN  /\ pc = "drain" /\ Complete(in)
      /\ conn' = [conn EXCEPT
                   ![c_].outgoing = @ \o <<Unit("hdr", i, "reply"), Unit("body", i, "reply")>>,
                   ![c_].incoming = SubSeq(@, 3, Len(@))]
      /\ IF in[1].kind = "timed"
           THEN \E k \in Keys, d \in {now + ms : ms \in TtlMs} \cup {NoTimer} :
                  ttl' = [ttl EXCEPT ![k] = d]
           ELSE UNCHANGED ttl
      /\ UNCHANGED <<pc, wake_at, ready, accepting, cur, conns_, idle_list_, now, net>>

\* Slip: the rest of a pipelined batch is left for the next read.
DrainDone_early ==
  /\ pc = "drain"
  /\ conn' = [conn EXCEPT
               ![c_].want_close = @ \/ Huge(conn[c_].incoming),
               ![c_].want_read = conn[c_].outgoing = <<>>,
               ![c_].want_write = conn[c_].outgoing # <<>>]
  /\ pc' = "write"
  /\ UNCHANGED <<wake_at, ready, accepting, cur, conns_, idle_list_, ttl, now, net>>
\* Slip: the connection goes on reading while it has replies to send.
DrainDone_reading ==
  /\ pc = "drain" /\ ~ Complete(conn[c_].incoming)
  /\ conn' = [conn EXCEPT
               ![c_].want_close = @ \/ Huge(conn[c_].incoming),
               ![c_].want_write = conn[c_].outgoing # <<>>]
  /\ pc' = "write"
  /\ UNCHANGED <<wake_at, ready, accepting, cur, conns_, idle_list_, ttl, now, net>>

(* No complete frame is left, or the next one is too long: the loop of     *)
(* handle_read ends and the connection turns to writing if it has replies. *)
DrainDone ==
  /\ pc = "drain" /\ ~ Complete(conn[c_].incoming)
  /\ LET replies == conn[c_].outgoing # <<>>
     IN  conn' = [conn EXCEPT
                   ![c_].want_close = @ \/ Huge(conn[c_].incoming),
                   ![c_].want_read = @ /\ ~ replies,
                   ![c_].want_write = @ \/ replies]
  /\ pc' = "write"
  /\ UNCHANGED <<wake_at, ready, accepting, cur, conns_, idle_list_, ttl, now, net>>
(* handle_write *)

\* POLLOUT was not reported, nothing is queued, or write() says EAGAIN.
WriteNothing == pc = "write" /\ Skip("close")

WriteError ==
  /\ pc = "write" /\ "out" \in cur.re /\ conn[c_].outgoing # <<>>
  /\ peer[c_] = "reset"
  /\ conn' = [conn EXCEPT ![c_].want_close = TRUE]
  /\ pc' = "close"
  /\ UNCHANGED <<wake_at, ready, accepting, cur, conns_, idle_list_, ttl, now, net>>

Room(c) == Min({Len(conn[c].outgoing), SndBuf - Len(tx[c])})

\* Slip: the whole buffer is dropped after a short write.
WriteData_short ==
  /\ pc = "write" /\ "out" \in cur.re /\ peer[c_] # "reset"
  /\ \E n \in 1 .. Room(c_) :
       /\ tx' = [tx EXCEPT ![c_] = @ \o SubSeq(conn[c_].outgoing, 1, n)]
       /\ conn' = [conn EXCEPT ![c_].outgoing = <<>>,
                                ![c_].want_read = TRUE, ![c_].want_write = FALSE]
  /\ pc' = "close"
  /\ UNCHANGED <<wake_at, ready, accepting, cur, conns_, idle_list_, ttl, now,
                 backlog, peer, rx, sent, got>>

\* What the kernel takes is consumed; an empty buffer turns back to reading.
WriteData ==
  /\ pc = "write" /\ "out" \in cur.re /\ peer[c_] # "reset"
  /\ \E n \in 1 .. Room(c_) :
       LET left == SubSeq(conn[c_].outgoing, n + 1, Len(conn[c_].outgoing))
       IN  /\ tx' = [tx EXCEPT ![c_] = @ \o SubSeq(conn[c_].outgoing, 1, n)]
           /\ conn' = [conn EXCEPT ![c_].outgoing = left,
                                    ![c_].want_read = @ \/ left = <<>>,
                                    ![c_].want_write = @ /\ left # <<>>]
  /\ pc' = "close"
  /\ UNCHANGED <<wake_at, ready, accepting, cur, conns_, idle_list_, ttl, now,
                 backlog, peer, rx, sent, got>>

\* The end of the loop body.
CloseCheck ==
  /\ pc = "close"
  /\ IF conn[c_].want_close \/ "hup" \in cur.re
       THEN Reset({c_}, Detached(idle_list_, c_)) ELSE UNCHANGED <<conns_, conn, idle_list_, rx>>
  /\ pc' = "conns" /\ cur' = NoEvent
  /\ UNCHANGED <<wake_at, ready, accepting, ttl, now, backlog, peer, tx, sent, got>>

ConnsDone == pc = "conns" /\ ready = {} /\ Skip("timers")

-----------------------------------------------------------------------------
(* process_timers *)

Idle(c) == conn[c].last_active_ms + idle_timeout_ms =< now

\* The first n connections of the list are idle, and the next one is not.
IdleFront(n) ==
  /\ \A i \in 1 .. n : Idle(idle_list_[i])
  /\ n < Len(idle_list_) => ~ Idle(idle_list_[n + 1])

\* The root of the heap is due and has the earliest deadline: k_max_works
\* keys go in that order, in any order among equals.
ReapSets ==
  LET due == {k \in Armed : ttl[k] =< now}
  IN  {R \in SUBSET due :
         /\ Cardinality(R) = Min({k_max_works, Cardinality(due)})
         /\ \A k \in R, l \in due \ R : ttl[k] =< ttl[l]}

process_timers ==
  /\ pc = "timers"
  /\ \E n \in 0 .. Len(idle_list_) :
       /\ IdleFront(n)
       /\ Reset({idle_list_[i] : i \in 1 .. n}, SubSeq(idle_list_, n + 1, Len(idle_list_)))
  /\ \E R \in ReapSets : ttl' = [k \in Keys |-> IF k \in R THEN NoTimer ELSE ttl[k]]
  /\ pc' = "poll"
  /\ UNCHANGED <<wake_at, ready, accepting, cur, now, backlog, peer, tx, sent, got>>

-----------------------------------------------------------------------------
(* Clients, the network and the clock.                                     *)

Connect(c) ==
  /\ peer[c] = "none"
  /\ peer' = [peer EXCEPT ![c] = "open"] /\ backlog' = Append(backlog, c)
  /\ UNCHANGED <<loop, now, rx, tx, sent, got>>

Send(c, kind) ==
  /\ peer[c] = "open" /\ ~ Closed(c) /\ sent[c] < MaxReqs
  /\ sent' = [sent EXCEPT ![c] = @ + 1]
  /\ rx' = [rx EXCEPT ![c] = @ \o <<Unit("hdr", sent'[c], kind),
                                    Unit("body", sent'[c], kind)>>]
  /\ UNCHANGED <<loop, now, backlog, peer, tx, got>>

\* The client reads all that has come back.
Recv(c) ==
  /\ tx[c] # <<>>
  /\ got' = [got EXCEPT ![c] = @ + Len(tx[c])]
  /\ tx' = [tx EXCEPT ![c] = <<>>]
  /\ UNCHANGED <<loop, now, backlog, peer, rx, sent>>

\* The client shuts down its sending side and goes on reading.
HalfClose(c) ==
  /\ peer[c] = "open"
  /\ peer' = [peer EXCEPT ![c] = "fin"]
  /\ UNCHANGED <<loop, now, backlog, rx, tx, sent, got>>

\* The connection breaks: what is on its way is lost.
Abort(c) ==
  /\ peer[c] \in {"open", "fin"} /\ ~ Closed(c)
  /\ peer' = [peer EXCEPT ![c] = "reset"]
  /\ rx' = [rx EXCEPT ![c] = <<>>] /\ tx' = [tx EXCEPT ![c] = <<>>]
  /\ UNCHANGED <<loop, now, backlog, sent, got>>

Tick ==
  /\ now < MaxNow
  /\ now' = now + 1
  /\ UNCHANGED <<loop, net>>

-----------------------------------------------------------------------------
run ==
  \/ PollCall \/ PollReturn
  \/ AcceptNothing \/ AcceptClosed \/ accept_new
  \/ Touch \/ ConnsDone
  \/ ReadAgain \/ ReadEnd \/ ReadData
  \/ try_one_request \/ DrainDone
  \/ WriteNothing \/ WriteError \/ WriteData
  \/ CloseCheck \/ process_timers

Client(c) ==
  Connect(c) \/ (\E kind \in Kinds : Send(c, kind)) \/ Recv(c) \/ HalfClose(c) \/ Abort(c)

Next == run \/ PollInterrupted \/ Tick \/ \E c \in Clients : Client(c)

Spec == Init /\ [][Next]_vars
(* The loop never stops; signals do not interrupt every poll(), and        *)
(* descriptors that are reported ready again and again are not empty or    *)
(* full each time.  Clients read what they are sent, and time passes.      *)
Fairness ==
  /\ WF_vars(run) /\ SF_vars(PollReturn) /\ SF_vars(ReadData) /\ SF_vars(WriteData)
  /\ WF_vars(Tick) /\ \A c \in Clients : WF_vars(Recv(c))
FairSpec == Spec /\ Fairness

-----------------------------------------------------------------------------
(* Properties.                                                             *)

RequestUnit == [part : {"hdr", "body"}, id : 1 .. MaxReqs, kind : Kinds]
ReplyUnit == [part : {"hdr", "body"}, id : 1 .. MaxReqs, kind : {"reply"}]
Event == [fd : Fds, who : Clients, re : SUBSET {"in", "out", "hup"}]

\* Every variable stays in its type; buffers hold whole units of their kind.
TypeOK ==
  /\ pc \in {"poll", "sleep", "accept", "conns", "read", "drain", "write", "close",
             "timers"}
  /\ wake_at \in Nat \cup {Forever} /\ now \in 0 .. MaxNow /\ accepting \in BOOLEAN
  /\ ready \subseteq Event /\ cur \in Event \cup {NoEvent}
  /\ conns_ \in [Fds -> Clients \cup {None}]
  /\ \A c \in Clients :
       /\ conn[c].incoming \in Seq(RequestUnit) /\ rx[c] \in Seq(RequestUnit)
       /\ conn[c].outgoing \in Seq(ReplyUnit) /\ tx[c] \in Seq(ReplyUnit)
       /\ conn[c].last_active_ms \in 0 .. now
       /\ {conn[c].want_read, conn[c].want_write, conn[c].want_close} \subseteq BOOLEAN
  /\ idle_list_ \in Seq(Clients) /\ backlog \in Seq(Clients) /\ ttl \in [Keys -> Nat \cup {NoTimer}]
  /\ peer \in [Clients -> {"none", "open", "fin", "reset"}]
  /\ sent \in [Clients -> 0 .. MaxReqs] /\ got \in [Clients -> 0 .. 2 * MaxReqs]

\* The place of a unit in its stream.
Place(u) == 2 * u.id - (IF u.part = "hdr" THEN 1 ELSE 0)
Consecutive(s, from) == \A j \in DOMAIN s : Place(s[j]) = from + j

(* Replies come back in request order, each once and whole, whatever way   *)
(* reads and writes cut the streams: what a client has read, what is on    *)
(* its way and what is queued are consecutive, and what the server has not *)
(* executed yet is exactly what follows the last request it answered.      *)
StreamsExact ==
  \A c \in Clients : peer[c] # "reset" =>
    LET out == tx[c] \o conn[c].outgoing
        in == conn[c].incoming \o rx[c]
        answered == got[c] + Len(out)
    IN  /\ Consecutive(out, got[c])
        /\ c \in Live => Consecutive(in, answered) /\ answered + Len(in) = 2 * sent[c]

(* A request that has arrived whole is never left in the buffer while the  *)
(* loop waits for more input: nothing would wake the loop up for it.       *)
NoStrandedRequest ==
  pc \in {"poll", "sleep"} =>
    \A c \in Live : Len(conn[c].incoming) < 2 /\ ~ Huge(conn[c].incoming)

(* Back-pressure: nothing is read from a client that has replies waiting,  *)
(* so its buffers hold the fruits of a single read.                        *)
BackPressure ==
  [][\A c \in Live : Len(conn'[c].incoming) > Len(conn[c].incoming) =>
       conn[c].outgoing = <<>>]_vars

(* A client that sends its requests and shuts down its sending side gets   *)
(* all its replies: the end of file is acted upon only after the last      *)
(* reply has been written.  Exempt are the clients that reset or that send *)
(* an oversized frame.                                                     *)
OrderlyClose ==
  [][\A c \in Live : pc = "close" /\ c \notin Live' =>
       \/ peer[c] = "reset" \/ Huge(conn[c].incoming)
       \/ got[c] + Len(tx[c]) = 2 * sent[c]]_vars

(* The descriptor table, the idle list and the poll results speak of the   *)
(* same connections: a reused descriptor never meets old events.           *)
TablesAgree ==
  /\ \A f, g \in Fds : conns_[f] # None /\ conns_[f] = conns_[g] => f = g
  /\ {idle_list_[i] : i \in DOMAIN idle_list_} = Live
  /\ \A i, j \in DOMAIN idle_list_ : idle_list_[i] = idle_list_[j] => i = j
  /\ Live \cap Waiting = {}
  /\ \A r \in ready : conns_[r.fd] = r.who
  /\ pc \in {"read", "drain", "write", "close"} => conns_[cur.fd] = cur.who

(* "the list is in last-active order": the front of the idle list is the   *)
(* next connection to expire, on which poll's timeout and the sweep rely.  *)
IdleListSorted ==
  \A i, j \in DOMAIN idle_list_ : i < j =>
    conn[idle_list_[i]].last_active_ms =< conn[idle_list_[j]].last_active_ms

(* process_timers closes every connection that is idle for too long, not   *)
(* only those in front, and no other.                                      *)
SweepExact ==
  [][pc = "timers" /\ pc' # pc => Live \ Live' = {c \in Live : Idle(c)}]_vars

\* Every timer of the server: of idle connections and of keys.
Deadlines == {conn[c].last_active_ms + idle_timeout_ms : c \in Live} \cup KeyTimers

(* "poll(), sleeping at most until the nearest timer is due"               *)
(* (server.cpp:4).                                                         *)
WakesInTime ==
  pc = "sleep" => \A d \in Deadlines : wake_at # Forever /\ (wake_at =< d \/ wake_at =< now)

(* Every request that a client has sent is answered and the answer read,   *)
(* unless the connection ends first.                                       *)
RequestsAnswered ==
  \A c \in Clients : \A i \in 1 .. MaxReqs :
    sent[c] >= i ~> got[c] >= 2 * i \/ Closed(c) \/ peer[c] = "reset"

\* A connection that falls silent is closed when its time is up.
SilentConnsClosed ==
  \A c \in Clients : \A t \in 0 .. MaxNow - idle_timeout_ms :
    c \in Live /\ conn[c].last_active_ms = t ~> c \notin Live \/ conn[c].last_active_ms # t

\* A key is reaped after its deadline even if nobody talks to the server.
DueKeysReaped == \A k \in Keys, d \in 0 .. MaxNow : ttl[k] = d ~> ttl[k] # d
=============================================================================
