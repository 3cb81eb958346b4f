----------------------------- MODULE LoopProofs -----------------------------
(***************************************************************************)
(* Proofs about the streams and the timers of EventLoop.  Replies come     *)
(* back in request order whatever way reads and writes cut them, nothing   *)
(* that has arrived whole is left behind, and a connection reads or        *)
(* writes, never both.  The idle list stays in last-active order, so that  *)
(* sweeping it from the front finds every idle connection, and poll()      *)
(* sleeps at most until the nearest timer is due although next_timer_ms    *)
(* looks at the front of the list and at the root of the heap only.        *)
(***************************************************************************)
EXTENDS EventLoopProofs

-----------------------------------------------------------------------------
(* The inductive invariant. *)

(* A connection that reads has no replies waiting, except while its batch  *)
(* is being executed; POLLIN is only reported of one that reads.           *)
Turns ==
  /\ \A c \in Clients :
       conn[c].want_read => conn[c].outgoing = <<>> \/ (pc = "drain" /\ c = c_)
  /\ \A r \in ready : "in" \in r.re => conn[r.who].want_read
  /\ pc = "read" => conn[c_].want_read

\* POLLHUP is only reported of a connection that is broken, and it stays so.
Hups ==
  /\ \A r \in ready : "hup" \in r.re => peer[r.who] = "reset"
  /\ Handling /\ "hup" \in cur.re => peer[c_] = "reset"

Short(in) == Len(in) < 2 /\ ~ Huge(in)

(* Only the connection being handled may hold more than a piece of a       *)
(* frame, and once its batch is executed, only a frame that is too long.   *)
Drained ==
  /\ \A c \in Clients :
       Short(conn[c].incoming) \/ (pc \in {"drain", "write", "close"} /\ c = c_)
  /\ pc \in {"write", "close"} =>
       Short(conn[c_].incoming) \/ (Huge(conn[c_].incoming) /\ conn[c_].want_close)

\* Why a connection is about to be closed.
Ends ==
  \A c \in Clients : conn[c].want_close =>
    /\ pc \in {"write", "close"} /\ c = c_
    /\ \/ peer[c] = "reset" \/ Huge(conn[c].incoming)
       \/ /\ peer[c] = "fin" /\ rx[c] = <<>>
          /\ conn[c].outgoing = <<>> /\ conn[c].incoming = <<>>

(* The four segments of a connection's streams: replies on their way and   *)
(* queued, requests read and on their way.  a units have been answered.    *)
OutFlow(t, o, g) == Consecutive(t, g) /\ Consecutive(o, g + Len(t))
InFlow(i, r, a, s) ==
  /\ Consecutive(i, a) /\ Consecutive(r, a + Len(i))
  /\ a + Len(i) + Len(r) = 2 * s /\ \E k \in Nat : a = 2 * k

Streams ==
  \A c \in Clients : peer[c] # "reset" =>
    /\ OutFlow(tx[c], conn[c].outgoing, got[c])
    /\ ~ Closed(c) => InFlow(conn[c].incoming, rx[c],
                             got[c] + Len(tx[c]) + Len(conn[c].outgoing), sent[c])

StreamInv == Turns /\ Hups /\ Drained /\ Ends /\ Streams

-----------------------------------------------------------------------------
(* Streams cut and joined. *)

\* Two consecutive pieces joined are consecutive.
LEMMA ConsecutiveConcat ==
  ASSUME NEW s \in Seq(Units), NEW t \in Seq(Units), NEW a \in Int
  PROVE  Consecutive(s \o t, a) <=> Consecutive(s, a) /\ Consecutive(t, a + Len(s))
<1>1. /\ DOMAIN (s \o t) = 1 .. Len(s) + Len(t) /\ DOMAIN s = 1 .. Len(s)
      /\ DOMAIN t = 1 .. Len(t) /\ Len(s) \in Nat /\ Len(t) \in Nat
      /\ \A j \in 1 .. Len(s) : (s \o t)[j] = s[j]
      /\ \A j \in 1 .. Len(t) : (s \o t)[Len(s) + j] = t[j]
  OBVIOUS
<1>2. ASSUME Consecutive(s \o t, a) PROVE Consecutive(s, a)
  BY <1>1, <1>2 DEF Consecutive
<1>3. ASSUME Consecutive(s \o t, a) PROVE Consecutive(t, a + Len(s))
  <2> SUFFICES ASSUME NEW j \in 1 .. Len(t) PROVE Place(t[j]) = a + Len(s) + j
    BY <1>1 DEF Consecutive
  <2>1. Len(s) + j \in DOMAIN (s \o t)
    BY <1>1
  <2>2. Place((s \o t)[Len(s) + j]) = a + (Len(s) + j)
    BY <1>3, <2>1 DEF Consecutive
  <2> QED
    BY <1>1, <2>2
<1>4. ASSUME Consecutive(s, a), Consecutive(t, a + Len(s)) PROVE Consecutive(s \o t, a)
  <2> SUFFICES ASSUME NEW j \in 1 .. Len(s) + Len(t) PROVE Place((s \o t)[j]) = a + j
    BY <1>1 DEF Consecutive
  <2>1. CASE j \in 1 .. Len(s)
    BY <1>1, <1>4, <2>1 DEF Consecutive
  <2>2. CASE j \notin 1 .. Len(s)
    <3>1. j - Len(s) \in 1 .. Len(t) /\ Len(s) + (j - Len(s)) = j
      BY <1>1, <2>2
    <3>2. Place(t[j - Len(s)]) = a + Len(s) + (j - Len(s))
      BY <1>1, <1>4, <3>1 DEF Consecutive
    <3>3. (s \o t)[j] = t[j - Len(s)]
      BY <1>1, <3>1
    <3> QED
      BY <1>1, <3>2, <3>3
  <2> QED
    BY <2>1, <2>2
<1> QED
  BY <1>2, <1>3, <1>4

\* The length of two streams joined.
LEMMA LenConcat ==
  ASSUME NEW s \in Seq(Units), NEW t \in Seq(Units)
  PROVE  Len(s \o t) = Len(s) + Len(t)
OBVIOUS

\* A consecutive stream cut in two gives two consecutive pieces.
LEMMA ConsecutiveCut ==
  ASSUME NEW s \in Seq(Units), NEW a \in Int, NEW n \in 0 .. Len(s), Consecutive(s, a)
  PROVE  /\ SubSeq(s, 1, n) \in Seq(Units) /\ SubSeq(s, n + 1, Len(s)) \in Seq(Units)
         /\ Len(SubSeq(s, 1, n)) = n /\ Len(SubSeq(s, n + 1, Len(s))) = Len(s) - n
         /\ Consecutive(SubSeq(s, 1, n), a)
         /\ Consecutive(SubSeq(s, n + 1, Len(s)), a + n)
<1> DEFINE f == SubSeq(s, 1, n)
           r == SubSeq(s, n + 1, Len(s))
<1>1. /\ f \in Seq(Units) /\ Len(f) = n /\ DOMAIN f = 1 .. n
      /\ \A j \in 1 .. n : f[j] = s[j] /\ j \in DOMAIN s
  OBVIOUS
<1>2. /\ r \in Seq(Units) /\ Len(r) = Len(s) - n /\ DOMAIN r = 1 .. Len(s) - n
      /\ \A j \in 1 .. Len(s) - n : r[j] = s[n + j] /\ n + j \in DOMAIN s
  OBVIOUS
<1> HIDE DEF f, r
<1>3. Consecutive(f, a)
  BY <1>1 DEF Consecutive
<1>4. Consecutive(r, a + n)
  <2> SUFFICES ASSUME NEW j \in 1 .. Len(s) - n PROVE Place(r[j]) = a + n + j
    BY <1>2 DEF Consecutive
  <2>1. Place(s[n + j]) = a + (n + j)
    BY <1>2 DEF Consecutive
  <2> QED
    BY <1>2, <2>1
<1> QED
  BY <1>1, <1>2, <1>3, <1>4, Zenon DEF f, r

\* The empty stream is consecutive.
LEMMA ConsecutiveEmpty ==
  ASSUME NEW a PROVE Consecutive(<<>>, a) /\ Len(<<>>) = 0
BY DEF Consecutive

\* The reply to the first request of a buffer takes the place that is next.
LEMMA NextReply ==
  ASSUME NEW in \in Seq(Units), Len(in) >= 2, NEW k \in Nat, Consecutive(in, 2 * k)
  PROVE  LET two == <<Unit("hdr", in[1].id, "reply"), Unit("body", in[1].id, "reply")>>
         IN  two \in Seq(Units) /\ Len(two) = 2 /\ Consecutive(two, 2 * k)
<1> DEFINE i == in[1].id
           u == Unit("hdr", i, "reply")
           v == Unit("body", i, "reply")
<1>1. in[1] \in Units /\ 1 \in DOMAIN in
  OBVIOUS
<1>2. i \in Nat /\ in[1].part \in {"hdr", "body"} /\ u \in Units /\ v \in Units
  BY <1>1 DEF Units, Unit
<1>3. Place(in[1]) = 2 * k + 1
  BY <1>1 DEF Consecutive
<1>4. i = k + 1
  <2>1. 2 * i = 2 * k + 1 \/ 2 * i = 2 * k + 2
    BY <1>2, <1>3 DEF Place
  <2> HIDE DEF i
  <2> QED
    BY <1>2, <2>1
<1>5. Place(u) = 2 * i - 1 /\ Place(v) = 2 * i
  BY <1>2 DEF Place, Unit
<1> HIDE DEF i, u, v
<1>6. <<u, v>> \in Seq(Units) /\ Len(<<u, v>>) = 2 /\ DOMAIN <<u, v>> = 1 .. 2
  BY <1>2
<1>7. Place(<<u, v>>[1]) = 2 * k + 1 /\ Place(<<u, v>>[2]) = 2 * k + 2
  BY <1>4, <1>5
<1>8. Consecutive(<<u, v>>, 2 * k)
  <2> DEFINE two == <<u, v>>
  <2> HIDE DEF two
  <2>1. \A j \in 1 .. 2 : Place(two[j]) = 2 * k + j
    <3>1. Place(two[1]) = 2 * k + 1 /\ Place(two[2]) = 2 * k + 2
      BY <1>7 DEF two
    <3>2. \A j \in 1 .. 2 : j = 1 \/ j = 2
      OBVIOUS
    <3> QED
      BY <3>1, <3>2
  <2> QED
    BY <1>6, <2>1, Zenon DEF Consecutive, two
<1> QED
  BY <1>6, <1>8 DEF u, v, i

-----------------------------------------------------------------------------
(* handle_read and handle_write. *)

\* The events still to be handled are of other connections.
LEMMA OthersReady ==
  ASSUME Tables, Handling, NEW r \in ready
  PROVE  r.who \in Clients /\ r.who # c_ /\ r.who = conns_[r.fd]
<1>1. cur.fd \in Fds /\ c_ # None
  BY Current
<1>2. r.fd \in Fds /\ r.who \in Clients
  BY DEF Tables, Types, Event
<1>3. r.who = conns_[r.fd] /\ r.fd # cur.fd
  BY DEF Tables, TablesAgree, Order
<1>4. conns_[r.fd] # conns_[cur.fd]
  BY <1>1, <1>2, <1>3 DEF Tables, TablesAgree, c_
<1> QED
  BY <1>2, <1>3, <1>4 DEF c_

(* Other connections are left alone, so a handler keeps the invariant if   *)
(* it keeps what the invariant says of the connection it works on.         *)
LEMMA HandlerFrame ==
  ASSUME Tables, StreamInv, Handler,
         conn'[c_].want_read => conn'[c_].outgoing = <<>> \/ pc' = "drain",
         pc' \in {"write", "close"} =>
           Short(conn'[c_].incoming) \/ (Huge(conn'[c_].incoming) /\ conn'[c_].want_close),
         conn'[c_].want_close =>
           /\ pc' \in {"write", "close"}
           /\ \/ peer[c_] = "reset" \/ Huge(conn'[c_].incoming)
              \/ /\ peer[c_] = "fin" /\ rx'[c_] = <<>>
                 /\ conn'[c_].outgoing = <<>> /\ conn'[c_].incoming = <<>>,
         peer[c_] # "reset" =>
           /\ OutFlow(tx'[c_], conn'[c_].outgoing, got[c_])
           /\ InFlow(conn'[c_].incoming, rx'[c_],
                     got[c_] + Len(tx'[c_]) + Len(conn'[c_].outgoing), sent[c_])
  PROVE  StreamInv'
<1>1. /\ Handling /\ pc' \in {"drain", "write", "close"}
      /\ \A c \in Clients : c # c_ => conn'[c] = conn[c] /\ rx'[c] = rx[c] /\ tx'[c] = tx[c]
      /\ UNCHANGED <<ready, cur, conns_, backlog, peer, sent, got>>
  BY HandlerShape
<1>2. c_ \in Clients /\ c_' = c_ /\ Handling'
  BY <1>1, Current, Zenon DEF c_, Handling
<1>3. Live' = Live /\ Waiting' = Waiting
  BY <1>1 DEF Live, Waiting
<1>4. \A r \in ready : r.who \in Clients /\ r.who # c_
  BY <1>1, OthersReady
<1>5. Turns'
  BY <1>1, <1>2, <1>4 DEF StreamInv, Turns
<1>6. Hups'
  BY <1>1, <1>2 DEF StreamInv, Hups
<1>7. Drained'
  BY <1>1, <1>2 DEF StreamInv, Drained
<1>8. Ends'
  BY <1>1, <1>2 DEF StreamInv, Ends
<1>9. Streams'
  <2> SUFFICES ASSUME NEW c \in Clients, peer'[c] # "reset"
               PROVE  /\ OutFlow(tx'[c], conn'[c].outgoing, got'[c])
                      /\ ~ Closed(c)' => InFlow(conn'[c].incoming, rx'[c],
                              got'[c] + Len(tx'[c]) + Len(conn'[c].outgoing), sent'[c])
    BY DEF Streams
  <2>1. Closed(c)' <=> Closed(c)
    BY <1>1, <1>3 DEF Closed
  <2>2. CASE c = c_
    BY <1>1, <2>2
  <2>3. CASE c # c_
    BY <1>1, <2>1, <2>3 DEF StreamInv, Streams
  <2> QED
    BY <2>2, <2>3
<1> QED
  BY <1>5, <1>6, <1>7, <1>8, <1>9 DEF StreamInv

\* What the invariant says of the connection being handled.
LEMMA Handled ==
  ASSUME Tables, StreamInv, Handling
  PROVE  /\ conn[c_].incoming \in Seq(Units) /\ conn[c_].outgoing \in Seq(Units)
         /\ rx[c_] \in Seq(Units) /\ tx[c_] \in Seq(Units) /\ got[c_] \in Nat /\ sent[c_] \in Nat
         /\ pc # "drain" => (conn[c_].want_read => conn[c_].outgoing = <<>>)
         /\ pc = "read" => /\ conn[c_].outgoing = <<>> /\ Short(conn[c_].incoming)
         /\ pc \in {"write", "close"} =>
              Short(conn[c_].incoming) \/ (Huge(conn[c_].incoming) /\ conn[c_].want_close)
         /\ conn[c_].want_close =>
              /\ pc \in {"write", "close"}
              /\ \/ peer[c_] = "reset" \/ Huge(conn[c_].incoming)
                 \/ /\ peer[c_] = "fin" /\ rx[c_] = <<>>
                    /\ conn[c_].outgoing = <<>> /\ conn[c_].incoming = <<>>
         /\ peer[c_] # "reset" =>
              /\ OutFlow(tx[c_], conn[c_].outgoing, got[c_])
              /\ InFlow(conn[c_].incoming, rx[c_],
                        got[c_] + Len(tx[c_]) + Len(conn[c_].outgoing), sent[c_])
<1>1. c_ \in Clients /\ c_ \in Live /\ conn[c_] \in Conns
  BY Current
<1>2. ~ Closed(c_)
  BY <1>1 DEF Closed
<1>3. /\ conn[c_].incoming \in Seq(Units) /\ conn[c_].outgoing \in Seq(Units)
      /\ rx[c_] \in Seq(Units) /\ tx[c_] \in Seq(Units) /\ got[c_] \in Nat /\ sent[c_] \in Nat
  BY <1>1 DEF Tables, Types, Conns
<1>4. /\ pc # "drain" => (conn[c_].want_read => conn[c_].outgoing = <<>>)
      /\ pc = "read" => conn[c_].outgoing = <<>>
  BY <1>1 DEF StreamInv, Turns
<1>5. /\ pc = "read" => Short(conn[c_].incoming)
      /\ pc \in {"write", "close"} =>
           Short(conn[c_].incoming) \/ (Huge(conn[c_].incoming) /\ conn[c_].want_close)
  BY <1>1 DEF StreamInv, Drained
<1>6. conn[c_].want_close =>
        /\ pc \in {"write", "close"}
        /\ \/ peer[c_] = "reset" \/ Huge(conn[c_].incoming)
           \/ /\ peer[c_] = "fin" /\ rx[c_] = <<>>
              /\ conn[c_].outgoing = <<>> /\ conn[c_].incoming = <<>>
  BY <1>1 DEF StreamInv, Ends
<1>7. peer[c_] # "reset" =>
        /\ OutFlow(tx[c_], conn[c_].outgoing, got[c_])
        /\ InFlow(conn[c_].incoming, rx[c_],
                  got[c_] + Len(tx[c_]) + Len(conn[c_].outgoing), sent[c_])
  BY <1>1, <1>2 DEF StreamInv, Streams
<1> QED
  BY <1>3, <1>4, <1>5, <1>6, <1>7

\* EAGAIN, or nothing to write, keeps the invariant.
LEMMA SkipStreams ==
  ASSUME Tables, StreamInv, ReadAgain \/ WriteNothing
  PROVE  StreamInv'
<1>1. Handler
  BY DEF Handler
<1>2. /\ Handling /\ pc' = IF pc = "read" THEN "write" ELSE "close"
      /\ pc \in {"read", "write"} /\ conn' = conn /\ rx' = rx /\ tx' = tx
  BY SkipShape
<1> QED
  BY <1>1, <1>2, Handled, HandlerFrame

\* So does the end of a stream, seen while nothing is left to write.
LEMMA EndStreams ==
  ASSUME Tables, StreamInv, ReadEnd \/ WriteError
  PROVE  StreamInv'
<1>1. Handler
  BY DEF Handler
<1>2. /\ Handling /\ pc' = IF pc = "read" THEN "write" ELSE "close"
      /\ \/ pc = "read" /\ (peer[c_] = "reset" \/ (peer[c_] = "fin" /\ rx[c_] = <<>>))
         \/ pc = "write" /\ peer[c_] = "reset"
      /\ conn'[c_].incoming = conn[c_].incoming /\ conn'[c_].outgoing = conn[c_].outgoing
      /\ conn'[c_].want_read = conn[c_].want_read /\ conn'[c_].want_close
      /\ rx'[c_] = rx[c_] /\ tx'[c_] = tx[c_]
  BY EndShape, Zenon DEF Shape
<1>3. CASE peer[c_] = "reset"
  BY <1>1, <1>2, <1>3, Handled, HandlerFrame
<1>4. CASE peer[c_] # "reset"
  <2>1. pc = "read" /\ peer[c_] = "fin" /\ rx[c_] = <<>>
    BY <1>2, <1>4
  <2>2. conn[c_].outgoing = <<>> /\ Short(conn[c_].incoming) /\ conn[c_].incoming \in Seq(Units)
    BY <1>2, <2>1, Handled
  <2>3. conn[c_].incoming = <<>>
    <3> DEFINE in == conn[c_].incoming
               a == got[c_] + Len(tx[c_]) + Len(conn[c_].outgoing)
    <3>1. InFlow(in, rx[c_], a, sent[c_]) /\ sent[c_] \in Nat
      BY <1>2, <1>4, Handled
    <3> HIDE DEF a, in
    <3>2. PICK k \in Nat : a = 2 * k
      BY <3>1 DEF InFlow
    <3>3. a + Len(in) + 0 = 2 * sent[c_]
      BY <2>1, <3>1 DEF InFlow
    <3>4. Len(in) \in Nat /\ Len(in) < 2
      BY <2>2 DEF Short, in
    <3>5. Len(in) = 0
      BY <3>1, <3>2, <3>3, <3>4
    <3> QED
      BY <2>2, <3>5 DEF in
  <2> QED
    BY <1>1, <1>2, <1>4, <2>1, <2>2, <2>3, Handled, HandlerFrame
<1> QED
  BY <1>3, <1>4

\* A read keeps every unit in its place.
LEMMA ReadStreams ==
  ASSUME Tables, StreamInv, ReadData
  PROVE  StreamInv'
<1>1. Handler
  BY DEF Handler
<1>2. /\ Handling /\ pc = "read" /\ pc' = "drain"
      /\ \E n \in 1 .. Len(rx[c_]) :
           Shape(conn[c_].incoming \o SubSeq(rx[c_], 1, n), conn[c_].outgoing,
                 conn[c_].want_read, conn[c_].want_close,
                 SubSeq(rx[c_], n + 1, Len(rx[c_])), tx[c_])
  BY ReadShape
<1> DEFINE in == conn[c_].incoming
           out == conn[c_].outgoing
           r == rx[c_]
           a == got[c_] + Len(tx[c_]) + Len(out)
<1>3. PICK n \in 1 .. Len(r) :
        /\ conn'[c_].incoming = in \o SubSeq(r, 1, n) /\ conn'[c_].outgoing = out
        /\ conn'[c_].want_close = conn[c_].want_close
        /\ rx'[c_] = SubSeq(r, n + 1, Len(r)) /\ tx'[c_] = tx[c_]
  BY <1>2, Zenon DEF Shape
<1>4. ~ conn[c_].want_close
  BY <1>2, Handled
<1>5. /\ in \in Seq(Units) /\ r \in Seq(Units) /\ a \in Nat
      /\ peer[c_] # "reset" => OutFlow(tx[c_], out, got[c_]) /\ InFlow(in, r, a, sent[c_])
  BY <1>2, Handled
<1>6. ASSUME peer[c_] # "reset"
      PROVE  InFlow(in \o SubSeq(r, 1, n), SubSeq(r, n + 1, Len(r)), a, sent[c_])
  <2> DEFINE f == SubSeq(r, 1, n)
             l == SubSeq(r, n + 1, Len(r))
  <2> HIDE DEF in, r, a
  <2>1. /\ Consecutive(in, a) /\ Consecutive(r, a + Len(in))
        /\ a + Len(in) + Len(r) = 2 * sent[c_] /\ \E k \in Nat : a = 2 * k
    BY <1>5, <1>6 DEF InFlow
  <2>2. n \in 0 .. Len(r) /\ a + Len(in) \in Int /\ Len(in) \in Nat /\ Len(r) \in Nat
    BY <1>5
  <2>3. /\ f \in Seq(Units) /\ l \in Seq(Units) /\ Len(f) = n /\ Len(l) = Len(r) - n
        /\ Consecutive(f, a + Len(in)) /\ Consecutive(l, a + Len(in) + n)
    BY <1>5, <2>1, <2>2, ConsecutiveCut
  <2> HIDE DEF f, l
  <2>4. Consecutive(in \o f, a)
    BY <1>5, <2>1, <2>3, ConsecutiveConcat
  <2>5. Len(in \o f) = Len(in) + n
    BY <1>5, <2>3, LenConcat, Zenon
  <2>6. a + Len(in \o f) = a + Len(in) + n /\ a + Len(in \o f) + Len(l) = 2 * sent[c_]
    BY <1>5, <2>1, <2>2, <2>3, <2>5
  <2> QED
    BY <2>1, <2>3, <2>4, <2>6, Zenon DEF InFlow, f, l
<1> HIDE DEF in, out, r, a
<1>7. peer[c_] # "reset" =>
        /\ OutFlow(tx'[c_], conn'[c_].outgoing, got[c_])
        /\ InFlow(conn'[c_].incoming, rx'[c_],
                  got[c_] + Len(tx'[c_]) + Len(conn'[c_].outgoing), sent[c_])
  BY <1>3, <1>5, <1>6 DEF a
<1> QED
  BY <1>1, <1>2, <1>3, <1>4, <1>7, HandlerFrame, Zenon

\* A request gives way to its reply, at the same place of the stream.
LEMMA RequestStreams ==
  ASSUME Tables, StreamInv, try_one_request
  PROVE  StreamInv'
<1> DEFINE in == conn[c_].incoming
           out == conn[c_].outgoing
           two == <<Unit("hdr", in[1].id, "reply"), Unit("body", in[1].id, "reply")>>
           rest == SubSeq(in, 3, Len(in))
           g == got[c_] + Len(tx[c_])
<1>1. Handler
  BY DEF Handler
<1>2. /\ Handling /\ pc = "drain" /\ pc' = "drain" /\ Len(in) >= 2
      /\ conn'[c_].incoming = rest /\ conn'[c_].outgoing = out \o two
      /\ conn'[c_].want_close = conn[c_].want_close
      /\ rx'[c_] = rx[c_] /\ tx'[c_] = tx[c_]
  BY RequestShape, Zenon DEF Shape
<1>3. ~ conn[c_].want_close
  BY <1>2, Handled, Zenon
<1>4. /\ in \in Seq(Units) /\ out \in Seq(Units) /\ rx[c_] \in Seq(Units) /\ tx[c_] \in Seq(Units)
      /\ g \in Nat /\ got[c_] \in Nat
      /\ peer[c_] # "reset" => OutFlow(tx[c_], out, got[c_]) /\ InFlow(in, rx[c_], g + Len(out), sent[c_])
  <2>1. /\ in \in Seq(Units) /\ out \in Seq(Units) /\ rx[c_] \in Seq(Units) /\ tx[c_] \in Seq(Units)
        /\ got[c_] \in Nat
        /\ peer[c_] # "reset" =>
             OutFlow(tx[c_], out, got[c_]) /\ InFlow(in, rx[c_], g + Len(out), sent[c_])
    BY <1>2, Handled, Zenon
  <2>2. Len(tx[c_]) \in Nat
    BY <2>1
  <2>3. g \in Nat
    BY <2>1, <2>2
  <2> QED
    BY <2>1, <2>3, Zenon
<1>5. ASSUME peer[c_] # "reset"
      PROVE  /\ OutFlow(tx[c_], out \o two, got[c_])
             /\ InFlow(rest, rx[c_], g + Len(out \o two), sent[c_])
  <2> HIDE DEF g, in, out, two, rest
  <2>1. /\ Consecutive(tx[c_], got[c_]) /\ Consecutive(out, g)
        /\ Consecutive(in, g + Len(out)) /\ Consecutive(rx[c_], g + Len(out) + Len(in))
        /\ g + Len(out) + Len(in) + Len(rx[c_]) = 2 * sent[c_]
        /\ \E k \in Nat : g + Len(out) = 2 * k
    BY <1>4, <1>5 DEF OutFlow, InFlow, g
  <2>2. PICK k \in Nat : g + Len(out) = 2 * k
    BY <2>1
  <2>3. two \in Seq(Units) /\ Len(two) = 2 /\ Consecutive(two, g + Len(out))
    BY <1>2, <1>4, <2>1, <2>2, NextReply, Zenon DEF two, in
  <2>4. Consecutive(out \o two, g) /\ Len(out \o two) = Len(out) + 2
    <3>1. Len(out \o two) = Len(out) + 2
      BY <1>4, <2>3, LenConcat, Zenon
    <3> QED
      BY <1>4, <2>1, <2>3, <3>1, ConsecutiveConcat
  <2>5. Len(in) \in Nat /\ Len(out) \in Nat /\ Len(rx[c_]) \in Nat /\ 2 \in 0 .. Len(in)
    BY <1>2, <1>4 DEF in
  <2>6. Len(rest) = Len(in) - 2 /\ Consecutive(rest, g + Len(out) + 2)
    <3>1. rest = SubSeq(in, 2 + 1, Len(in)) /\ g + Len(out) \in Int
      BY <1>4, <2>5 DEF rest
    <3> QED
      BY <1>4, <2>1, <2>5, <3>1, ConsecutiveCut, Zenon
  <2>7. /\ g + Len(out \o two) = g + Len(out) + 2
        /\ g + Len(out \o two) + Len(rest) = g + Len(out) + Len(in)
        /\ g + Len(out \o two) = 2 * (k + 1) /\ k + 1 \in Nat
    <3> DEFINE n == Len(out \o two)
    <3> HIDE DEF n
    <3>1. /\ n = Len(out) + 2 /\ g \in Nat /\ Len(out) \in Nat /\ Len(in) \in Nat
          /\ Len(rest) = Len(in) - 2
      BY <1>4, <2>4, <2>5, <2>6 DEF n
    <3>2. g + n = g + Len(out) + 2 /\ g + n + Len(rest) = g + Len(out) + Len(in)
      BY <3>1
    <3>3. g + n = 2 * (k + 1) /\ k + 1 \in Nat
      BY <2>2, <3>1, <3>2
    <3> QED
      BY <3>2, <3>3 DEF n
  <2>8. OutFlow(tx[c_], out \o two, got[c_])
    BY <2>1, <2>4 DEF OutFlow, g
  <2>9. InFlow(rest, rx[c_], g + Len(out \o two), sent[c_])
    BY <2>1, <2>6, <2>7, Zenon DEF InFlow
  <2> QED
    BY <2>8, <2>9
<1> HIDE DEF in, out, two, rest, g
<1>6. peer[c_] # "reset" =>
        /\ OutFlow(tx'[c_], conn'[c_].outgoing, got[c_])
        /\ InFlow(conn'[c_].incoming, rx'[c_],
                  got[c_] + Len(tx'[c_]) + Len(conn'[c_].outgoing), sent[c_])
  BY <1>2, <1>5 DEF g
<1> QED
  BY <1>1, <1>2, <1>3, <1>6, HandlerFrame

\* The batch ends when no whole frame is left.
LEMMA DrainStreams ==
  ASSUME Tables, StreamInv, DrainDone
  PROVE  StreamInv'
<1> DEFINE in == conn[c_].incoming
           out == conn[c_].outgoing
<1>1. Handler
  BY DEF Handler
<1>2. /\ Handling /\ pc = "drain" /\ pc' = "write" /\ (Len(in) < 2 \/ Huge(in))
      /\ conn'[c_].incoming = in /\ conn'[c_].outgoing = out
      /\ rx'[c_] = rx[c_] /\ tx'[c_] = tx[c_]
      /\ conn'[c_].want_read = (conn[c_].want_read /\ ~ (out # <<>>))
      /\ conn'[c_].want_close = (conn[c_].want_close \/ Huge(in))
  BY DrainShape DEF Shape
<1>3. ~ conn[c_].want_close
  BY <1>2, Handled, Zenon
<1>4. conn'[c_].want_read => out = <<>>
  BY <1>2, Zenon
<1>5. conn'[c_].want_close <=> Huge(in)
  BY <1>2, <1>3, Zenon
<1>6. Short(in) \/ Huge(in)
  BY <1>2 DEF Short
<1> QED
  BY <1>1, <1>2, <1>4, <1>5, <1>6, Handled, HandlerFrame, Zenon

\* A write keeps every unit in its place.
LEMMA WriteStreams ==
  ASSUME Tables, StreamInv, WriteData
  PROVE  StreamInv'
<1> DEFINE in == conn[c_].incoming
           out == conn[c_].outgoing
           t == tx[c_]
<1>1. Handler
  BY DEF Handler
<1>2. Handling /\ pc = "write" /\ pc' = "close"
  BY WriteShape
<1>3. PICK n \in 1 .. Len(out) :
        LET left == SubSeq(out, n + 1, Len(out))
        IN  Shape(in, left, conn[c_].want_read \/ left = <<>>, conn[c_].want_close, rx[c_],
                  t \o SubSeq(out, 1, n))
  BY WriteShape
<1> DEFINE left == SubSeq(out, n + 1, Len(out))
           f == SubSeq(out, 1, n)
<1>4. /\ conn'[c_].incoming = in /\ conn'[c_].outgoing = left
      /\ conn'[c_].want_read = (conn[c_].want_read \/ left = <<>>)
      /\ conn'[c_].want_close = conn[c_].want_close
      /\ rx'[c_] = rx[c_] /\ tx'[c_] = t \o f
  BY <1>3 DEF Shape
<1>5. /\ out \in Seq(Units) /\ t \in Seq(Units) /\ got[c_] \in Nat
      /\ conn[c_].want_read => out = <<>>
      /\ peer[c_] # "reset" => /\ OutFlow(t, out, got[c_])
                               /\ InFlow(in, rx[c_], got[c_] + Len(t) + Len(out), sent[c_])
  BY <1>2, Handled, Zenon
<1>6. out # <<>>
  BY <1>5
<1>7. conn'[c_].want_read => left = <<>>
  BY <1>4, <1>5, <1>6, Zenon
<1>8. ASSUME peer[c_] # "reset"
      PROVE  /\ OutFlow(t \o f, left, got[c_])
             /\ InFlow(in, rx[c_], got[c_] + Len(t \o f) + Len(left), sent[c_])
  <2> HIDE DEF in, out, t
  <2>1. Consecutive(t, got[c_]) /\ Consecutive(out, got[c_] + Len(t))
    BY <1>5, <1>8 DEF OutFlow
  <2>2. got[c_] + Len(t) \in Int /\ n \in 0 .. Len(out) /\ Len(t) \in Nat /\ Len(out) \in Nat
    BY <1>5
  <2>3. /\ f \in Seq(Units) /\ left \in Seq(Units) /\ Len(f) = n /\ Len(left) = Len(out) - n
        /\ Consecutive(f, got[c_] + Len(t)) /\ Consecutive(left, got[c_] + Len(t) + n)
    BY <1>5, <2>1, <2>2, ConsecutiveCut, ZenonT(30)
  <2> HIDE DEF f, left
  <2>4. Len(t \o f) = Len(t) + n
    BY <1>5, <2>3, LenConcat, Zenon
  <2>5. Consecutive(t \o f, got[c_])
    BY <1>5, <2>1, <2>3, ConsecutiveConcat
  <2>6. /\ got[c_] + Len(t \o f) = got[c_] + Len(t) + n
        /\ got[c_] + Len(t \o f) + Len(left) = got[c_] + Len(t) + Len(out)
    <3> DEFINE m == Len(t \o f)
               g == got[c_]
    <3> HIDE DEF m, g
    <3>1. /\ m = Len(t) + n /\ g \in Nat /\ Len(t) \in Nat /\ Len(out) \in Nat
          /\ Len(left) = Len(out) - n
      BY <1>5, <2>2, <2>3, <2>4 DEF m, g
    <3>2. g + m = g + Len(t) + n /\ g + m + Len(left) = g + Len(t) + Len(out)
      BY <3>1
    <3> QED
      BY <3>2 DEF m, g
  <2>7. OutFlow(t \o f, left, got[c_])
    BY <2>3, <2>5, <2>6 DEF OutFlow
  <2>8. InFlow(in, rx[c_], got[c_] + Len(t \o f) + Len(left), sent[c_])
    BY <1>5, <1>8, <2>6
  <2> QED
    BY <2>7, <2>8
<1> HIDE DEF in, out, t, left, f
<1>9. peer[c_] # "reset" =>
        /\ OutFlow(tx'[c_], conn'[c_].outgoing, got[c_])
        /\ InFlow(conn'[c_].incoming, rx'[c_],
                  got[c_] + Len(tx'[c_]) + Len(conn'[c_].outgoing), sent[c_])
  BY <1>4, <1>8
<1>10. Short(conn'[c_].incoming) \/ (Huge(conn'[c_].incoming) /\ conn'[c_].want_close)
  BY <1>2, <1>4, Handled, Zenon DEF in
<1>11. conn'[c_].want_close => peer[c_] = "reset" \/ Huge(conn'[c_].incoming)
  BY <1>2, <1>4, <1>6, Handled, Zenon DEF in, out
<1> QED
  BY <1>1, <1>2, <1>4, <1>7, <1>9, <1>10, <1>11, HandlerFrame, Zenon

\* The handlers keep the invariant.
LEMMA HandlerStreams ==
  ASSUME Tables, StreamInv, Handler
  PROVE  StreamInv'
BY SkipStreams, EndStreams, ReadStreams, RequestStreams, DrainStreams, WriteStreams
   DEF Handler

-----------------------------------------------------------------------------
(* The rest of the loop, the clients, the clock. *)

\* So do the steps that touch no connection.
LEMMA QuietStreams ==
  ASSUME Tables, StreamInv, Quiet
  PROVE  StreamInv'
<1>1. /\ UNCHANGED <<ready, cur, conns_, conn, idle_list_, backlog, peer, rx, tx, sent, got>>
      /\ \/ pc' = pc
         \/ ~ Handling /\ ~ Handling'
  BY QuietShape DEF Handling
<1>2. c_' = c_ /\ Live' = Live /\ Waiting' = Waiting
  BY <1>1 DEF c_, Live, Waiting
<1>3. Turns'
  BY <1>1, <1>2 DEF StreamInv, Turns, Handling
<1>4. Hups'
  BY <1>1, <1>2 DEF StreamInv, Hups, Handling
<1>5. Drained'
  BY <1>1, <1>2 DEF StreamInv, Drained, Handling
<1>6. Ends'
  BY <1>1, <1>2 DEF StreamInv, Ends, Handling
<1>7. Streams'
  BY <1>1, <1>2 DEF StreamInv, Streams, Closed
<1> QED
  BY <1>3, <1>4, <1>5, <1>6, <1>7 DEF StreamInv

\* poll() reports POLLIN only of connections that read.
LEMMA ReturnStreams ==
  ASSUME Tables, StreamInv, PollReturn
  PROVE  StreamInv'
<1>1. /\ pc = "sleep" /\ pc' = "accept"
      /\ UNCHANGED <<cur, conns_, conn, backlog, peer, rx, tx, sent, got>>
      /\ \A r \in ready' : r.re = revents(r.who)
  BY ReturnShape
<1>2. Live' = Live /\ Waiting' = Waiting /\ ~ Handling' /\ ~ Handling
  BY <1>1 DEF Live, Waiting, Handling
<1>3. \A r \in ready' : /\ "in" \in r.re => conn[r.who].want_read
                        /\ "hup" \in r.re => peer[r.who] = "reset"
  BY <1>1 DEF revents
<1>4. Turns'
  BY <1>1, <1>3 DEF StreamInv, Turns
<1>5. Hups'
  BY <1>1, <1>2, <1>3 DEF Hups
<1>6. Drained'
  BY <1>1 DEF StreamInv, Drained
<1>7. Ends'
  BY <1>1 DEF StreamInv, Ends
<1>8. Streams'
  BY <1>1, <1>2 DEF StreamInv, Streams, Closed
<1> QED
  BY <1>4, <1>5, <1>6, <1>7, <1>8 DEF StreamInv

\* A connection that accept_new closes at once was never answered.
LEMMA AcceptClosedStreams ==
  ASSUME Tables, StreamInv, AcceptClosed
  PROVE  StreamInv'
<1> DEFINE h == Head(backlog)
<1>1. /\ pc = "accept" /\ pc' = "conns" /\ Live' = Live
      /\ h \in Clients /\ h \notin Live /\ Waiting' = Waiting \ {h}
      /\ UNCHANGED <<ready, cur, conns_, conn, peer, tx, sent, got>>
      /\ \A c \in Clients : c # h => rx'[c] = rx[c]
  BY AcceptClosedShape, Zenon
<1>2. h \in Waiting
  BY TakenFromBacklog DEF AcceptClosed
<1>3. peer[h] # "none"
  BY <1>2 DEF Tables, Order
<1> HIDE DEF h
<1>4. Turns'
  BY <1>1 DEF StreamInv, Turns
<1>5. Hups'
  BY <1>1 DEF StreamInv, Hups, Handling
<1>6. Drained'
  BY <1>1 DEF StreamInv, Drained
<1>7. Ends'
  BY <1>1 DEF StreamInv, Ends
<1>8. Streams'
  <2> SUFFICES ASSUME NEW c \in Clients, peer'[c] # "reset"
               PROVE  /\ OutFlow(tx'[c], conn'[c].outgoing, got'[c])
                      /\ ~ Closed(c)' => InFlow(conn'[c].incoming, rx'[c],
                              got'[c] + Len(tx'[c]) + Len(conn'[c].outgoing), sent'[c])
    BY DEF Streams
  <2>2. OutFlow(tx'[c], conn'[c].outgoing, got'[c])
    BY <1>1 DEF StreamInv, Streams
  <2>3. CASE c = h
    <3>1. Closed(c)'
      BY <1>1, <1>3, <2>3 DEF Closed
    <3> QED
      BY <2>2, <3>1
  <2>4. CASE c # h
    <3>1. Closed(c)' <=> Closed(c)
      BY <1>1, <2>4 DEF Closed
    <3> QED
      BY <1>1, <2>2, <2>4, <3>1, Zenon DEF StreamInv, Streams
  <2> QED
    BY <2>3, <2>4
<1> QED
  BY <1>4, <1>5, <1>6, <1>7, <1>8 DEF StreamInv

\* A new connection starts with empty buffers.
LEMMA AcceptStreams ==
  ASSUME Tables, StreamInv, accept_new
  PROVE  StreamInv'
<1> DEFINE h == Head(backlog)
<1>1. /\ pc = "accept" /\ pc' = "conns" /\ h \in Clients /\ h \notin Live
      /\ Live' = Live \cup {h} /\ Waiting' = Waiting \ {h} /\ h \in Waiting /\ conn[h] = NoConn
      /\ UNCHANGED <<ready, cur, peer, rx, tx, sent, got>>
      /\ conn'[h] = [NoConn EXCEPT !.want_read = TRUE, !.last_active_ms = now]
      /\ \A c \in Clients : c # h => conn'[c] = conn[c]
  BY AcceptShape
<1> HIDE DEF h
<1>2. /\ conn'[h].incoming = <<>> /\ conn'[h].outgoing = <<>> /\ conn'[h].want_read
      /\ ~ conn'[h].want_close /\ conn[h].incoming = <<>> /\ conn[h].outgoing = <<>>
  BY <1>1 DEF NoConn
<1>3. \A r \in ready : r.who \in Clients
  BY DEF Tables, Types, Event
<1>4. Turns'
  BY <1>1, <1>2, <1>3, Zenon DEF StreamInv, Turns
<1>5. Hups'
  BY <1>1 DEF StreamInv, Hups, Handling
<1>6. Drained'
  BY <1>1, <1>2, Zenon DEF StreamInv, Drained, Short, Huge
<1>7. Ends'
  BY <1>1, <1>2, Zenon DEF StreamInv, Ends
<1>8. Streams'
  <2>1. \A c \in Clients : Closed(c)' <=> Closed(c)
    BY <1>1 DEF Closed
  <2> QED
    BY <1>1, <1>2, <2>1, Zenon DEF StreamInv, Streams
<1> QED
  BY <1>4, <1>5, <1>6, <1>7, <1>8 DEF StreamInv

\* The refresh of a connection leaves its streams alone.
LEMMA TouchStreams ==
  ASSUME Tables, StreamInv, Touch
  PROVE  StreamInv'
<1> DEFINE r == First(ready)
           c == r.who
<1>1. /\ pc = "conns" /\ r \in ready /\ c \in Live /\ c \in Clients /\ c = c_' /\ cur' = r
      /\ ready' = ready \ {r} /\ pc' = IF "in" \in r.re THEN "read" ELSE "write"
      /\ UNCHANGED <<conns_, backlog, peer, rx, tx, sent, got>>
      /\ conn'[c] = [conn[c] EXCEPT !.last_active_ms = now]
      /\ \A d \in Clients : d # c => conn'[d] = conn[d]
  BY TouchShape
<1> HIDE DEF r
<1>2. \A q \in ready : q.who \in Clients
  BY DEF Tables, Types, Event
<1>3. Live' = Live /\ Waiting' = Waiting
  BY <1>1 DEF Live, Waiting
<1>4. \A d \in Clients :
        /\ conn'[d].incoming = conn[d].incoming /\ conn'[d].outgoing = conn[d].outgoing
        /\ conn'[d].want_read = conn[d].want_read /\ conn'[d].want_close = conn[d].want_close
  <2>1. conn[c] \in Conns
    BY <1>1 DEF Tables, Types
  <2> QED
    BY <1>1, <2>1 DEF Conns
<1>5. Turns'
  BY <1>1, <1>2, <1>4 DEF StreamInv, Turns
<1>6. Hups'
  BY <1>1 DEF StreamInv, Hups
<1>7. Drained'
  BY <1>1, <1>4 DEF StreamInv, Drained
<1>8. Ends'
  BY <1>1, <1>4 DEF StreamInv, Ends
<1>9. Streams'
  BY <1>1, <1>3, <1>4 DEF StreamInv, Streams, Closed
<1> QED
  BY <1>5, <1>6, <1>7, <1>8, <1>9 DEF StreamInv

\* Connections C are closed.
LEMMA ResetStreams ==
  ASSUME Tables, StreamInv, NEW C \in SUBSET Live, Live' = Live \ C,
         pc' \in {"conns", "poll"},
         \A c \in Clients : conn'[c] = IF c \in C THEN NoConn ELSE conn[c],
         \A c \in Clients : rx'[c] = IF c \in C THEN <<>> ELSE rx[c],
         UNCHANGED <<ready, backlog, peer, tx, sent, got>>,
         \A r \in ready : r.who \in Clients \ C,
         \A c \in Clients \ C : /\ conn[c].want_read => conn[c].outgoing = <<>>
                                /\ Short(conn[c].incoming) /\ ~ conn[c].want_close
  PROVE  StreamInv'
<1>1. Waiting' = Waiting /\ ~ Handling'
  BY DEF Waiting, Handling
<1>2. C \subseteq Clients /\ \A c \in C : peer[c] # "none" /\ c \notin Waiting
  <2>1. conns_ \in [Fds -> Clients \cup {None}]
    BY Zenon DEF Tables, Types
  <2>2. Live \subseteq Clients
    BY <2>1 DEF Live
  <2> QED
    BY <2>2, Zenon DEF Tables, Order, TablesAgree
<1>3. \A c \in Clients : c \in C =>
        /\ conn'[c].incoming = <<>> /\ conn'[c].outgoing = <<>>
        /\ ~ conn'[c].want_read /\ ~ conn'[c].want_close
  BY SMTT(30) DEF NoConn
<1>4. \A c \in Clients : c \notin C => conn'[c] = conn[c] /\ rx'[c] = rx[c]
  BY Zenon
<1>5. Short(<<>>)
  BY DEF Short, Huge
<1>6. Turns'
  <2>1. \A c \in Clients : conn'[c].want_read => conn'[c].outgoing = <<>>
    BY <1>3, <1>4, Zenon
  <2>2. \A q \in ready : "in" \in q.re => conn[q.who].want_read
    BY Zenon DEF StreamInv, Turns
  <2>3. \A q \in ready' : "in" \in q.re => conn'[q.who].want_read
    BY <1>4, <2>2, Zenon
  <2>4. pc' # "read"
    OBVIOUS
  <2> QED
    BY <2>1, <2>3, <2>4, Zenon DEF Turns
<1>7. Hups'
  BY <1>1, Zenon DEF StreamInv, Hups
<1>8. Drained'
  BY <1>3, <1>4, <1>5 DEF Drained
<1>9. Ends'
  BY <1>3, <1>4 DEF Ends
<1>10. Streams'
  <2> SUFFICES ASSUME NEW c \in Clients, peer'[c] # "reset"
               PROVE  /\ OutFlow(tx'[c], conn'[c].outgoing, got'[c])
                      /\ ~ Closed(c)' => InFlow(conn'[c].incoming, rx'[c],
                              got'[c] + Len(tx'[c]) + Len(conn'[c].outgoing), sent'[c])
    BY Zenon DEF Streams
  <2>1. OutFlow(tx[c], conn[c].outgoing, got[c])
    BY Zenon DEF StreamInv, Streams
  <2>2. CASE c \in C
    <3>1. Closed(c)'
      BY <1>1, <1>2, <2>2 DEF Closed
    <3>2. OutFlow(tx[c], <<>>, got[c])
      BY <2>1, ConsecutiveEmpty DEF OutFlow
    <3> QED
      BY <1>3, <2>2, <3>1, <3>2, Zenon
  <2>3. CASE c \notin C
    <3>1. Closed(c)' <=> Closed(c)
      BY <1>1, <2>3 DEF Closed
    <3> QED
      BY <1>4, <2>3, <3>1, Zenon DEF StreamInv, Streams
  <2> QED
    BY <2>2, <2>3, Zenon
<1> QED
  BY <1>6, <1>7, <1>8, <1>9, <1>10 DEF StreamInv

\* A close drops the buffers of one connection only.
LEMMA CloseStreams ==
  ASSUME Tables, StreamInv, CloseCheck
  PROVE  StreamInv'
<1>1. /\ pc = "close" /\ pc' = "conns" /\ Handling
      /\ UNCHANGED <<ready, backlog, peer, tx, sent, got>>
  BY CloseShape
<1>2. c_ \in Live
  BY <1>1, Current
<1>3. \A r \in ready : r.who \in Clients \ {c_}
  BY <1>1, OthersReady
<1>4. \A c \in Clients \ {c_} : /\ conn[c].want_read => conn[c].outgoing = <<>>
                                /\ Short(conn[c].incoming) /\ ~ conn[c].want_close
  BY <1>1, Zenon DEF StreamInv, Turns, Drained, Ends
<1>5. CASE UNCHANGED <<conns_, conn, idle_list_, rx>> /\ ~ conn[c_].want_close
  <2> DEFINE C == {}
  <2>1. Live' = Live
    BY <1>5 DEF Live
  <2>2. \A c \in Clients : /\ conn[c].want_read => conn[c].outgoing = <<>>
                           /\ Short(conn[c].incoming) /\ ~ conn[c].want_close
    <3>1. (conn[c_].want_read => conn[c_].outgoing = <<>>) /\ Short(conn[c_].incoming)
      BY <1>1, <1>5, Handled, Zenon
    <3> QED
      BY <1>4, <1>5, <3>1
  <2>3. /\ C \in SUBSET Live /\ Live' = Live \ C /\ pc' \in {"conns", "poll"}
        /\ \A c \in Clients : conn'[c] = IF c \in C THEN NoConn ELSE conn[c]
        /\ \A c \in Clients : rx'[c] = IF c \in C THEN <<>> ELSE rx[c]
        /\ \A r \in ready : r.who \in Clients \ C
    BY <1>1, <1>3, <1>5, <2>1
  <2> HIDE DEF C
  <2> QED
    BY <1>1, <2>2, <2>3, ResetStreams
<1>6. CASE /\ Live' = Live \ {c_}
           /\ \A c \in Clients : conn'[c] = IF c = c_ THEN NoConn ELSE conn[c]
           /\ \A c \in Clients : rx'[c] = IF c = c_ THEN <<>> ELSE rx[c]
  <2> DEFINE C == {c_}
  <2>1. /\ C \in SUBSET Live /\ Live' = Live \ C /\ pc' \in {"conns", "poll"}
        /\ \A c \in Clients : conn'[c] = IF c \in C THEN NoConn ELSE conn[c]
        /\ \A c \in Clients : rx'[c] = IF c \in C THEN <<>> ELSE rx[c]
    BY <1>1, <1>2, <1>6
  <2>2. /\ \A r \in ready : r.who \in Clients \ C
        /\ \A c \in Clients \ C : /\ conn[c].want_read => conn[c].outgoing = <<>>
                                  /\ Short(conn[c].incoming) /\ ~ conn[c].want_close
    BY <1>3, <1>4
  <2> HIDE DEF C
  <2> QED
    BY <1>1, <2>1, <2>2, ResetStreams
<1> QED
  BY <1>5, <1>6, CloseShape, Zenon

\* So does a sweep, of those that are idle.
LEMMA SweepStreams ==
  ASSUME Tables, StreamInv, process_timers
  PROVE  StreamInv'
<1>1. /\ pc = "timers" /\ pc' = "poll" /\ ready = {}
      /\ UNCHANGED <<ready, backlog, peer, tx, sent, got>>
  BY SweepShape, Zenon
<1>2. PICK n \in 0 .. Len(idle_list_) :
        LET C == {idle_list_[i] : i \in 1 .. n}
        IN  /\ C \subseteq Live /\ Live' = Live \ C
            /\ \A c \in Clients : conn'[c] = IF c \in C THEN NoConn ELSE conn[c]
            /\ \A c \in Clients : rx'[c] = IF c \in C THEN <<>> ELSE rx[c]
  BY SweepShape, Zenon
<1> DEFINE C == {idle_list_[i] : i \in 1 .. n}
<1>3. /\ C \in SUBSET Live /\ Live' = Live \ C /\ pc' \in {"conns", "poll"}
      /\ \A c \in Clients : conn'[c] = IF c \in C THEN NoConn ELSE conn[c]
      /\ \A c \in Clients : rx'[c] = IF c \in C THEN <<>> ELSE rx[c]
  BY <1>1, <1>2
<1> HIDE DEF C
<1>4. \A c \in Clients : /\ conn[c].want_read => conn[c].outgoing = <<>>
                         /\ Short(conn[c].incoming) /\ ~ conn[c].want_close
  BY <1>1 DEF StreamInv, Turns, Drained, Ends
<1> QED
  BY <1>1, <1>3, <1>4, ResetStreams, Zenon

(* A client changes its own end of its own connection.  The invariant is   *)
(* kept if its streams are, and if it breaks nothing that was settled: a   *)
(* reset stays one, and after a shutdown nothing more is sent.             *)
LEMMA ClientFrame ==
  ASSUME Tables, StreamInv, NEW c \in Clients, UNCHANGED loop,
         \A d \in Clients : d # c =>
           /\ peer'[d] = peer[d] /\ rx'[d] = rx[d] /\ tx'[d] = tx[d]
           /\ sent'[d] = sent[d] /\ got'[d] = got[d] /\ (Closed(d)' <=> Closed(d)),
         peer[c] = "reset" => peer'[c] = "reset",
         peer[c] = "fin" => peer'[c] \in {"fin", "reset"} /\ rx'[c] \in {rx[c], <<>>},
         peer'[c] # "reset" =>
           /\ OutFlow(tx'[c], conn[c].outgoing, got'[c])
           /\ ~ Closed(c)' => InFlow(conn[c].incoming, rx'[c],
                   got'[c] + Len(tx'[c]) + Len(conn[c].outgoing), sent'[c])
  PROVE  StreamInv'
<1>1. UNCHANGED <<pc, ready, cur, conns_, conn>>
  BY Zenon DEF loop
<1>2. c_' = c_ /\ (Handling' <=> Handling)
  BY <1>1, Zenon DEF c_, Handling
<1>3. \A d \in Clients : peer[d] = "reset" => peer'[d] = "reset"
  BY Zenon
<1>4. Turns'
  BY <1>1, <1>2, Zenon DEF StreamInv, Turns
<1>5. Hups'
  <2>1. \A r \in ready : r.who \in Clients
    BY Zenon DEF Tables, Types, Event
  <2>2. Handling => c_ \in Clients
    BY Current, Zenon
  <2> QED
    BY <1>1, <1>2, <1>3, <2>1, <2>2, Zenon DEF StreamInv, Hups
<1>6. Drained'
  BY <1>1, <1>2, Zenon DEF StreamInv, Drained
<1>7. Ends'
  BY <1>1, <1>2, <1>3, ZenonT(30) DEF StreamInv, Ends
<1>8. Streams'
  <2> SUFFICES ASSUME NEW d \in Clients, peer'[d] # "reset"
               PROVE  /\ OutFlow(tx'[d], conn'[d].outgoing, got'[d])
                      /\ ~ Closed(d)' => InFlow(conn'[d].incoming, rx'[d],
                              got'[d] + Len(tx'[d]) + Len(conn'[d].outgoing), sent'[d])
    BY Zenon DEF Streams
  <2>1. CASE d = c
    BY <1>1, <2>1, Zenon
  <2>2. CASE d # c
    BY <1>1, <2>2, Zenon DEF StreamInv, Streams
  <2> QED
    BY <2>1, <2>2, Zenon
<1> QED
  BY <1>4, <1>5, <1>6, <1>7, <1>8, Zenon DEF StreamInv

\* A list with a member appended holds the others at their places.
LEMMA AppendList ==
  ASSUME NEW s \in Seq(Clients), NEW c \in Clients
  PROVE  /\ DOMAIN Append(s, c) = (1 .. Len(s)) \cup {Len(s) + 1}
         /\ DOMAIN s = 1 .. Len(s) /\ Append(s, c)[Len(s) + 1] = c
         /\ \A i \in 1 .. Len(s) : Append(s, c)[i] = s[i]
<1>1. Len(s) \in Nat /\ DOMAIN s = 1 .. Len(s) /\ DOMAIN Append(s, c) = 1 .. Len(s) + 1
  OBVIOUS
<1>2. 1 .. Len(s) + 1 = (1 .. Len(s)) \cup {Len(s) + 1}
  BY <1>1
<1>3. Append(s, c)[Len(s) + 1] = c
  OBVIOUS
<1>4. \A i \in 1 .. Len(s) : Append(s, c)[i] = s[i]
  OBVIOUS
<1> QED
  BY <1>1, <1>2, <1>3, <1>4, Zenon

\* What clients do keeps the invariant.
LEMMA ClientStreams ==
  ASSUME Tables, StreamInv, NEW c \in Clients, Client(c)
  PROVE  StreamInv'
<1> DEFINE in == conn[c].incoming
           out == conn[c].outgoing
           t == tx[c]
           g == got[c]
           r == rx[c]
           a == g + Len(t) + Len(out)
<1>1. /\ peer \in [Clients -> {"none", "open", "fin", "reset"}]
      /\ rx \in [Clients -> Seq(Units)] /\ tx \in [Clients -> Seq(Units)]
      /\ sent \in [Clients -> Nat] /\ got \in [Clients -> Nat] /\ backlog \in Seq(Clients)
      /\ in \in Seq(Units) /\ out \in Seq(Units)
  BY DEF Tables, Types, Conns
<1>2. /\ UNCHANGED loop /\ Live' = Live
  BY Zenon DEF Client, Connect, Send, Recv, HalfClose, Abort, Live, loop
<1>3. peer[c] # "reset" =>
        OutFlow(t, out, g) /\ (~ Closed(c) => InFlow(in, r, a, sent[c]))
  BY Zenon DEF StreamInv, Streams
<1>4. CASE Connect(c)
  <2>1. /\ peer[c] = "none" /\ peer' = [peer EXCEPT ![c] = "open"]
        /\ backlog' = Append(backlog, c) /\ UNCHANGED <<rx, tx, sent, got>>
    BY <1>4 DEF Connect
  <2>2. Waiting' = Waiting \cup {c}
    <3>1. /\ DOMAIN backlog' = (1 .. Len(backlog)) \cup {Len(backlog) + 1}
          /\ DOMAIN backlog = 1 .. Len(backlog) /\ backlog'[Len(backlog) + 1] = c
          /\ \A i \in 1 .. Len(backlog) : backlog'[i] = backlog[i]
      BY <1>1, <2>1, AppendList
    <3> QED
      BY <3>1 DEF Waiting
  <2>3. \A d \in Clients : d # c => peer'[d] = peer[d] /\ (Closed(d)' <=> Closed(d))
    BY <1>1, <1>2, <2>1, <2>2 DEF Closed
  <2>4. ~ Closed(c) /\ peer'[c] = "open"
    BY <1>1, <2>1 DEF Closed
  <2> QED
    BY <1>2, <1>3, <2>1, <2>3, <2>4, ClientFrame, Zenon
<1>5. ASSUME ~ Connect(c)
      PROVE  /\ Waiting' = Waiting
             /\ \A d \in Clients : d # c =>
                  /\ peer'[d] = peer[d] /\ rx'[d] = rx[d] /\ tx'[d] = tx[d]
                  /\ sent'[d] = sent[d] /\ got'[d] = got[d] /\ (Closed(d)' <=> Closed(d))
  <2>1. Waiting' = Waiting
    <3>1. backlog' = backlog
      BY <1>5, Zenon DEF Client, Send, Recv, HalfClose, Abort
    <3> QED
      BY <3>1 DEF Waiting
  <2>2. \A d \in Clients : d # c =>
          /\ peer'[d] = peer[d] /\ rx'[d] = rx[d] /\ tx'[d] = tx[d]
          /\ sent'[d] = sent[d] /\ got'[d] = got[d]
    BY <1>1, <1>5, Zenon DEF Client, Send, Recv, HalfClose, Abort
  <2>3. \A d \in Clients : d # c => (Closed(d)' <=> Closed(d))
    BY <1>2, <2>1, <2>2 DEF Closed
  <2> QED
    BY <2>1, <2>2, <2>3
<1>6. ASSUME ~ Connect(c), NEW kind \in Kinds, Send(c, kind) PROVE StreamInv'
  <2> DEFINE two == <<Unit("hdr", sent[c] + 1, kind), Unit("body", sent[c] + 1, kind)>>
  <2>1. /\ peer[c] = "open" /\ ~ Closed(c) /\ sent'[c] = sent[c] + 1
        /\ UNCHANGED <<peer, tx, got>>
    BY <1>1, <1>6 DEF Send
  <2>2. rx'[c] = r \o two
    BY <1>1, <1>6, <2>1 DEF Send
  <2>3. two \in Seq(Units) /\ Len(two) = 2 /\ Consecutive(two, 2 * sent[c])
    <3> DEFINE u == Unit("hdr", sent[c] + 1, kind)
               v == Unit("body", sent[c] + 1, kind)
    <3>1. u \in Units /\ v \in Units /\ sent[c] \in Nat
      BY <1>1, LoopAssumption DEF Unit, Units
    <3>2. Place(u) = 2 * sent[c] + 1 /\ Place(v) = 2 * sent[c] + 2
      BY <1>1 DEF Unit, Place
    <3>3. two = <<u, v>>
      OBVIOUS
    <3> HIDE DEF two, u, v
    <3>4. two \in Seq(Units) /\ Len(two) = 2 /\ two[1] = u /\ two[2] = v /\ DOMAIN two = 1 .. 2
      BY <3>1, <3>3
    <3>5. \A j \in 1 .. 2 : j = 1 \/ j = 2
      OBVIOUS
    <3>6. \A j \in 1 .. 2 : Place(two[j]) = 2 * sent[c] + j
      BY <3>2, <3>4, <3>5
    <3> QED
      BY <3>4, <3>6 DEF Consecutive
  <2> HIDE DEF two
  <2>4. InFlow(in, r \o two, a, sent[c] + 1)
    <3>1. OutFlow(t, out, g) /\ InFlow(in, r, a, sent[c])
      BY <1>3, <2>1, Zenon
    <3>a. /\ r \in Seq(Units) /\ t \in Seq(Units) /\ in \in Seq(Units) /\ out \in Seq(Units)
          /\ g \in Nat /\ sent[c] \in Nat
      BY <1>1
    <3> HIDE DEF a, in, r, out, t, g
    <3>b. Len(r) \in Nat /\ Len(in) \in Nat /\ Len(t) \in Nat /\ Len(out) \in Nat
      BY <3>a
    <3>2. /\ r \in Seq(Units) /\ Len(r) \in Nat /\ Len(in) \in Nat /\ a \in Nat /\ sent[c] \in Nat
      BY <3>a, <3>b DEF a
    <3>3. /\ Consecutive(in, a) /\ Consecutive(r, a + Len(in))
          /\ a + Len(in) + Len(r) = 2 * sent[c] /\ \E k \in Nat : a = 2 * k
      BY <3>1 DEF InFlow
    <3>4. Len(r \o two) = Len(r) + 2
      BY <2>3, <3>2, LenConcat, Zenon
    <3>5. Consecutive(r \o two, a + Len(in))
      <4>1. a + Len(in) \in Int /\ Consecutive(two, a + Len(in) + Len(r))
        BY <2>3, <3>2, <3>3
      <4> QED
        BY <2>3, <3>2, <3>3, <4>1, ConsecutiveConcat
    <3>6. a + Len(in) + Len(r \o two) = 2 * (sent[c] + 1)
      BY <3>2, <3>3, <3>4
    <3> QED
      BY <3>3, <3>5, <3>6 DEF InFlow
  <2>5. OutFlow(t, out, g)
    BY <1>3, <2>1, Zenon
  <2> QED
    BY <1>2, <1>5, <1>6, <2>1, <2>2, <2>4, <2>5, ClientFrame, Zenon
<1>7. CASE Recv(c)
  <2>1. /\ got'[c] = g + Len(t) /\ tx'[c] = <<>> /\ UNCHANGED <<peer, rx, sent>>
    BY <1>1, <1>7 DEF Recv
  <2>2. ~ Connect(c)
    BY <1>1, <1>7 DEF Recv, Connect
  <2>3. Closed(c)' <=> Closed(c)
    BY <1>2, <1>5, <2>1, <2>2 DEF Closed
  <2>4. ASSUME OutFlow(t, out, g) PROVE OutFlow(<<>>, out, g + Len(t))
    <3>1. g + Len(t) + Len(<<>>) = g + Len(t)
      BY <1>1, ConsecutiveEmpty
    <3> QED
      BY <2>4, <3>1, ConsecutiveEmpty, Zenon DEF OutFlow
  <2>5. got'[c] + Len(tx'[c]) + Len(out) = a
    <3>1. got'[c] + Len(tx'[c]) + Len(out) = (g + Len(t)) + 0 + Len(out)
      BY <2>1, ConsecutiveEmpty, Zenon
    <3>2. g \in Nat /\ Len(t) \in Nat /\ Len(out) \in Nat
      BY <1>1
    <3> HIDE DEF t, out
    <3>3. (g + Len(t)) + 0 + Len(out) = g + Len(t) + Len(out)
      BY <3>2
    <3> QED
      BY <3>1, <3>3
  <2> HIDE DEF a
  <2> QED
    BY <1>2, <1>3, <1>5, <2>1, <2>2, <2>3, <2>4, <2>5, ClientFrame, Zenon
<1>8. CASE HalfClose(c)
  <2>1. peer[c] = "open" /\ peer'[c] = "fin" /\ UNCHANGED <<rx, tx, sent, got>>
    BY <1>1, <1>8 DEF HalfClose
  <2>2. ~ Connect(c)
    BY <2>1 DEF Connect
  <2>3. Closed(c)' <=> Closed(c)
    BY <1>2, <1>5, <2>1, <2>2 DEF Closed
  <2> QED
    BY <1>2, <1>3, <1>5, <2>1, <2>2, <2>3, ClientFrame, Zenon
<1>9. CASE Abort(c)
  <2>1. peer[c] \in {"open", "fin"} /\ peer'[c] = "reset" /\ rx'[c] = <<>>
    BY <1>1, <1>9 DEF Abort
  <2>2. ~ Connect(c)
    BY <2>1, Zenon DEF Connect
  <2> QED
    BY <1>2, <1>5, <2>1, <2>2, ClientFrame, Zenon
<1> QED
  BY <1>4, <1>6, <1>7, <1>8, <1>9 DEF Client

-----------------------------------------------------------------------------
(* Results. *)

\* The server starts with empty streams.
LEMMA StreamInit == Init => StreamInv
<1> SUFFICES ASSUME Init PROVE StreamInv
  OBVIOUS
<1>1. \A c \in Clients : /\ conn[c].incoming = <<>> /\ conn[c].outgoing = <<>>
                         /\ ~ conn[c].want_read /\ ~ conn[c].want_close
                         /\ rx[c] = <<>> /\ tx[c] = <<>> /\ got[c] = 0 /\ sent[c] = 0
  BY Zenon DEF Init, NoConn
<1>2. Turns /\ Hups /\ Drained /\ Ends
  BY <1>1, SMTT(30) DEF Init, Turns, Hups, Drained, Ends, Short, Huge, Handling
<1>3. OutFlow(<<>>, <<>>, 0)
  BY ConsecutiveEmpty DEF OutFlow
<1>4. InFlow(<<>>, <<>>, 0, 0)
  BY ConsecutiveEmpty DEF InFlow
<1>5. 0 + Len(<<>>) + Len(<<>>) = 0
  BY ConsecutiveEmpty
<1>6. Streams
  BY <1>1, <1>3, <1>4, <1>5, Zenon DEF Streams
<1> QED
  BY <1>2, <1>6 DEF StreamInv

\* The stream invariant holds in every state.
THEOREM StreamInvariant == Spec => []StreamInv
<1>1. ASSUME Tables, StreamInv, [Next]_vars PROVE StreamInv'
  <2>1. ASSUME NEW c \in Clients, Client(c) PROVE StreamInv'
    BY <1>1, <2>1, ClientStreams
  <2>2. Handler \/ Quiet \/ PollReturn \/ AcceptClosed \/ accept_new \/ Touch \/ CloseCheck
        \/ process_timers \/ \E c \in Clients : Client(c)
    BY <1>1 DEF Next, run, Handler, Quiet
  <2> QED
    BY <1>1, <2>1, <2>2, HandlerStreams, QuietStreams, ReturnStreams, AcceptClosedStreams,
       AcceptStreams, TouchStreams, CloseStreams, SweepStreams
<1>2. Tables /\ StreamInv /\ [Next]_vars => StreamInv'
  BY <1>1
<1> QED
  BY TablesInvariant, StreamInit, <1>2, PTL DEF Spec

(* Replies come back in request order, each once and whole, whatever way   *)
(* read() and write() cut the streams and whenever the loop turns to other *)
(* connections.                                                            *)
THEOREM StreamsSafe == Spec => []StreamsExact
<1>1. ASSUME Tables, StreamInv PROVE StreamsExact
  <2> SUFFICES ASSUME NEW c \in Clients, peer[c] # "reset"
               PROVE  LET out == tx[c] \o conn[c].outgoing
                          in == conn[c].incoming \o rx[c]
                          answered == got[c] + Len(out)
                      IN  /\ Consecutive(out, got[c])
                          /\ c \in Live => /\ Consecutive(in, answered)
                                           /\ answered + Len(in) = 2 * sent[c]
    BY Zenon DEF StreamsExact
  <2> DEFINE t == tx[c]
             o == conn[c].outgoing
             i == conn[c].incoming
             r == rx[c]
             g == got[c]
             s == sent[c]
  <2>1. /\ t \in Seq(Units) /\ o \in Seq(Units) /\ i \in Seq(Units) /\ r \in Seq(Units)
        /\ g \in Nat /\ s \in Nat
    BY <1>1 DEF Tables, Types, Conns
  <2>2. OutFlow(t, o, g) /\ (c \in Live => InFlow(i, r, g + Len(t) + Len(o), s))
    BY <1>1, Zenon DEF StreamInv, Streams, Closed
  <2> HIDE DEF t, o, i, r, g, s
  <2>3. Consecutive(t \o o, g)
    BY <2>1, <2>2, ConsecutiveConcat DEF OutFlow
  <2>4. Len(t \o o) = Len(t) + Len(o) /\ Len(i \o r) = Len(i) + Len(r)
    BY <2>1, LenConcat
  <2> DEFINE m == Len(t \o o)
             n == Len(i \o r)
  <2>5. /\ m = Len(t) + Len(o) /\ n = Len(i) + Len(r)
        /\ Len(t) \in Nat /\ Len(o) \in Nat /\ Len(i) \in Nat /\ Len(r) \in Nat
    BY <2>1, <2>4
  <2> HIDE DEF m, n
  <2>6. g + m = g + Len(t) + Len(o) /\ g + m \in Int
    BY <2>1, <2>5
  <2>7. ASSUME c \in Live PROVE Consecutive(i \o r, g + m) /\ g + m + n = 2 * s
    <3>1. Consecutive(i, g + m) /\ Consecutive(r, g + m + Len(i)) /\ g + m + Len(i) + Len(r) = 2 * s
      BY <2>2, <2>6, <2>7 DEF InFlow
    <3>2. Consecutive(i \o r, g + m)
      BY <2>1, <2>6, <3>1, ConsecutiveConcat
    <3> QED
      BY <2>5, <2>6, <3>1, <3>2
  <2> QED
    BY <2>3, <2>7, Zenon DEF t, o, i, r, g, s, m, n
<1>2. Tables /\ StreamInv => StreamsExact
  BY <1>1
<1> QED
  BY TablesInvariant, StreamInvariant, <1>2, PTL

(* When the loop goes to sleep, no buffer holds a request that has arrived *)
(* whole or a frame that is too long: handle_read executes all it has.     *)
THEOREM NothingStranded == Spec => []NoStrandedRequest
<1>1. ASSUME Tables, StreamInv PROVE NoStrandedRequest
  <2>1. Live \subseteq Clients
    BY <1>1 DEF Tables, Types, Live
  <2> QED
    BY <1>1, <2>1 DEF StreamInv, Drained, Short, NoStrandedRequest
<1>2. Tables /\ StreamInv => NoStrandedRequest
  BY <1>1
<1> QED
  BY TablesInvariant, StreamInvariant, <1>2, PTL

\* Only a read() makes a buffer longer, and only when no reply waits.
LEMMA BackPressureStep ==
  ASSUME Tables, StreamInv, [Next]_vars, NEW c \in Live,
         Len(conn'[c].incoming) > Len(conn[c].incoming)
  PROVE  conn[c].outgoing = <<>>
<1>1. c \in Clients /\ conn[c].incoming \in Seq(Units) /\ Len(conn[c].incoming) \in Nat
  BY DEF Tables, Types, Conns, Live
<1>2. ~ UNCHANGED conn /\ conn'[c].incoming # conn[c].incoming /\ conn'[c] # NoConn
  <2>1. Len(<<>>) = 0
    BY ConsecutiveEmpty
  <2>2. conn'[c].incoming # <<>>
    BY <1>1, <2>1
  <2> QED
    BY <1>1, <2>2 DEF NoConn
<1>3. CASE Handler
  <2>1. c = c_ /\ Handling
    BY <1>1, <1>2, <1>3, HandlerShape
  <2>2. ~ (ReadAgain \/ WriteNothing \/ ReadEnd \/ WriteError \/ DrainDone \/ WriteData)
    BY <1>2, <2>1, SkipShape, EndShape, DrainShape, WriteShape, Zenon DEF Shape
  <2>3. CASE try_one_request
    <3>1. /\ conn'[c].incoming = SubSeq(conn[c].incoming, 3, Len(conn[c].incoming))
          /\ Len(conn[c].incoming) >= 2
      BY <2>1, <2>3, RequestShape, Zenon DEF Shape
    <3>2. Len(conn'[c].incoming) = Len(conn[c].incoming) - 2
      BY <1>1, <3>1
    <3> QED
      BY <1>1, <3>2
  <2>4. CASE ReadData
    BY <2>1, <2>4, ReadShape, Handled, Zenon
  <2> QED
    BY <1>3, <2>2, <2>3, <2>4 DEF Handler
<1>4. ~ Quiet /\ ~ PollReturn /\ ~ AcceptClosed /\ ~ (\E d \in Clients : Client(d))
  <2>1. ~ Quiet /\ ~ PollReturn /\ ~ AcceptClosed
    BY <1>2, QuietShape, ReturnShape, AcceptClosedShape, Zenon
  <2>2. ~ (\E d \in Clients : Client(d))
    BY <1>2, Zenon DEF Client, Connect, Send, Recv, HalfClose, Abort, loop
  <2> QED
    BY <2>1, <2>2
<1>5. ~ accept_new
  BY <1>1, <1>2, AcceptShape
<1>6. ~ Touch
  <2> SUFFICES ASSUME Touch PROVE FALSE
    OBVIOUS
  <2> DEFINE w == First(ready).who
  <2>1. /\ w \in Clients /\ conn'[w] = [conn[w] EXCEPT !.last_active_ms = now]
        /\ \A d \in Clients : d # w => conn'[d] = conn[d]
    BY TouchShape
  <2> HIDE DEF w
  <2>2. conn[w] \in Conns
    BY <2>1 DEF Tables, Types
  <2>3. conn'[w].incoming = conn[w].incoming
    BY <2>1, <2>2 DEF Conns
  <2> QED
    BY <1>1, <1>2, <2>1, <2>3, Zenon
<1>7. ~ CloseCheck
  BY <1>1, <1>2, CloseShape, Zenon
<1>8. ~ process_timers
  BY <1>1, <1>2, SweepShape
<1> QED
  BY <1>3, <1>4, <1>5, <1>6, <1>7, <1>8 DEF Next, run, Handler, Quiet

(* A connection reads or writes: no step takes bytes from a client that    *)
(* has replies waiting.                                                    *)
THEOREM BackPressureSafe == Spec => BackPressure
<1>1. Tables /\ StreamInv /\ [Next]_vars
      => [\A c \in Live : Len(conn'[c].incoming) > Len(conn[c].incoming) =>
            conn[c].outgoing = <<>>]_vars
  BY BackPressureStep
<1> QED
  BY TablesInvariant, StreamInvariant, <1>1, PTL DEF Spec, BackPressure

\* The close of a handled connection finds it answered to the last request.
LEMMA OrderlyStep ==
  ASSUME Tables, StreamInv, [Next]_vars, NEW c \in Live, pc = "close", c \notin Live'
  PROVE  peer[c] = "reset" \/ Huge(conn[c].incoming) \/ got[c] + Len(tx[c]) = 2 * sent[c]
<1>1. Handling /\ c \in Clients
  BY DEF Handling, Tables, Types, Live
<1>2. CloseCheck
  <2>1. ~ UNCHANGED conns_
    BY Zenon DEF Live
  <2>2. ~ Handler
    BY <2>1, HandlerShape, Zenon
  <2>3. ~ (\E d \in Clients : Client(d))
    BY <2>1, Zenon DEF Client, Connect, Send, Recv, HalfClose, Abort, loop
  <2>4. ~ Quiet /\ ~ PollReturn /\ ~ AcceptClosed /\ ~ accept_new /\ ~ Touch /\ ~ process_timers
    BY <2>1, QuietShape DEF PollReturn, AcceptClosed, accept_new, Touch, process_timers
  <2> QED
    BY <2>2, <2>3, <2>4 DEF Next, run, Handler, Quiet
<1>3. c = c_ /\ (conn[c_].want_close \/ "hup" \in cur.re)
  <2>1. ~ UNCHANGED conns_
    BY DEF Live
  <2> QED
    BY <1>2, <2>1, CloseShape
<1>4. CASE "hup" \in cur.re
  BY <1>1, <1>3, <1>4, Zenon DEF StreamInv, Hups
<1>5. CASE conn[c_].want_close
  <2> SUFFICES ASSUME peer[c_] # "reset", ~ Huge(conn[c_].incoming)
               PROVE  got[c_] + Len(tx[c_]) = 2 * sent[c_]
    BY <1>3
  <2>1. /\ rx[c_] = <<>> /\ conn[c_].outgoing = <<>> /\ conn[c_].incoming = <<>>
        /\ InFlow(conn[c_].incoming, rx[c_],
                  got[c_] + Len(tx[c_]) + Len(conn[c_].outgoing), sent[c_])
        /\ got[c_] \in Nat /\ sent[c_] \in Nat /\ tx[c_] \in Seq(Units)
    BY <1>1, <1>5, Handled, Zenon
  <2>2. got[c_] + Len(tx[c_]) + 0 + 0 + 0 = 2 * sent[c_]
    BY <2>1, ConsecutiveEmpty DEF InFlow
  <2> QED
    BY <2>1, <2>2
<1> QED
  BY <1>3, <1>4, <1>5, Zenon

(* A connection that is closed after it was handled has been answered to   *)
(* the last request, unless it broke or sent a frame that is too long: the *)
(* end of file is seen only by a connection that reads, hence has nothing  *)
(* left to write, and whose requests are all executed.                     *)
THEOREM OrderlySafe == Spec => OrderlyClose
<1>1. Tables /\ StreamInv /\ [Next]_vars
      => [\A c \in Live : pc = "close" /\ c \notin Live' =>
            \/ peer[c] = "reset" \/ Huge(conn[c].incoming)
            \/ got[c] + Len(tx[c]) = 2 * sent[c]]_vars
  BY OrderlyStep
<1> QED
  BY TablesInvariant, StreamInvariant, <1>1, PTL DEF Spec, OrderlyClose

-----------------------------------------------------------------------------
(* The idle list. *)

\* No connection was active in the future: a refreshed one belongs at the back.
Sorted == IdleListSorted /\ \A c \in Clients : conn[c].last_active_ms =< now

\* The list loses nodes, and the others keep their times.
LEMMA SortedSub ==
  ASSUME Tables, IdleListSorted,
         idle_list_' \in Seq(Clients),
         \A i, j \in DOMAIN idle_list_' : i < j =>
           \E k, l \in DOMAIN idle_list_ :
             k < l /\ idle_list_'[i] = idle_list_[k] /\ idle_list_'[j] = idle_list_[l],
         \A i \in DOMAIN idle_list_' :
           conn'[idle_list_'[i]].last_active_ms = conn[idle_list_'[i]].last_active_ms
  PROVE  IdleListSorted'
<1> SUFFICES ASSUME NEW i \in DOMAIN idle_list_', NEW j \in DOMAIN idle_list_', i < j
             PROVE  conn'[idle_list_'[i]].last_active_ms =< conn'[idle_list_'[j]].last_active_ms
  BY DEF IdleListSorted
<1>1. PICK k, l \in DOMAIN idle_list_ :
         k < l /\ idle_list_'[i] = idle_list_[k] /\ idle_list_'[j] = idle_list_[l]
  OBVIOUS
<1>2. conn[idle_list_[k]].last_active_ms =< conn[idle_list_[l]].last_active_ms
  BY <1>1 DEF IdleListSorted
<1> QED
  BY <1>1, <1>2

\* The list gains a node at the back, with the present time.
LEMMA SortedAppend ==
  ASSUME NEW rest \in Seq(Clients), NEW c \in Clients, idle_list_' = Append(rest, c),
         \A i, j \in DOMAIN rest : i < j =>
           conn[rest[i]].last_active_ms =< conn[rest[j]].last_active_ms,
         \A i \in DOMAIN rest : rest[i] # c,
         \A d \in Clients : d # c => conn'[d] = conn[d],
         \A d \in Clients : conn[d].last_active_ms =< now,
         conn'[c].last_active_ms = now, now \in Nat
  PROVE  IdleListSorted'
<1>1. /\ DOMAIN rest = 1 .. Len(rest) /\ Len(rest) \in Nat
      /\ DOMAIN idle_list_' = (1 .. Len(rest)) \cup {Len(rest) + 1}
      /\ idle_list_'[Len(rest) + 1] = c
      /\ \A i \in 1 .. Len(rest) : idle_list_'[i] = rest[i] /\ rest[i] \in Clients
  OBVIOUS
<1> SUFFICES ASSUME NEW i \in DOMAIN idle_list_', NEW j \in DOMAIN idle_list_', i < j
             PROVE  conn'[idle_list_'[i]].last_active_ms =< conn'[idle_list_'[j]].last_active_ms
  BY DEF IdleListSorted
<1>2. i \in 1 .. Len(rest)
  BY <1>1
<1>3. conn'[idle_list_'[i]].last_active_ms = conn[rest[i]].last_active_ms
  BY <1>1, <1>2
<1>4. CASE j = Len(rest) + 1
  BY <1>1, <1>2, <1>3, <1>4
<1>5. CASE j \in 1 .. Len(rest)
  BY <1>1, <1>2, <1>3, <1>5
<1> QED
  BY <1>1, <1>4, <1>5

\* Every step keeps the list sorted and its times in the past.
LEMMA SortedNext ==
  ASSUME Tables, Sorted, [Next]_vars
  PROVE  Sorted'
<1> DEFINE Past == \A c \in Clients : conn[c].last_active_ms =< now
<1>1. /\ idle_list_ \in Seq(Clients) /\ now \in Nat /\ Past /\ IdleListSorted
      /\ Distinct(idle_list_) /\ {idle_list_[i] : i \in DOMAIN idle_list_} = Live
      /\ \A i \in DOMAIN idle_list_ : idle_list_[i] \in Clients
      /\ \A c \in Clients : conn[c].last_active_ms \in Nat
  BY DEF Tables, Types, TablesAgree, Sorted, Distinct, Conns
<1>2. CASE Quiet
  <2>1. UNCHANGED <<conn, idle_list_>> /\ now' >= now /\ now' \in Nat
    BY <1>2, QuietShape
  <2> QED
    BY <1>1, <2>1 DEF Sorted, IdleListSorted
<1>3. CASE Handler
  <2>1. UNCHANGED <<idle_list_, now>>
    BY <1>3, HandlerShape
  <2>2. \A c \in Clients : conn'[c].last_active_ms = conn[c].last_active_ms
    BY <1>3, HandlerShape, Zenon
  <2> QED
    BY <1>1, <2>1, <2>2 DEF Sorted, IdleListSorted
<1>4. CASE \E c \in Clients : Client(c)
  <2>1. UNCHANGED <<conn, idle_list_, now>>
    BY <1>4, Zenon DEF Client, Connect, Send, Recv, HalfClose, Abort, loop
  <2> QED
    BY <1>1, <2>1 DEF Sorted, IdleListSorted
<1>5. CASE PollReturn
  <2>1. UNCHANGED <<conn, idle_list_, now>>
    BY <1>5, ReturnShape
  <2> QED
    BY <1>1, <2>1 DEF Sorted, IdleListSorted
<1>6. CASE AcceptClosed
  <2>1. UNCHANGED <<conn, idle_list_, now>>
    BY <1>6, AcceptClosedShape
  <2> QED
    BY <1>1, <2>1 DEF Sorted, IdleListSorted
<1>7. CASE accept_new
  <2> DEFINE h == Head(backlog)
  <2>1. /\ h \in Clients /\ h \notin Live /\ now' = now /\ idle_list_' = Append(idle_list_, h)
        /\ conn'[h] = [NoConn EXCEPT !.want_read = TRUE, !.last_active_ms = now]
        /\ \A c \in Clients : c # h => conn'[c] = conn[c]
    BY <1>7, AcceptShape
  <2> HIDE DEF h
  <2>2. conn'[h].last_active_ms = now
    BY <2>1 DEF NoConn
  <2>3. \A i \in DOMAIN idle_list_ : idle_list_[i] # h
    BY <1>1, <2>1
  <2>4. IdleListSorted'
    BY <1>1, <2>1, <2>2, <2>3, SortedAppend, ZenonT(30) DEF IdleListSorted
  <2>5. \A c \in Clients : conn'[c].last_active_ms =< now'
    <3> SUFFICES ASSUME NEW c \in Clients PROVE conn'[c].last_active_ms =< now
      BY <2>1
    <3>1. CASE c = h
      BY <1>1, <2>2, <3>1
    <3>2. CASE c # h
      <4>1. conn'[c] = conn[c]
        BY <2>1, <3>2
      <4> QED
        BY <1>1, <4>1
    <3> QED
      BY <3>1, <3>2
  <2> QED
    BY <2>4, <2>5 DEF Sorted
<1>8. CASE Touch
  <2> DEFINE c == First(ready).who
             rest == Detached(idle_list_, c)
  <2>1. /\ c \in Clients /\ now' = now /\ Without(idle_list_, c, rest)
        /\ idle_list_' = Append(rest, c) /\ conn'[c] = [conn[c] EXCEPT !.last_active_ms = now]
        /\ \A d \in Clients : d # c => conn'[d] = conn[d]
    BY <1>8, TouchShape
  <2> HIDE DEF c, rest
  <2>2. conn'[c].last_active_ms = now
    BY <2>1 DEF Tables, Types, Conns
  <2>3. /\ rest \in Seq(Clients) /\ \A i \in DOMAIN rest : rest[i] # c
        /\ \A i, j \in DOMAIN rest : i < j =>
             \E k, l \in DOMAIN idle_list_ :
               k < l /\ rest[i] = idle_list_[k] /\ rest[j] = idle_list_[l]
    <3>1. \A x \in {rest[i] : i \in DOMAIN rest} : x # c
      BY <2>1, Zenon DEF Without
    <3> QED
      BY <2>1, <3>1 DEF Without
  <2>4. \A i, j \in DOMAIN rest : i < j =>
          conn[rest[i]].last_active_ms =< conn[rest[j]].last_active_ms
    BY <1>1, <2>3 DEF IdleListSorted
  <2>5. IdleListSorted'
    <3>1. now \in Nat /\ \A d \in Clients : conn[d].last_active_ms =< now
      BY <1>1
    <3>2. rest \in Seq(Clients) /\ \A i \in DOMAIN rest : rest[i] # c
      BY <2>3
    <3> QED
      BY <2>1, <2>2, <2>4, <3>1, <3>2, SortedAppend, Zenon
  <2>6. \A d \in Clients : conn'[d].last_active_ms =< now'
    <3> SUFFICES ASSUME NEW d \in Clients PROVE conn'[d].last_active_ms =< now
      BY <2>1
    <3>1. CASE d = c
      BY <1>1, <2>2, <3>1
    <3>2. CASE d # c
      <4>1. conn'[d] = conn[d]
        BY <2>1, <3>2
      <4> QED
        BY <1>1, <4>1
    <3> QED
      BY <3>1, <3>2
  <2> QED
    BY <2>5, <2>6 DEF Sorted
<1>9. CASE CloseCheck
  <2>1. now' = now /\ Handling
    BY <1>9, CloseShape
  <2>2. CASE UNCHANGED <<conn, idle_list_>>
    BY <1>1, <2>1, <2>2 DEF Sorted, IdleListSorted
  <2>3. CASE ~ UNCHANGED <<conn, idle_list_>>
    <3> DEFINE rest == Detached(idle_list_, c_)
    <3>1. /\ idle_list_' = rest
          /\ \A c \in Clients : conn'[c] = IF c = c_ THEN NoConn ELSE conn[c]
      BY <1>9, <2>3, CloseShape
    <3>2. c_ \in Live
      BY <2>1, Current
    <3>3. Without(idle_list_, c_, rest)
      BY <1>1, <3>2, DetachedList
    <3> HIDE DEF rest
    <3>4. /\ rest \in Seq(Clients)
          /\ \A i, j \in DOMAIN rest : i < j =>
               \E k, l \in DOMAIN idle_list_ :
                 k < l /\ rest[i] = idle_list_[k] /\ rest[j] = idle_list_[l]
      BY <3>3 DEF Without
    <3>5. \A i \in DOMAIN rest : rest[i] # c_ /\ rest[i] \in Clients
      <4>1. \A x \in {rest[i] : i \in DOMAIN rest} : x # c_
        BY <3>3, Zenon DEF Without
      <4> QED
        BY <3>4, <4>1
    <3>6. IdleListSorted'
      BY <1>1, <3>1, <3>4, <3>5, SortedSub
    <3>7. \A c \in Clients : conn'[c].last_active_ms =< now
      BY <1>1, <3>1 DEF NoConn
    <3> QED
      BY <2>1, <3>6, <3>7 DEF Sorted
  <2> QED
    BY <2>2, <2>3
<1>10. CASE process_timers
  <2>1. now' = now
    BY <1>10, SweepShape
  <2>2. PICK n \in 0 .. Len(idle_list_) :
          LET C == {idle_list_[i] : i \in 1 .. n}
          IN  /\ idle_list_' = SubSeq(idle_list_, n + 1, Len(idle_list_))
              /\ \A c \in Clients : conn'[c] = IF c \in C THEN NoConn ELSE conn[c]
    BY <1>10, SweepShape
  <2>3. /\ idle_list_' \in Seq(Clients) /\ DOMAIN idle_list_' = 1 .. Len(idle_list_) - n
        /\ \A i \in 1 .. Len(idle_list_) - n :
             i + n \in DOMAIN idle_list_ /\ idle_list_'[i] = idle_list_[i + n]
    BY <1>1, <2>2
  <2>4. \A i \in DOMAIN idle_list_' :
          conn'[idle_list_'[i]].last_active_ms = conn[idle_list_'[i]].last_active_ms
    <3> SUFFICES ASSUME NEW i \in 1 .. Len(idle_list_) - n
                 PROVE  conn'[idle_list_[i + n]] = conn[idle_list_[i + n]]
      BY <2>3, Zenon
    <3>1. \A k \in 1 .. n : k \in DOMAIN idle_list_ /\ k # i + n
      BY <1>1
    <3>2. idle_list_[i + n] \notin {idle_list_[k] : k \in 1 .. n}
      BY <1>1, <2>3, <3>1 DEF Distinct
    <3> QED
      BY <1>1, <2>2, <2>3, <3>2, Zenon
  <2>5. \A i, j \in DOMAIN idle_list_' : i < j =>
          \E k, l \in DOMAIN idle_list_ :
            k < l /\ idle_list_'[i] = idle_list_[k] /\ idle_list_'[j] = idle_list_[l]
    <3> SUFFICES ASSUME NEW i \in DOMAIN idle_list_', NEW j \in DOMAIN idle_list_', i < j
                 PROVE  \E k, l \in DOMAIN idle_list_ :
                          k < l /\ idle_list_'[i] = idle_list_[k] /\ idle_list_'[j] = idle_list_[l]
      OBVIOUS
    <3>1. i + n < j + n
      BY <1>1, <2>3
    <3> QED
      BY <2>3, <3>1, Zenon
  <2>6. IdleListSorted'
    BY <1>1, <2>3, <2>4, <2>5, SortedSub
  <2>7. \A c \in Clients : conn'[c].last_active_ms =< now
    BY <1>1, <2>2 DEF NoConn
  <2> QED
    BY <2>1, <2>6, <2>7 DEF Sorted
<1> QED
  BY <1>2, <1>3, <1>4, <1>5, <1>6, <1>7, <1>8, <1>9, <1>10
     DEF Next, run, Handler, Quiet

\* The list is sorted, and its times are in the past, in every state.
THEOREM SortedInvariant == Spec => []Sorted
<1>1. Init => Sorted
  <2> SUFFICES ASSUME Init PROVE Sorted
    OBVIOUS
  <2>1. idle_list_ = <<>> /\ now = 0 /\ \A c \in Clients : conn[c].last_active_ms = 0
    BY DEF Init, NoConn
  <2> QED
    BY <2>1 DEF Sorted, IdleListSorted
<1>2. Tables /\ Sorted /\ [Next]_vars => Sorted'
  BY SortedNext
<1> QED
  BY TablesInvariant, <1>1, <1>2, PTL DEF Spec

(* The idle list is in last-active order at every moment: accept_new and   *)
(* the refresh put a connection at the back with the present time, and     *)
(* detaching one leaves the order of the others as it is.                  *)
THEOREM IdleListSafe == Spec => []IdleListSorted
<1>1. Sorted => IdleListSorted
  BY DEF Sorted
<1> QED
  BY SortedInvariant, <1>1, PTL

\* A sweep of a sorted list closes exactly the idle connections.
LEMMA SweepStep ==
  ASSUME Tables, Sorted, [Next]_vars, pc = "timers", pc' # pc
  PROVE  Live \ Live' = {c \in Live : Idle(c)}
<1>1. process_timers
  <2>1. ~ Handler /\ ~ (\E c \in Clients : Client(c)) /\ ~ Quiet
    <3>1. ~ Handler
      BY HandlerShape DEF Handling
    <3>2. ~ (\E c \in Clients : Client(c))
      BY Zenon DEF Client, Connect, Send, Recv, HalfClose, Abort, loop
    <3>3. ~ Quiet
      BY QuietShape
    <3> QED
      BY <3>1, <3>2, <3>3
  <2>2. ~ PollReturn /\ ~ AcceptClosed /\ ~ accept_new /\ ~ Touch /\ ~ CloseCheck
    BY DEF PollReturn, AcceptClosed, accept_new, Touch, CloseCheck
  <2> QED
    BY <2>1, <2>2 DEF Next, run, Handler, Quiet
<1>2. PICK n \in 0 .. Len(idle_list_) :
        LET C == {idle_list_[i] : i \in 1 .. n}
        IN  IdleFront(n) /\ C \subseteq Live /\ Live' = Live \ C
  BY <1>1, SweepShape, Zenon
<1> DEFINE C == {idle_list_[i] : i \in 1 .. n}
<1>3. Live \ Live' = C
  BY <1>2
<1>4. /\ idle_list_ \in Seq(Clients) /\ {idle_list_[i] : i \in DOMAIN idle_list_} = Live
      /\ DOMAIN idle_list_ = 1 .. Len(idle_list_) /\ Len(idle_list_) \in Nat
      /\ \A c \in Clients : conn[c].last_active_ms \in Nat
      /\ now \in Nat /\ idle_timeout_ms \in Nat
  <2>1. /\ idle_list_ \in Seq(Clients) /\ conn \in [Clients -> Conns] /\ now \in Nat
        /\ {idle_list_[i] : i \in DOMAIN idle_list_} = Live
    BY Zenon DEF Tables, Types, TablesAgree
  <2>2. DOMAIN idle_list_ = 1 .. Len(idle_list_) /\ Len(idle_list_) \in Nat
    BY <2>1
  <2>3. \A c \in Clients : conn[c].last_active_ms \in Nat
    BY <2>1 DEF Conns
  <2> QED
    BY <2>1, <2>2, <2>3, LoopAssumption, Zenon
<1>5. \A i \in 1 .. n : Idle(idle_list_[i])
  BY <1>2 DEF IdleFront
<1>6. ASSUME NEW i \in n + 1 .. Len(idle_list_) PROVE ~ Idle(idle_list_[i])
  <2>1. n + 1 \in DOMAIN idle_list_ /\ i \in DOMAIN idle_list_ /\ n < Len(idle_list_)
    BY <1>4
  <2>2. ~ Idle(idle_list_[n + 1])
    BY <1>2, <2>1 DEF IdleFront
  <2>3. conn[idle_list_[n + 1]].last_active_ms =< conn[idle_list_[i]].last_active_ms
    <3>1. CASE i = n + 1
      BY <1>4, <2>1, <3>1
    <3>2. CASE n + 1 < i
      BY <2>1, <3>2 DEF Sorted, IdleListSorted
    <3> QED
      BY <3>1, <3>2
  <2>4. idle_list_[n + 1] \in Clients /\ idle_list_[i] \in Clients
    BY <1>4, <2>1
  <2>5. \A a, b, t, m \in Nat : a =< b /\ ~ (a + t =< m) => ~ (b + t =< m)
    OBVIOUS
  <2> QED
    BY <1>4, <2>2, <2>3, <2>4, <2>5, Zenon DEF Idle
<1>7. \A c \in Live : Idle(c) <=> c \in C
  <2> SUFFICES ASSUME NEW c \in Live PROVE Idle(c) <=> c \in C
    OBVIOUS
  <2>1. PICK k \in DOMAIN idle_list_ : idle_list_[k] = c
    BY <1>4
  <2>2. k \in 1 .. n \/ k \in n + 1 .. Len(idle_list_)
    BY <1>4
  <2>3. c \in C => Idle(c)
    BY <1>5
  <2> QED
    BY <1>6, <2>1, <2>2, <2>3
<1> QED
  BY <1>2, <1>3, <1>7

(* process_timers closes exactly the connections that were silent for too  *)
(* long: the sweep stops at the first one that is not, and all behind it   *)
(* were active later.                                                      *)
THEOREM SweepSafe == Spec => SweepExact
<1>1. Tables /\ Sorted /\ [Next]_vars
      => [pc = "timers" /\ pc' # pc => Live \ Live' = {c \in Live : Idle(c)}]_vars
  BY SweepStep
<1> QED
  BY TablesInvariant, SortedInvariant, <1>1, PTL DEF Spec, SweepExact

-----------------------------------------------------------------------------
(* The type invariant. *)

\* Buffers and streams hold the units that belong there.
Typed(in, out, r, t) ==
  /\ in \in Seq(RequestUnit) /\ r \in Seq(RequestUnit)
  /\ out \in Seq(ReplyUnit) /\ t \in Seq(ReplyUnit)
Buffers == \A c \in Clients : Typed(conn[c].incoming, conn[c].outgoing, rx[c], tx[c])

(* No client is sent more than it has asked for: a unit that it has sent   *)
(* is on its way, read or answered, unless it is lost.                     *)
Total(g, in, out, r, t) == g + Len(t) + Len(out) + Len(in) + Len(r)
Counts ==
  \A c \in Clients :
    /\ sent[c] \in 0 .. MaxReqs
    /\ Total(got[c], conn[c].incoming, conn[c].outgoing, rx[c], tx[c]) =< 2 * sent[c]

\* The clock, the timeout of poll() and the deadlines of keys.
Clocks ==
  /\ wake_at \in Nat \cup {Forever} /\ now \in 0 .. MaxNow
  /\ ttl \in [Keys -> Nat \cup {NoTimer}]

\* Pieces of typed sequences are typed.
LEMMA Pieces ==
  ASSUME NEW S, NEW s \in Seq(S), NEW t \in Seq(S), NEW n \in 0 .. Len(s)
  PROVE  /\ s \o t \in Seq(S) /\ SubSeq(s, 1, n) \in Seq(S)
         /\ SubSeq(s, n + 1, Len(s)) \in Seq(S)
<1>1. Len(s) \in Nat
  OBVIOUS
<1> QED
  BY <1>1

\* A handler moves units in their own direction only.
LEMMA HandlerBuffers ==
  ASSUME Tables, Buffers, Handler
  PROVE  Buffers'
<1>1. /\ Handling /\ c_ \in Clients
      /\ \A c \in Clients : c # c_ => conn'[c] = conn[c] /\ rx'[c] = rx[c] /\ tx'[c] = tx[c]
  BY HandlerShape, Current
<1> DEFINE in == conn[c_].incoming
           out == conn[c_].outgoing
<1>2. in \in Seq(RequestUnit) /\ out \in Seq(ReplyUnit)
      /\ rx[c_] \in Seq(RequestUnit) /\ tx[c_] \in Seq(ReplyUnit)
  BY <1>1, Zenon DEF Buffers, Typed
<1> HIDE DEF in, out
<1> SUFFICES Typed(conn'[c_].incoming, conn'[c_].outgoing, rx'[c_], tx'[c_])
  BY <1>1, Zenon DEF Buffers
<1>3. CASE ReadAgain \/ WriteNothing
  <2>1. conn'[c_].incoming = in /\ conn'[c_].outgoing = out /\ rx'[c_] = rx[c_] /\ tx'[c_] = tx[c_]
    BY <1>3, SkipShape, Zenon DEF Shape, in, out
  <2> QED
    BY <1>2, <2>1, Zenon DEF Typed
<1>4. CASE ReadEnd \/ WriteError
  <2>1. conn'[c_].incoming = in /\ conn'[c_].outgoing = out /\ rx'[c_] = rx[c_] /\ tx'[c_] = tx[c_]
    BY <1>4, EndShape, Zenon DEF Shape, in, out
  <2> QED
    BY <1>2, <2>1, Zenon DEF Typed
<1>5. CASE DrainDone
  <2>1. conn'[c_].incoming = in /\ conn'[c_].outgoing = out /\ rx'[c_] = rx[c_] /\ tx'[c_] = tx[c_]
    BY <1>5, DrainShape, Zenon DEF Shape, in, out
  <2> QED
    BY <1>2, <2>1, Zenon DEF Typed
<1>6. CASE ReadData
  <2>1. PICK n \in 1 .. Len(rx[c_]) :
          /\ conn'[c_].incoming = in \o SubSeq(rx[c_], 1, n) /\ conn'[c_].outgoing = out
          /\ rx'[c_] = SubSeq(rx[c_], n + 1, Len(rx[c_])) /\ tx'[c_] = tx[c_]
    BY <1>6, ReadShape, Zenon DEF Shape, in, out
  <2>2. n \in 0 .. Len(rx[c_])
    OBVIOUS
  <2>3. /\ SubSeq(rx[c_], 1, n) \in Seq(RequestUnit)
        /\ SubSeq(rx[c_], n + 1, Len(rx[c_])) \in Seq(RequestUnit)
    BY <1>2, <2>2, Pieces, Zenon
  <2>4. in \o SubSeq(rx[c_], 1, n) \in Seq(RequestUnit)
    BY <1>2, <2>3
  <2> QED
    BY <1>2, <2>1, <2>3, <2>4, Zenon DEF Typed
<1>7. CASE try_one_request
  <2> DEFINE two == <<Unit("hdr", in[1].id, "reply"), Unit("body", in[1].id, "reply")>>
  <2>1. /\ conn'[c_].incoming = SubSeq(in, 3, Len(in)) /\ conn'[c_].outgoing = out \o two
        /\ rx'[c_] = rx[c_] /\ tx'[c_] = tx[c_] /\ Len(in) >= 2
    BY <1>7, RequestShape, Zenon DEF Shape, in, out
  <2>2. in[1] \in RequestUnit
    BY <1>2, <2>1
  <2>3. two \in Seq(ReplyUnit)
    BY <2>2 DEF RequestUnit, ReplyUnit, Unit
  <2>4. out \o two \in Seq(ReplyUnit)
    <3> HIDE DEF two
    <3> QED
      BY <1>2, <2>3
  <2>5. SubSeq(in, 3, Len(in)) \in Seq(RequestUnit)
    BY <1>2, <2>1
  <2> QED
    BY <1>2, <2>1, <2>4, <2>5, Zenon DEF Typed
<1>8. CASE WriteData
  <2>1. PICK n \in 1 .. Len(out) :
          /\ conn'[c_].incoming = in /\ conn'[c_].outgoing = SubSeq(out, n + 1, Len(out))
          /\ rx'[c_] = rx[c_] /\ tx'[c_] = tx[c_] \o SubSeq(out, 1, n)
    BY <1>8, WriteShape, Zenon DEF Shape, in, out
  <2>2. n \in 0 .. Len(out)
    OBVIOUS
  <2>3. SubSeq(out, 1, n) \in Seq(ReplyUnit) /\ SubSeq(out, n + 1, Len(out)) \in Seq(ReplyUnit)
    BY <1>2, <2>2, Pieces, Zenon
  <2>4. tx[c_] \o SubSeq(out, 1, n) \in Seq(ReplyUnit)
    BY <1>2, <2>3
  <2> QED
    BY <1>2, <2>1, <2>3, <2>4, Zenon DEF Typed
<1> QED
  BY <1>3, <1>4, <1>5, <1>6, <1>7, <1>8, Zenon DEF Handler

\* So does every other step.
LEMMA BuffersNext ==
  ASSUME Tables, Buffers, Counts, [Next]_vars
  PROVE  Buffers'
<1>1. Typed(<<>>, <<>>, <<>>, <<>>) /\ NoConn.incoming = <<>> /\ NoConn.outgoing = <<>>
  BY DEF Typed, NoConn
<1>2. CASE Handler
  BY <1>2, HandlerBuffers
<1>3. CASE UNCHANGED <<conn, rx, tx>>
  BY <1>3, Zenon DEF Buffers
<1>4. CASE Quiet \/ PollReturn
  <2>1. UNCHANGED <<conn, rx, tx>>
    BY <1>4, QuietShape, ReturnShape, Zenon
  <2> QED
    BY <1>3, <2>1
<1>5. CASE AcceptClosed
  <2>1. /\ UNCHANGED <<conn, tx>> /\ rx'[Head(backlog)] = <<>>
        /\ \A c \in Clients : c # Head(backlog) => rx'[c] = rx[c]
    BY <1>5, AcceptClosedShape, Zenon
  <2> QED
    BY <1>1, <2>1, Zenon DEF Buffers, Typed
<1>6. CASE accept_new
  <2>1. /\ UNCHANGED <<rx, tx>> /\ conn[Head(backlog)] = NoConn
        /\ conn'[Head(backlog)] = [NoConn EXCEPT !.want_read = TRUE, !.last_active_ms = now]
        /\ \A c \in Clients : c # Head(backlog) => conn'[c] = conn[c]
    BY <1>6, AcceptShape, Zenon
  <2>2. conn'[Head(backlog)].incoming = <<>> /\ conn'[Head(backlog)].outgoing = <<>>
    BY <2>1 DEF NoConn
  <2> QED
    BY <1>1, <2>1, <2>2, Zenon DEF Buffers, Typed
<1>7. CASE Touch
  <2> DEFINE t == First(ready).who
  <2>1. /\ UNCHANGED <<rx, tx>> /\ t \in Clients
        /\ conn'[t] = [conn[t] EXCEPT !.last_active_ms = now]
        /\ \A c \in Clients : c # t => conn'[c] = conn[c]
    BY <1>7, TouchShape, Zenon
  <2>2. conn[t] \in Conns
    BY <2>1, Zenon DEF Tables, Types
  <2> HIDE DEF t
  <2>3. conn'[t].incoming = conn[t].incoming /\ conn'[t].outgoing = conn[t].outgoing
    BY <2>1, <2>2 DEF Conns
  <2> QED
    BY <2>1, <2>3, Zenon DEF Buffers, Typed
<1>8. ASSUME NEW C, tx' = tx,
             \A c \in Clients : conn'[c] = IF c \in C THEN NoConn ELSE conn[c],
             \A c \in Clients : rx'[c] = IF c \in C THEN <<>> ELSE rx[c]
      PROVE  Buffers'
  BY <1>1, <1>8, Zenon DEF Buffers, Typed
<1>9. CASE CloseCheck
  <2>1. tx' = tx /\ \/ UNCHANGED <<conn, rx>>
                    \/ /\ \A c \in Clients : conn'[c] = IF c \in {c_} THEN NoConn ELSE conn[c]
                       /\ \A c \in Clients : rx'[c] = IF c \in {c_} THEN <<>> ELSE rx[c]
    BY <1>9, CloseShape
  <2> QED
    BY <1>3, <1>8, <2>1, Zenon
<1>10. CASE process_timers
  BY <1>8, <1>10, SweepShape, Zenon
<1>11. ASSUME NEW c \in Clients, Client(c) PROVE Buffers'
  <2>1. conn' = conn
    BY <1>11, Zenon DEF Client, Connect, Send, Recv, HalfClose, Abort, loop
  <2>2. rx \in [Clients -> Seq(Units)] /\ tx \in [Clients -> Seq(Units)]
        /\ sent \in [Clients -> Nat]
    BY Zenon DEF Tables, Types
  <2>3. CASE Connect(c) \/ HalfClose(c)
    BY <1>3, <2>1, <2>3, Zenon DEF Connect, HalfClose
  <2>4. CASE Recv(c)
    <3>1. rx' = rx /\ tx' = [tx EXCEPT ![c] = <<>>]
      BY <2>4, Zenon DEF Recv
    <3> QED
      BY <1>1, <2>1, <2>2, <3>1, Zenon DEF Buffers, Typed
  <2>5. CASE Abort(c)
    <3>1. rx' = [rx EXCEPT ![c] = <<>>] /\ tx' = [tx EXCEPT ![c] = <<>>]
      BY <2>5, Zenon DEF Abort
    <3> QED
      BY <1>1, <2>1, <2>2, <3>1, Zenon DEF Buffers, Typed
  <2>6. ASSUME NEW kind \in Kinds, Send(c, kind) PROVE Buffers'
    <3> DEFINE two == <<Unit("hdr", sent'[c], kind), Unit("body", sent'[c], kind)>>
    <3>1. /\ sent[c] < MaxReqs /\ sent' = [sent EXCEPT ![c] = @ + 1] /\ tx' = tx
          /\ rx' = [rx EXCEPT ![c] = @ \o two]
      BY <2>6, Zenon DEF Send
    <3>2. sent[c] \in 0 .. MaxReqs /\ MaxReqs \in Nat
      BY LoopAssumption, Zenon DEF Counts
    <3>3. sent'[c] \in 1 .. MaxReqs
      BY <2>2, <3>1, <3>2
    <3>4. two \in Seq(RequestUnit)
      BY <3>3 DEF RequestUnit, Unit
    <3> HIDE DEF two
    <3>5. rx[c] \in Seq(RequestUnit)
      BY Zenon DEF Buffers, Typed
    <3>6. rx[c] \o two \in Seq(RequestUnit)
      BY <3>4, <3>5
    <3> QED
      BY <2>1, <2>2, <3>1, <3>6, Zenon DEF Buffers, Typed
  <2> QED
    BY <1>11, <2>3, <2>4, <2>5, <2>6, Zenon DEF Client
<1> QED
  BY <1>2, <1>4, <1>5, <1>6, <1>7, <1>9, <1>10, <1>11, Zenon DEF Next, run, Handler, Quiet

\* The lengths of pieces.
LEMMA CutLengths ==
  ASSUME NEW s \in Seq(Units), NEW n \in 0 .. Len(s)
  PROVE  /\ SubSeq(s, 1, n) \in Seq(Units) /\ Len(SubSeq(s, 1, n)) = n
         /\ Len(SubSeq(s, n + 1, Len(s))) = Len(s) - n
<1>1. Len(s) \in Nat
  OBVIOUS
<1> QED
  BY <1>1

\* The length of two pieces joined.
LEMMA JoinLength ==
  ASSUME NEW s \in Seq(Units), NEW t \in Seq(Units)
  PROVE  Len(s \o t) = Len(s) + Len(t)
OBVIOUS

\* A handler moves units; none is made or lost.
LEMMA HandlerTotal ==
  ASSUME Tables, Handler
  PROVE  Total(got[c_], conn'[c_].incoming, conn'[c_].outgoing, rx'[c_], tx'[c_])
         = Total(got[c_], conn[c_].incoming, conn[c_].outgoing, rx[c_], tx[c_])
<1>1. /\ Handling /\ c_ \in Clients
  BY HandlerShape, Current
<1> DEFINE in == conn[c_].incoming
           out == conn[c_].outgoing
<1>2. /\ in \in Seq(Units) /\ out \in Seq(Units) /\ rx[c_] \in Seq(Units)
      /\ tx[c_] \in Seq(Units) /\ got[c_] \in Nat
  BY <1>1, Zenon DEF Tables, Types, Conns
<1> DEFINE g == got[c_]
           i == Len(in)    i1 == Len(conn'[c_].incoming)
           o == Len(out)   o1 == Len(conn'[c_].outgoing)
           r == Len(rx[c_])   r1 == Len(rx'[c_])
           t == Len(tx[c_])   t1 == Len(tx'[c_])
<1>3. i \in Nat /\ o \in Nat /\ r \in Nat /\ t \in Nat /\ g \in Nat
  BY <1>2
<1> HIDE DEF in, out
<1> SUFFICES g + t1 + o1 + i1 + r1 = g + t + o + i + r
  BY DEF Total, in, out
<1> HIDE DEF g, i, o, r, t, i1, o1, r1, t1
<1>4. CASE i1 = i /\ o1 = o /\ r1 = r /\ t1 = t
  BY <1>4, Zenon
<1>5. CASE ReadAgain \/ WriteNothing
  BY <1>4, <1>5, SkipShape, Zenon DEF Shape, in, out, i, o, r, t, i1, o1, r1, t1
<1>6. CASE ReadEnd \/ WriteError
  BY <1>4, <1>6, EndShape, Zenon DEF Shape, in, out, i, o, r, t, i1, o1, r1, t1
<1>7. CASE DrainDone
  BY <1>4, <1>7, DrainShape, Zenon DEF Shape, in, out, i, o, r, t, i1, o1, r1, t1
<1>8. CASE ReadData
  <2>1. PICK n \in 1 .. Len(rx[c_]) :
          /\ conn'[c_].incoming = in \o SubSeq(rx[c_], 1, n) /\ conn'[c_].outgoing = out
          /\ rx'[c_] = SubSeq(rx[c_], n + 1, Len(rx[c_])) /\ tx'[c_] = tx[c_]
    BY <1>8, ReadShape, Zenon DEF Shape, in, out
  <2>2. n \in 0 .. Len(rx[c_]) /\ n \in Nat
    BY <1>3 DEF r
  <2>3. SubSeq(rx[c_], 1, n) \in Seq(Units) /\ Len(SubSeq(rx[c_], 1, n)) = n /\ r1 = r - n
    BY <1>2, <2>1, <2>2, CutLengths, Zenon DEF r, r1
  <2>4. i1 = i + n /\ o1 = o /\ t1 = t
    BY <1>2, <2>1, <2>3, JoinLength, Zenon DEF i, o, t, i1, o1, t1
  <2> QED
    BY <1>3, <2>2, <2>3, <2>4
<1>9. CASE try_one_request
  <2> DEFINE two == <<Unit("hdr", in[1].id, "reply"), Unit("body", in[1].id, "reply")>>
  <2>1. /\ conn'[c_].incoming = SubSeq(in, 3, Len(in)) /\ conn'[c_].outgoing = out \o two
        /\ rx'[c_] = rx[c_] /\ tx'[c_] = tx[c_] /\ Len(in) >= 2
    BY <1>9, RequestShape, Zenon DEF Shape, in, out
  <2>2. in[1] \in Units /\ Len(SubSeq(in, 3, Len(in))) = Len(in) - 2
    <3>1. Len(in) \in Nat /\ Len(in) >= 2 /\ 2 \in 0 .. Len(in) /\ 2 + 1 = 3
      BY <1>2, <2>1
    <3>2. in[1] \in Units
      BY <1>2, <3>1
    <3>3. Len(SubSeq(in, 2 + 1, Len(in))) = Len(in) - 2
      BY <1>2, <3>1, CutLengths, Zenon
    <3> QED
      BY <3>1, <3>2, <3>3, Zenon
  <2>3. two \in Seq(Units) /\ Len(two) = 2
    BY <2>2 DEF Units, Unit
  <2> HIDE DEF two
  <2>4. i1 = i - 2 /\ r1 = r /\ t1 = t
    BY <2>1, <2>2, Zenon DEF i, r, t, i1, r1, t1
  <2>5. o1 = o + 2
    BY <1>2, <2>1, <2>3, JoinLength, Zenon DEF o, o1
  <2> QED
    BY <1>3, <2>4, <2>5
<1>10. CASE WriteData
  <2>1. PICK n \in 1 .. Len(out) :
          /\ conn'[c_].incoming = in /\ conn'[c_].outgoing = SubSeq(out, n + 1, Len(out))
          /\ rx'[c_] = rx[c_] /\ tx'[c_] = tx[c_] \o SubSeq(out, 1, n)
    BY <1>10, WriteShape, Zenon DEF Shape, in, out
  <2>2. n \in 0 .. Len(out) /\ n \in Nat
    BY <1>3 DEF o
  <2>3. SubSeq(out, 1, n) \in Seq(Units) /\ Len(SubSeq(out, 1, n)) = n /\ o1 = o - n
    BY <1>2, <2>1, <2>2, CutLengths, Zenon DEF o, o1
  <2>4. t1 = t + n /\ i1 = i /\ r1 = r
    BY <1>2, <2>1, <2>3, JoinLength, Zenon DEF i, r, t, i1, r1, t1
  <2> QED
    BY <1>3, <2>2, <2>3, <2>4
<1> QED
  BY <1>5, <1>6, <1>7, <1>8, <1>9, <1>10, Zenon DEF Handler

\* Every step keeps the count: only sending a request adds units.
LEMMA CountsNext ==
  ASSUME Tables, Counts, [Next]_vars
  PROVE  Counts'
<1>1. /\ rx \in [Clients -> Seq(Units)] /\ tx \in [Clients -> Seq(Units)]
      /\ sent \in [Clients -> Nat] /\ got \in [Clients -> Nat] /\ MaxReqs \in Nat
  BY LoopAssumption, Zenon DEF Tables, Types
<1> DEFINE L(c) == /\ got[c] \in Nat /\ sent[c] \in Nat /\ Len(tx[c]) \in Nat
                   /\ Len(rx[c]) \in Nat /\ Len(conn[c].incoming) \in Nat
                   /\ Len(conn[c].outgoing) \in Nat
<1>2. ASSUME NEW c \in Clients
      PROVE  /\ L(c) /\ sent[c] \in 0 .. MaxReqs
             /\ Total(got[c], conn[c].incoming, conn[c].outgoing, rx[c], tx[c]) =< 2 * sent[c]
  <2>1. conn[c].incoming \in Seq(Units) /\ conn[c].outgoing \in Seq(Units)
    BY Zenon DEF Tables, Types, Conns
  <2>2. rx[c] \in Seq(Units) /\ tx[c] \in Seq(Units) /\ got[c] \in Nat /\ sent[c] \in Nat
    BY <1>1, Zenon
  <2>3. L(c)
    BY <2>1, <2>2
  <2> QED
    BY <2>3, Zenon DEF Counts
<1> DEFINE Tot(c) == Total(got[c], conn[c].incoming, conn[c].outgoing, rx[c], tx[c])
           Same(c) == /\ got'[c] = got[c] /\ sent'[c] = sent[c] /\ rx'[c] = rx[c]
                      /\ tx'[c] = tx[c] /\ conn'[c].incoming = conn[c].incoming
                      /\ conn'[c].outgoing = conn[c].outgoing
           Fits(c) == /\ sent'[c] \in 0 .. MaxReqs
                      /\ Total(got'[c], conn'[c].incoming, conn'[c].outgoing, rx'[c], tx'[c])
                         =< 2 * sent'[c]
<1>3. ASSUME \A c \in Clients : Same(c) \/ Fits(c) PROVE Counts'
  BY <1>2, <1>3, Zenon DEF Counts
<1>4. ASSUME UNCHANGED <<conn, rx, tx, sent, got>> PROVE Counts'
  BY <1>3, <1>4, Zenon
<1>5. CASE Handler
  <2>1. /\ Handling /\ c_ \in Clients /\ UNCHANGED <<sent, got>>
        /\ \A c \in Clients : c # c_ => conn'[c] = conn[c] /\ rx'[c] = rx[c] /\ tx'[c] = tx[c]
    BY <1>5, HandlerShape, Current
  <2>2. Fits(c_)
    BY <1>2, <1>5, <2>1, HandlerTotal, Zenon
  <2> HIDE DEF Fits
  <2> QED
    BY <1>3, <2>1, <2>2, Zenon
<1>6. CASE Quiet \/ PollReturn
  BY <1>4, <1>6, QuietShape, ReturnShape, Zenon
\* Units that are lost leave a smaller total.
<1>7. ASSUME NEW c \in Clients, got'[c] = got[c], sent'[c] = sent[c],
             tx'[c] = tx[c] \/ tx'[c] = <<>>, rx'[c] = rx[c] \/ rx'[c] = <<>>,
             conn'[c].incoming = conn[c].incoming \/ conn'[c].incoming = <<>>,
             conn'[c].outgoing = conn[c].outgoing \/ conn'[c].outgoing = <<>>
      PROVE  Fits(c)
  <2>1. Len(<<>>) = 0
    OBVIOUS
  <2>2. /\ Len(tx'[c]) =< Len(tx[c]) /\ Len(rx'[c]) =< Len(rx[c])
        /\ Len(conn'[c].incoming) =< Len(conn[c].incoming)
        /\ Len(conn'[c].outgoing) =< Len(conn[c].outgoing)
        /\ Len(tx'[c]) \in Nat /\ Len(rx'[c]) \in Nat
        /\ Len(conn'[c].incoming) \in Nat /\ Len(conn'[c].outgoing) \in Nat
    <3>1. \A n \in Nat : n =< n /\ 0 =< n /\ 0 \in Nat
      OBVIOUS
    <3> QED
      BY <1>2, <1>7, <2>1, <3>1, Zenon
  <2>3. L(c) /\ Tot(c) =< 2 * sent[c] /\ sent[c] \in 0 .. MaxReqs
    BY <1>2, Zenon
  <2> DEFINE i == Len(conn[c].incoming)   i1 == Len(conn'[c].incoming)
             o == Len(conn[c].outgoing)   o1 == Len(conn'[c].outgoing)
             r == Len(rx[c])   r1 == Len(rx'[c])
             t == Len(tx[c])   t1 == Len(tx'[c])
             g == got[c]       s == sent[c]
  <2>4. /\ g + t + o + i + r =< 2 * s /\ t1 =< t /\ r1 =< r /\ i1 =< i /\ o1 =< o
        /\ {g, i, o, r, t, s, i1, o1, r1, t1} \subseteq Nat
    BY <2>2, <2>3, Zenon DEF Total
  <2>5. g + t1 + o1 + i1 + r1 =< 2 * s
    <3> HIDE DEF g, i, o, r, t, s, i1, o1, r1, t1
    <3> QED
      BY <2>4
  <2> QED
    BY <1>7, <2>3, <2>5, Zenon DEF Total
<1> HIDE DEF Fits
<1>8. CASE AcceptClosed
  <2>1. /\ UNCHANGED <<conn, tx, sent, got>> /\ rx'[Head(backlog)] = <<>>
        /\ \A c \in Clients : c # Head(backlog) => rx'[c] = rx[c]
    BY <1>8, AcceptClosedShape, Zenon
  <2> QED
    BY <1>3, <1>7, <2>1, Zenon
<1>9. CASE accept_new
  <2>1. /\ UNCHANGED <<rx, tx, sent, got>>
        /\ conn'[Head(backlog)] = [NoConn EXCEPT !.want_read = TRUE, !.last_active_ms = now]
        /\ \A c \in Clients : c # Head(backlog) => conn'[c] = conn[c]
    BY <1>9, AcceptShape, Zenon
  <2>2. conn'[Head(backlog)].incoming = <<>> /\ conn'[Head(backlog)].outgoing = <<>>
    BY <2>1 DEF NoConn
  <2> QED
    BY <1>3, <1>7, <2>1, <2>2, Zenon
<1>10. CASE Touch
  <2> DEFINE t == First(ready).who
  <2>1. /\ UNCHANGED <<rx, tx, sent, got>> /\ t \in Clients
        /\ conn'[t] = [conn[t] EXCEPT !.last_active_ms = now]
        /\ \A c \in Clients : c # t => conn'[c] = conn[c]
    BY <1>10, TouchShape, Zenon
  <2>2. conn[t] \in Conns
    BY <2>1, Zenon DEF Tables, Types
  <2> HIDE DEF t
  <2>3. conn'[t].incoming = conn[t].incoming /\ conn'[t].outgoing = conn[t].outgoing
    BY <2>1, <2>2 DEF Conns
  <2> QED
    BY <1>3, <2>1, <2>3, Zenon
<1>11. ASSUME NEW C, UNCHANGED <<tx, sent, got>>,
              \A c \in Clients : conn'[c] = IF c \in C THEN NoConn ELSE conn[c],
              \A c \in Clients : rx'[c] = IF c \in C THEN <<>> ELSE rx[c]
       PROVE  Counts'
  <2>1. NoConn.incoming = <<>> /\ NoConn.outgoing = <<>>
    BY DEF NoConn
  <2> QED
    BY <1>3, <1>7, <1>11, <2>1, Zenon
<1>12. CASE CloseCheck
  <2>1. /\ UNCHANGED <<tx, sent, got>>
        /\ \/ UNCHANGED <<conn, rx>>
           \/ /\ \A c \in Clients : conn'[c] = IF c \in {c_} THEN NoConn ELSE conn[c]
              /\ \A c \in Clients : rx'[c] = IF c \in {c_} THEN <<>> ELSE rx[c]
    BY <1>12, CloseShape
  <2> QED
    BY <1>4, <1>11, <2>1, Zenon
<1>13. CASE process_timers
  BY <1>11, <1>13, SweepShape, Zenon
<1>14. ASSUME NEW c \in Clients, Client(c) PROVE Counts'
  <2>1. conn' = conn
    BY <1>14, Zenon DEF Client, Connect, Send, Recv, HalfClose, Abort, loop
  <2>2. L(c) /\ sent[c] \in 0 .. MaxReqs /\ Tot(c) =< 2 * sent[c]
    BY <1>2, Zenon
  <2>3. CASE Connect(c) \/ HalfClose(c)
    BY <1>4, <2>1, <2>3, Zenon DEF Connect, HalfClose
  <2>4. CASE Abort(c)
    <3>1. /\ UNCHANGED <<sent, got>> /\ rx' = [rx EXCEPT ![c] = <<>>]
          /\ tx' = [tx EXCEPT ![c] = <<>>]
      BY <2>4, Zenon DEF Abort
    <3> QED
      BY <1>1, <1>3, <1>7, <2>1, <3>1, Zenon
  <2>5. CASE Recv(c)
    <3>1. /\ UNCHANGED <<sent, rx>> /\ tx' = [tx EXCEPT ![c] = <<>>]
          /\ got' = [got EXCEPT ![c] = @ + Len(tx[c])]
      BY <2>5, Zenon DEF Recv
    <3>2. tx'[c] = <<>> /\ got'[c] = got[c] + Len(tx[c])
      BY <1>1, <3>1
    <3>3. Total(got'[c], conn'[c].incoming, conn'[c].outgoing, rx'[c], tx'[c]) =< 2 * sent'[c]
      BY <2>1, <2>2, <3>1, <3>2 DEF Total
    <3>4. Fits(c)
      BY <2>2, <3>1, <3>3, Zenon DEF Fits
    <3> QED
      BY <1>1, <1>3, <2>1, <3>1, <3>4, Zenon
  <2>6. ASSUME NEW kind \in Kinds, Send(c, kind) PROVE Counts'
    <3> DEFINE two == <<Unit("hdr", sent'[c], kind), Unit("body", sent'[c], kind)>>
    <3>1. /\ sent[c] < MaxReqs /\ sent' = [sent EXCEPT ![c] = @ + 1] /\ UNCHANGED <<tx, got>>
          /\ rx' = [rx EXCEPT ![c] = @ \o two]
      BY <2>6, Zenon DEF Send
    <3>2. sent'[c] = sent[c] + 1 /\ sent'[c] \in Nat /\ sent'[c] \in 0 .. MaxReqs
      BY <1>1, <2>2, <3>1
    <3>3. two \in Seq(Units) /\ Len(two) = 2
      BY <3>2, LoopAssumption DEF Units, Unit
    <3> HIDE DEF two
    <3>4. rx'[c] = rx[c] \o two /\ rx[c] \in Seq(Units)
      BY <1>1, <3>1, Zenon
    <3>5. Len(rx'[c]) = Len(rx[c]) + 2
      BY <3>3, <3>4, JoinLength, Zenon
    <3> DEFINE i == Len(conn[c].incoming)   o == Len(conn[c].outgoing)
               r == Len(rx[c])   t == Len(tx[c])   g == got[c]   s == sent[c]
    <3>a. g + t + o + i + r =< 2 * s /\ {g, i, o, r, t, s} \subseteq Nat
      BY <2>2, Zenon DEF Total
    <3>b. g + t + o + i + (r + 2) =< 2 * (s + 1)
      <4> HIDE DEF g, i, o, r, t, s
      <4> QED
        BY <3>a
    <3>6. Total(got'[c], conn'[c].incoming, conn'[c].outgoing, rx'[c], tx'[c]) =< 2 * sent'[c]
      BY <2>1, <3>1, <3>2, <3>5, <3>b, Zenon DEF Total
    <3>7. Fits(c)
      BY <3>2, <3>6, Zenon DEF Fits
    <3> QED
      BY <1>1, <1>3, <2>1, <3>1, <3>7, Zenon
  <2> QED
    BY <1>14, <2>3, <2>4, <2>5, <2>6, Zenon DEF Client
<1> QED
  BY <1>5, <1>6, <1>8, <1>9, <1>10, <1>12, <1>13, <1>14, Zenon DEF Next, run, Handler, Quiet

\* What a step may do to the clock, the deadlines of keys and the sleep.
LEMMA TimerSteps ==
  ASSUME [Next]_vars
  PROVE  \/ UNCHANGED <<ttl, wake_at, now>>
         \/ UNCHANGED <<ttl, now>> /\ wake_at' = Forever
         \/ UNCHANGED <<ttl, wake_at>> /\ now < MaxNow /\ now' = now + 1
         \/ PollCall
         \/ /\ UNCHANGED <<wake_at, now>>
            /\ \E k \in Keys, d \in {now + ms : ms \in TtlMs} \cup {NoTimer} :
                 ttl' = [ttl EXCEPT ![k] = d]
         \/ /\ UNCHANGED <<wake_at, now>>
            /\ \E R : ttl' = [k \in Keys |-> IF k \in R THEN NoTimer ELSE ttl[k]]
<1>1. ASSUME NEW c \in Clients, Client(c) PROVE UNCHANGED <<ttl, wake_at, now>>
  BY <1>1, Zenon DEF Client, Connect, Send, Recv, HalfClose, Abort, loop
<1>2. CASE PollReturn \/ PollInterrupted
  BY <1>2, Zenon DEF PollReturn, PollInterrupted
<1>3. CASE Tick
  BY <1>3, Zenon DEF Tick, loop
<1>4. CASE try_one_request
  BY <1>4, Zenon DEF try_one_request
<1>5. CASE process_timers
  BY <1>5, Zenon DEF process_timers
<1>6. CASE \/ AcceptNothing \/ AcceptClosed \/ accept_new \/ Touch \/ ConnsDone
           \/ ReadAgain \/ ReadEnd \/ ReadData \/ DrainDone
           \/ WriteNothing \/ WriteError \/ WriteData \/ CloseCheck
  BY <1>6, Zenon DEF AcceptNothing, AcceptClosed, accept_new, Touch, ConnsDone, Skip,
     ReadAgain, ReadEnd, ReadData, DrainDone, WriteNothing, WriteError, WriteData, CloseCheck
<1>7. CASE UNCHANGED vars
  BY <1>7, Zenon DEF vars, loop
<1> QED
  BY <1>1, <1>2, <1>3, <1>4, <1>5, <1>6, <1>7, Zenon DEF Next, run

\* What next_timer_ms takes the minimum of.
Consulted ==
  (IF idle_list_ = <<>> THEN {}
   ELSE {conn[Head(idle_list_)].last_active_ms + idle_timeout_ms}) \cup KeyTimers

\* They are times, and next_timer_ms is 0, -1 or how long the earliest is away.
LEMMA TimerMs ==
  ASSUME Tables, Clocks
  PROVE  /\ Consulted \in SUBSET Nat /\ next_timer_ms \in Int
         /\ Consulted = {} => next_timer_ms = -1
         /\ Consulted # {} => \E m \in Consulted :
              /\ \A e \in Consulted : m =< e
              /\ next_timer_ms = IF m =< now THEN 0 ELSE Int32(m - now)
<1>1. now \in Nat /\ Int32Max \in Nat /\ idle_timeout_ms \in Nat
  BY LoopAssumption, Zenon DEF Tables, Types
<1>2. Consulted \in SUBSET Nat
  <2>1. KeyTimers \in SUBSET Nat
    BY DEF KeyTimers, Armed, Clocks
  <2>2. ASSUME idle_list_ # <<>>
        PROVE  conn[Head(idle_list_)].last_active_ms + idle_timeout_ms \in Nat
    <3>1. Head(idle_list_) \in Clients
      BY <2>2, SMT DEF Tables, Types
    <3>2. conn[Head(idle_list_)].last_active_ms \in Nat
      BY <3>1, Zenon DEF Tables, Types, Conns
    <3> QED
      BY <1>1, <3>2
  <2> QED
    BY <2>1, <2>2, Zenon DEF Consulted
<1>3. \A x \in Int : Int32(x) \in Int
  <2>1. \A x \in Int, m \in Nat \ {0} : x % m \in Int
    OBVIOUS
  <2>2. 2 * (Int32Max + 1) \in Nat \ {0} /\ \A x \in Int : x + Int32Max + 1 \in Int
    BY <1>1
  <2>3. \A x \in Int : (x + Int32Max + 1) % (2 * (Int32Max + 1)) \in Int
    BY <2>1, <2>2, Zenon
  <2> QED
    BY <1>1, <2>3 DEF Int32
<1>4. next_timer_ms = IF Consulted = {} THEN -1
                      ELSE IF Min(Consulted) =< now THEN 0
                      ELSE Int32(Min(Consulted) - now)
  BY Zenon DEF next_timer_ms, Consulted
<1>5. ASSUME Consulted # {}
      PROVE  Min(Consulted) \in Consulted /\ \A e \in Consulted : Min(Consulted) =< e
  <2>1. \E m \in Consulted : \A x \in Consulted : m =< x
    BY <1>2, <1>5, Least, Zenon
  <2> QED
    BY <2>1, Zenon DEF Min
<1>6. next_timer_ms \in Int
  <2>1. CASE Consulted = {}
    BY <1>4, <2>1
  <2>2. CASE Consulted # {}
    <3>1. Min(Consulted) \in Nat
      BY <1>2, <1>5, <2>2, Zenon
    <3>2. Min(Consulted) - now \in Int /\ 0 \in Int
      BY <1>1, <3>1
    <3> QED
      BY <1>3, <1>4, <2>2, <3>2, Zenon
  <2> QED
    BY <2>1, <2>2
<1> QED
  BY <1>2, <1>4, <1>5, <1>6, Zenon

\* The clock stays below its bound, and timeouts and deadlines are times.
LEMMA ClocksNext ==
  ASSUME Tables, Clocks, [Next]_vars
  PROVE  Clocks'
<1>1. /\ now \in Nat /\ now \in 0 .. MaxNow /\ MaxNow \in Nat /\ TtlMs \subseteq Nat
      /\ ttl \in [Keys -> Nat \cup {NoTimer}]
  BY LoopAssumption, Zenon DEF Tables, Types, Clocks
<1>2. CASE UNCHANGED <<ttl, wake_at, now>>
  BY <1>2, Zenon DEF Clocks
<1>3. CASE UNCHANGED <<ttl, now>> /\ wake_at' = Forever
  BY <1>3, Zenon DEF Clocks
<1>4. CASE UNCHANGED <<ttl, wake_at>> /\ now < MaxNow /\ now' = now + 1
  <2>1. now' \in 0 .. MaxNow
    BY <1>1, <1>4
  <2> QED
    BY <1>4, <2>1, Zenon DEF Clocks
<1>5. CASE PollCall
  <2>1. UNCHANGED <<ttl, now>>
        /\ wake_at' = IF next_timer_ms < 0 THEN Forever ELSE now + next_timer_ms
    BY <1>5, Zenon DEF PollCall
  <2>2. next_timer_ms \in Int
    BY TimerMs
  <2>3. wake_at' \in Nat \cup {Forever}
    BY <1>1, <2>1, <2>2
  <2> QED
    BY <2>1, <2>3, Zenon DEF Clocks
<1>6. ASSUME UNCHANGED <<wake_at, now>>,
             NEW k \in Keys, NEW d \in {now + ms : ms \in TtlMs} \cup {NoTimer},
             ttl' = [ttl EXCEPT ![k] = d]
      PROVE  Clocks'
  <2>1. d \in Nat \cup {NoTimer}
    BY <1>1
  <2> QED
    BY <1>1, <1>6, <2>1, Zenon DEF Clocks
<1>7. ASSUME UNCHANGED <<wake_at, now>>, NEW R,
             ttl' = [k \in Keys |-> IF k \in R THEN NoTimer ELSE ttl[k]]
      PROVE  Clocks'
  BY <1>1, <1>7, Zenon DEF Clocks
<1> QED
  BY <1>2, <1>3, <1>4, <1>5, <1>6, <1>7, TimerSteps, Zenon

\* Buffers, counts and clocks stay in bounds in every state.
THEOREM TypesInvariant == Spec => [](Buffers /\ Counts /\ Clocks)
<1>1. Init => Buffers /\ Counts /\ Clocks
  <2> SUFFICES ASSUME Init PROVE Buffers /\ Counts /\ Clocks
    OBVIOUS
  <2>1. \A c \in Clients : /\ conn[c].incoming = <<>> /\ conn[c].outgoing = <<>>
                           /\ rx[c] = <<>> /\ tx[c] = <<>> /\ got[c] = 0 /\ sent[c] = 0
    BY Zenon DEF Init, NoConn
  <2>2. Typed(<<>>, <<>>, <<>>, <<>>)
    BY DEF Typed
  <2>3. Buffers
    BY <2>1, <2>2, Zenon DEF Buffers
  <2>4. 0 \in 0 .. MaxReqs /\ Total(0, <<>>, <<>>, <<>>, <<>>) =< 2 * 0 /\ 0 \in 0 .. MaxNow
    BY LoopAssumption DEF Total
  <2>5. Counts
    BY <2>1, <2>4, Zenon DEF Counts
  <2>6. Clocks
    BY <2>4, Zenon DEF Init, Clocks
  <2> QED
    BY <2>3, <2>5, <2>6
<1>2. Tables /\ Buffers /\ Counts /\ Clocks /\ [Next]_vars
      => (Buffers /\ Counts /\ Clocks)'
  BY BuffersNext, CountsNext, ClocksNext
<1> QED
  BY TablesInvariant, <1>1, <1>2, PTL DEF Spec

\* Every variable stays in its type.
THEOREM TypeCorrect == Spec => []TypeOK
<1>1. ASSUME Tables, Sorted, Buffers, Counts, Clocks PROVE TypeOK
  <2>1. MaxReqs \in Nat /\ now \in Nat /\ now \in 0 .. MaxNow
    BY <1>1, LoopAssumption, Zenon DEF Tables, Types, Clocks
  <2>2. ASSUME NEW c \in Clients
        PROVE  got[c] \in 0 .. 2 * MaxReqs /\ sent[c] \in 0 .. MaxReqs
    <3>1. /\ conn[c] \in Conns /\ rx[c] \in Seq(Units) /\ tx[c] \in Seq(Units) /\ got[c] \in Nat
          /\ sent[c] \in 0 .. MaxReqs
          /\ Total(got[c], conn[c].incoming, conn[c].outgoing, rx[c], tx[c]) =< 2 * sent[c]
      BY <1>1, Zenon DEF Tables, Types, Counts
    <3>2. /\ Len(conn[c].incoming) \in Nat /\ Len(conn[c].outgoing) \in Nat
          /\ Len(rx[c]) \in Nat /\ Len(tx[c]) \in Nat
      BY <3>1 DEF Conns
    <3> DEFINE i == Len(conn[c].incoming)   o == Len(conn[c].outgoing)
               r == Len(rx[c])   t == Len(tx[c])   g == got[c]   s == sent[c]
    <3>3. g + t + o + i + r =< 2 * s /\ {g, i, o, r, t} \subseteq Nat /\ s \in 0 .. MaxReqs
      BY <3>1, <3>2, Zenon DEF Total
    <3>4. g \in 0 .. 2 * MaxReqs
      <4> HIDE DEF g, i, o, r, t, s
      <4> QED
        BY <2>1, <3>3
    <3> QED
      BY <3>1, <3>4
  <2>3. /\ sent \in [Clients -> 0 .. MaxReqs] /\ got \in [Clients -> 0 .. 2 * MaxReqs]
    <3>1. sent \in [Clients -> Nat] /\ got \in [Clients -> Nat]
      BY <1>1, Zenon DEF Tables, Types
    <3> QED
      BY <2>2, <3>1
  <2>4. ASSUME NEW c \in Clients
        PROVE  /\ conn[c].last_active_ms \in 0 .. now
               /\ {conn[c].want_read, conn[c].want_write, conn[c].want_close} \subseteq BOOLEAN
    <3>1. conn[c] \in Conns /\ conn[c].last_active_ms =< now
      BY <1>1, Zenon DEF Tables, Types, Sorted
    <3>2. conn[c].last_active_ms \in Nat
      BY <3>1, Zenon DEF Conns
    <3>3. {conn[c].want_read, conn[c].want_write, conn[c].want_close} \subseteq BOOLEAN
      BY <3>1, Zenon DEF Conns
    <3>4. conn[c].last_active_ms \in 0 .. now
      BY <2>1, <3>1, <3>2
    <3> QED
      BY <3>3, <3>4
  <2> QED
    BY <1>1, <2>3, <2>4, Zenon DEF TypeOK, Tables, Types, Buffers, Typed, Clocks
<1>2. Tables /\ Sorted /\ Buffers /\ Counts /\ Clocks => TypeOK
  BY <1>1
<1> QED
  BY TablesInvariant, SortedInvariant, TypesInvariant, <1>2, PTL

-----------------------------------------------------------------------------
(* How long poll() sleeps. *)

\* The timeouts in use fit the type that next_timer_ms returns.
TimeoutsFit == idle_timeout_ms =< Int32Max /\ \A ms \in TtlMs : ms =< Int32Max

\* No key has a deadline that the cast to int32_t could spoil.
KeysNear == \A k \in Keys : ttl[k] =< now + Int32Max

\* A difference that fits is not changed by the cast.
LEMMA CastExact ==
  ASSUME NEW x \in 0 .. Int32Max
  PROVE  Int32(x) = x
<1>1. \A n \in Nat, m \in Nat \ {0} : n < m => n % m = n
  OBVIOUS
<1>2. /\ Int32Max \in Nat /\ x \in Nat /\ x + Int32Max + 1 \in Nat
      /\ 2 * (Int32Max + 1) \in Nat \ {0} /\ x + Int32Max + 1 < 2 * (Int32Max + 1)
  BY LoopAssumption
<1>3. (x + Int32Max + 1) % (2 * (Int32Max + 1)) = x + Int32Max + 1
  BY <1>1, <1>2, Zenon
<1> QED
  BY <1>2, <1>3 DEF Int32

(* They are near, and no timer of the server is due before all of them:    *)
(* the front of a sorted list stands for the whole list.                   *)
LEMMA ConsultedSuffice ==
  ASSUME TimeoutsFit, Tables, Sorted, Clocks, KeysNear
  PROVE  /\ Consulted \subseteq Nat /\ \A e \in Consulted : e =< now + Int32Max
         /\ \A d \in Deadlines : d \in Nat /\ \E e \in Consulted : e =< d
<1>1. /\ idle_list_ \in Seq(Clients) /\ now \in Nat /\ idle_timeout_ms \in Nat
      /\ Int32Max \in Nat /\ conn \in [Clients -> Conns]
      /\ {idle_list_[i] : i \in DOMAIN idle_list_} = Live
  BY LoopAssumption, Zenon DEF Tables, Types, TablesAgree
<1>2. \A c \in Clients : conn[c].last_active_ms \in Nat /\ conn[c].last_active_ms =< now
  <2>1. \A c \in Clients : conn[c].last_active_ms \in Nat
    BY <1>1 DEF Conns
  <2> QED
    BY <2>1, Zenon DEF Sorted
<1>3. \A d \in KeyTimers : d \in Nat /\ d =< now + Int32Max
  BY DEF Clocks, KeysNear, KeyTimers, Armed
<1>4. ASSUME NEW c \in Clients
      PROVE  /\ conn[c].last_active_ms + idle_timeout_ms \in Nat
             /\ conn[c].last_active_ms + idle_timeout_ms =< now + Int32Max
  BY <1>1, <1>2 DEF TimeoutsFit
<1>5. idle_list_ # <<>> => Head(idle_list_) \in Clients /\ Head(idle_list_) = idle_list_[1]
                           /\ 1 \in DOMAIN idle_list_
  BY <1>1
<1>6. \A e \in Consulted : e \in Nat /\ e =< now + Int32Max
  BY <1>3, <1>4, <1>5, Zenon DEF Consulted
<1>7. ASSUME NEW c \in Live
      PROVE  /\ conn[c].last_active_ms + idle_timeout_ms \in Nat
             /\ \E e \in Consulted : e =< conn[c].last_active_ms + idle_timeout_ms
  <2>1. PICK k \in DOMAIN idle_list_ : idle_list_[k] = c
    BY <1>1
  <2>2. k \in Nat /\ 1 =< k /\ idle_list_ # <<>> /\ c \in Clients
    BY <1>1, <2>1
  <2> DEFINE h == idle_list_[1]
  <2>3. h \in Clients /\ Head(idle_list_) = h /\ 1 \in DOMAIN idle_list_
    BY <1>5, <2>2, Zenon
  <2>4. conn[h].last_active_ms =< conn[c].last_active_ms
    <3>1. CASE k = 1
      BY <1>2, <2>1, <2>2, <3>1
    <3>2. CASE 1 < k
      BY <2>1, <2>3, <3>2, Zenon DEF Sorted, IdleListSorted
    <3> QED
      BY <2>2, <3>1, <3>2
  <2>5. conn[h].last_active_ms + idle_timeout_ms \in Consulted
    BY <2>2, <2>3, Zenon DEF Consulted
  <2> HIDE DEF h
  <2>6. conn[h].last_active_ms + idle_timeout_ms =< conn[c].last_active_ms + idle_timeout_ms
    BY <1>1, <1>2, <2>2, <2>3, <2>4
  <2> QED
    BY <1>4, <2>2, <2>5, <2>6, Zenon
<1>8. ASSUME NEW d \in KeyTimers
      PROVE  d \in Nat /\ \E e \in Consulted : e =< d
  <2>1. d \in Consulted /\ d \in Nat
    BY <1>3, Zenon DEF Consulted
  <2> QED
    BY <2>1
<1> QED
  BY <1>6, <1>7, <1>8, Zenon DEF Deadlines

\* The timeout given to poll() is 0, or it ends at the earliest of them.
LEMMA TimeoutExact ==
  ASSUME TimeoutsFit, Tables, Sorted, Clocks, KeysNear, NEW e \in Consulted
  PROVE  next_timer_ms \in Nat /\ (next_timer_ms = 0 \/ now + next_timer_ms =< e)
<1>1. now \in Nat /\ Int32Max \in Nat
  BY LoopAssumption, Zenon DEF Tables, Types
<1>2. PICK m \in Consulted :
        /\ \A x \in Consulted : m =< x
        /\ next_timer_ms = IF m =< now THEN 0 ELSE Int32(m - now)
  BY TimerMs, Zenon
<1>3. m \in Nat /\ m =< now + Int32Max
  BY ConsultedSuffice, Zenon
<1>4. CASE m =< now
  BY <1>2, <1>4
<1>5. CASE ~ (m =< now)
  <2>1. m - now \in 0 .. Int32Max
    BY <1>1, <1>3, <1>5
  <2>2. next_timer_ms = m - now
    BY <1>2, <1>5, <2>1, CastExact, Zenon
  <2>3. next_timer_ms \in Nat /\ now + next_timer_ms = m
    BY <1>1, <1>3, <2>1, <2>2
  <2> QED
    BY <1>2, <2>3, Zenon
<1> QED
  BY <1>4, <1>5

\* Every step keeps the deadlines of keys near: only requests set them.
LEMMA KeysNearNext ==
  ASSUME TimeoutsFit, Tables, Clocks, KeysNear, [Next]_vars
  PROVE  KeysNear'
<1>1. /\ now \in Nat /\ Int32Max \in Nat /\ TtlMs \subseteq Nat
      /\ ttl \in [Keys -> Nat \cup {NoTimer}]
  BY LoopAssumption, Zenon DEF Tables, Types, Clocks
<1>2. CASE UNCHANGED <<ttl, now>>
  BY <1>2, Zenon DEF KeysNear
<1>3. CASE PollCall
  BY <1>2, <1>3, Zenon DEF PollCall
<1>4. CASE ttl' = ttl /\ now' = now + 1
  <2>1. \A k \in Keys : ttl[k] \in Int /\ ttl[k] =< now + Int32Max
    BY <1>1 DEF KeysNear, NoTimer
  <2>2. \A k \in Keys : ttl[k] =< now + 1 + Int32Max
    BY <1>1, <2>1
  <2> QED
    BY <1>4, <2>2, Zenon DEF KeysNear
<1>5. ASSUME now' = now,
             NEW k \in Keys, NEW d \in {now + ms : ms \in TtlMs} \cup {NoTimer},
             ttl' = [ttl EXCEPT ![k] = d]
      PROVE  KeysNear'
  <2>1. d =< now + Int32Max
    BY <1>1 DEF TimeoutsFit, NoTimer
  <2> QED
    BY <1>1, <1>5, <2>1, Zenon DEF KeysNear
<1>6. ASSUME now' = now, NEW R,
             ttl' = [k \in Keys |-> IF k \in R THEN NoTimer ELSE ttl[k]]
      PROVE  KeysNear'
  <2>1. NoTimer =< now + Int32Max
    BY <1>1 DEF NoTimer
  <2> QED
    BY <1>6, <2>1, Zenon DEF KeysNear
<1> QED
  BY <1>2, <1>3, <1>4, <1>5, <1>6, TimerSteps, Zenon

\* The timers are those of the deadline table, the idle stamps and the TTLs.
LEMMA DeadlinesFrame ==
  ASSUME UNCHANGED <<conns_, conn, ttl>>
  PROVE  Deadlines' = Deadlines
BY Zenon DEF Deadlines, KeyTimers, Armed, Live

\* A call of poll() sleeps no longer than to the nearest timer.
LEMMA PollCallWakes ==
  ASSUME TimeoutsFit, Tables, Sorted, Clocks, KeysNear, PollCall
  PROVE  WakesInTime'
<1>1. now \in Nat
  BY Zenon DEF Tables, Types
<1>2. /\ UNCHANGED <<conns_, conn, ttl>> /\ now' = now
      /\ wake_at' = IF next_timer_ms < 0 THEN Forever ELSE now + next_timer_ms
  BY Zenon DEF PollCall
<1>3. Deadlines' = Deadlines
  BY <1>2, DeadlinesFrame
<1>4. ASSUME NEW d \in Deadlines
      PROVE  wake_at' # Forever /\ (wake_at' =< d \/ wake_at' =< now)
  <2>1. PICK e \in Consulted : e =< d /\ d \in Nat /\ e \in Nat
    BY ConsultedSuffice, Zenon
  <2>2. next_timer_ms \in Nat /\ (next_timer_ms = 0 \/ now + next_timer_ms =< e)
    BY <2>1, TimeoutExact, Zenon
  <2>3. wake_at' = now + next_timer_ms
    BY <1>2, <2>2
  <2> QED
    BY <1>1, <2>1, <2>2, <2>3 DEF Forever
<1> QED
  BY <1>2, <1>3, <1>4, Zenon DEF WakesInTime

\* Only a call of poll() puts the loop to sleep; a tick or a client may find
\* it asleep and moves no timer.
LEMMA WakesNext ==
  ASSUME TimeoutsFit, Tables, Sorted, Clocks, KeysNear, WakesInTime, [Next]_vars
  PROVE  WakesInTime'
<1>1. CASE PollCall
  BY <1>1, PollCallWakes
<1>2. CASE pc' # "sleep"
  BY <1>2, Zenon DEF WakesInTime
<1>3. ASSUME UNCHANGED loop, now' \in {now, now + 1}
      PROVE  WakesInTime'
  <2>1. UNCHANGED <<pc, wake_at, conns_, conn, ttl>>
    BY <1>3, Zenon DEF loop
  <2>2. Deadlines' = Deadlines
    BY <2>1, DeadlinesFrame
  <2>3. now \in Nat /\ wake_at \in Int
    BY DEF Tables, Types, Clocks, Forever
  <2>4. wake_at =< now => wake_at =< now'
    BY <1>3, <2>3
  <2> QED
    BY <2>1, <2>2, <2>4, Zenon DEF WakesInTime
<1>4. ASSUME NEW c \in Clients, Client(c) PROVE WakesInTime'
  <2>1. UNCHANGED loop /\ now' = now
    BY <1>4, Zenon DEF Client, Connect, Send, Recv, HalfClose, Abort
  <2> QED
    BY <1>3, <2>1, Zenon
<1>5. CASE Tick
  <2>1. UNCHANGED loop /\ now' = now + 1
    BY <1>5, Zenon DEF Tick
  <2> QED
    BY <1>3, <2>1, Zenon
<1>6. CASE UNCHANGED vars
  <2>1. UNCHANGED loop /\ now' = now
    BY <1>6, Zenon DEF vars
  <2> QED
    BY <1>3, <2>1, Zenon
<1>7. CASE PollReturn \/ PollInterrupted \/ process_timers
  BY <1>2, <1>7 DEF PollReturn, PollInterrupted, process_timers
<1>8. CASE AcceptNothing \/ AcceptClosed \/ accept_new \/ ConnsDone \/ CloseCheck
  BY <1>2, <1>8 DEF AcceptNothing, AcceptClosed, accept_new, ConnsDone, Skip, CloseCheck
<1>9. CASE Touch
  BY <1>2, <1>9 DEF Touch
<1>10. CASE ReadAgain \/ ReadEnd \/ ReadData \/ try_one_request \/ DrainDone
  BY <1>2, <1>10, Zenon DEF ReadAgain, ReadEnd, ReadData, try_one_request, DrainDone, Skip
<1>11. CASE WriteNothing \/ WriteError \/ WriteData
  BY <1>2, <1>11, Zenon DEF WriteNothing, WriteError, WriteData, Skip
<1> QED
  BY <1>1, <1>4, <1>5, <1>6, <1>7, <1>8, <1>9, <1>10, <1>11, Zenon DEF Next, run

(* Whatever clients do, the loop never sleeps past the nearest timer, as   *)
(* long as the timeouts fit the int32_t that poll() is given.              *)
THEOREM WakesSafe ==
  ASSUME TimeoutsFit
  PROVE  Spec => []WakesInTime
<1>1. Init => KeysNear /\ WakesInTime
  <2> SUFFICES ASSUME Init PROVE KeysNear /\ WakesInTime
    OBVIOUS
  <2>1. pc = "poll" /\ now = 0 /\ ttl = [k \in Keys |-> -1]
    BY DEF Init, NoTimer
  <2>2. -1 =< now + Int32Max
    BY <2>1, LoopAssumption
  <2>3. KeysNear
    BY <2>1, <2>2 DEF KeysNear
  <2> QED
    BY <2>1, <2>3 DEF WakesInTime
<1>2. Tables /\ Sorted /\ Clocks /\ KeysNear /\ WakesInTime /\ [Next]_vars
      => (KeysNear /\ WakesInTime)'
  BY KeysNearNext, WakesNext
<1>3. Spec => [](Tables /\ Sorted /\ Clocks)
  BY TablesInvariant, SortedInvariant, TypesInvariant, PTL
<1> QED
  BY <1>1, <1>2, <1>3, PTL DEF Spec
=============================================================================
