-------------------------- MODULE EventLoopProofs --------------------------
(***************************************************************************)
(* Proofs about EventLoop, for any number of clients, descriptors, keys    *)
(* and requests, and any order in which reads, writes, events and the      *)
(* clock interleave.                                                       *)
(***************************************************************************)
EXTENDS EventLoop, WellFoundedInduction, TLAPS

-----------------------------------------------------------------------------
(* Types, as far as the proofs need them. *)

Units == [part : {"hdr", "body"}, id : Nat, kind : {"plain", "timed", "huge", "reply"}]
Conns == [want_read : BOOLEAN, want_write : BOOLEAN, want_close : BOOLEAN,
          incoming : Seq(Units), outgoing : Seq(Units), last_active_ms : Nat]

Types ==
  /\ pc \in {"poll", "sleep", "accept", "conns", "read", "drain", "write", "close",
             "timers"}
  /\ accepting \in BOOLEAN /\ ready \subseteq Event /\ cur \in Event \cup {NoEvent}
  /\ conns_ \in [Fds -> Clients \cup {None}] /\ conn \in [Clients -> Conns]
  /\ idle_list_ \in Seq(Clients) /\ backlog \in Seq(Clients) /\ now \in Nat
  /\ peer \in [Clients -> {"none", "open", "fin", "reset"}]
  /\ rx \in [Clients -> Seq(Units)] /\ tx \in [Clients -> Seq(Units)]
  /\ sent \in [Clients -> Nat] /\ got \in [Clients -> Nat]

-----------------------------------------------------------------------------
(* The tables. *)

Handling == pc \in {"read", "drain", "write", "close"}

(* Beside TablesAgree: a connection waits once and only after it was made, *)
(* one that is not accepted or closed has no state, and the events still   *)
(* to be handled are of different descriptors, none of them cur's.         *)
Order ==
  /\ \A i, j \in DOMAIN backlog : backlog[i] = backlog[j] => i = j
  /\ \A c \in Live \cup Waiting : peer[c] # "none"
  /\ \A c \in Clients \ Live : conn[c] = NoConn
  /\ pc = "accept" /\ accepting => backlog # <<>>
  /\ pc \in {"poll", "sleep", "timers"} => ready = {}
  /\ \A r, q \in ready : r.fd = q.fd => r = q
  /\ Handling => cur \in Event /\ \A r \in ready : r.fd # cur.fd

Tables == Types /\ TablesAgree /\ Order

\* The server starts with empty tables.
LEMMA TablesInit == Init => Tables
<1> SUFFICES ASSUME Init PROVE Tables
  OBVIOUS
<1>1. NoConn \in Conns
  BY DEF NoConn, Conns
<1>2. Types
  <2>1. conn \in [Clients -> Conns] /\ conns_ \in [Fds -> Clients \cup {None}]
    BY <1>1 DEF Init
  <2>2. /\ rx \in [Clients -> Seq(Units)] /\ tx \in [Clients -> Seq(Units)]
        /\ idle_list_ \in Seq(Clients) /\ backlog \in Seq(Clients)
    BY DEF Init
  <2> QED
    BY <2>1, <2>2, Zenon DEF Init, Types
<1>3. Live = {} /\ Waiting = {}
  BY DEF Init, Live, Waiting
<1>4. TablesAgree
  BY <1>3 DEF Init, TablesAgree
<1>5. Order
  BY <1>3 DEF Init, Order, Handling
<1> QED
  BY <1>2, <1>4, <1>5 DEF Tables

\* The handlers of an event work on a connection that is in the table.
LEMMA Current ==
  ASSUME Tables, Handling
  PROVE  /\ cur.fd \in Fds /\ c_ \in Clients /\ c_ \in Live /\ c_ = cur.who /\ c_ # None
         /\ conn[c_] \in Conns /\ rx[c_] \in Seq(Units) /\ tx[c_] \in Seq(Units)
<1>1. cur \in Event /\ conns_[cur.fd] = cur.who
  BY DEF Tables, TablesAgree, Order, Handling
<1>2. cur.fd \in Fds /\ cur.who \in Clients
  BY <1>1 DEF Event
<1> QED
  BY <1>1, <1>2, LoopAssumption DEF c_, Live, Tables, Types

\* The steps of handle_read and handle_write.
Handler ==
  \/ ReadAgain \/ ReadEnd \/ ReadData \/ try_one_request \/ DrainDone
  \/ WriteNothing \/ WriteError \/ WriteData

(* What each of them does to the connection it handles, field by field.    *)
Shape(in, out, wread, wclose, r, t) ==
  /\ conn' \in [Clients -> Conns]
  /\ \A c \in Clients : c # c_ => conn'[c] = conn[c] /\ rx'[c] = rx[c] /\ tx'[c] = tx[c]
  /\ conn'[c_].incoming = in /\ conn'[c_].outgoing = out
  /\ conn'[c_].want_read = wread /\ conn'[c_].want_close = wclose
  /\ conn'[c_].last_active_ms = conn[c_].last_active_ms
  /\ rx' \in [Clients -> Seq(Units)] /\ tx' \in [Clients -> Seq(Units)]
  /\ rx'[c_] = r /\ tx'[c_] = t
  /\ UNCHANGED <<ready, accepting, cur, conns_, idle_list_, now, backlog, peer, sent, got>>

\* EAGAIN, or nothing to write, leaves connections and streams alone.
LEMMA SkipShape ==
  ASSUME Tables, ReadAgain \/ WriteNothing
  PROVE  /\ Handling /\ pc' = IF pc = "read" THEN "write" ELSE "close"
         /\ pc \in {"read", "write"}
         /\ conn' = conn /\ rx' = rx /\ tx' = tx
         /\ Shape(conn[c_].incoming, conn[c_].outgoing, conn[c_].want_read,
                  conn[c_].want_close, rx[c_], tx[c_])
<1>1. /\ pc \in {"read", "write"} /\ pc' = IF pc = "read" THEN "write" ELSE "close"
      /\ UNCHANGED <<ready, accepting, cur, conns_, conn, idle_list_, ttl, now, net>>
  BY DEF ReadAgain, WriteNothing, Skip
<1> QED
  BY <1>1 DEF Shape, Handling, net, Tables, Types

\* A failed read or write, or the end of file, only sets want_close.
LEMMA EndShape ==
  ASSUME Tables, ReadEnd \/ WriteError
  PROVE  /\ Handling /\ pc' = IF pc = "read" THEN "write" ELSE "close"
         /\ \/ pc = "read" /\ (peer[c_] = "reset" \/ (peer[c_] = "fin" /\ rx[c_] = <<>>))
            \/ pc = "write" /\ peer[c_] = "reset"
         /\ Shape(conn[c_].incoming, conn[c_].outgoing, conn[c_].want_read, TRUE,
                  rx[c_], tx[c_])
<1>1. /\ \/ pc = "read" /\ (peer[c_] = "reset" \/ (peer[c_] = "fin" /\ rx[c_] = <<>>))
         \/ pc = "write" /\ peer[c_] = "reset"
      /\ pc' = IF pc = "read" THEN "write" ELSE "close"
      /\ conn' = [conn EXCEPT ![c_].want_close = TRUE]
      /\ UNCHANGED <<ready, accepting, cur, conns_, idle_list_, ttl, now, net>>
  BY DEF ReadEnd, WriteError
<1>2. Handling
  BY <1>1 DEF Handling
<1>3. c_ \in Clients /\ conn \in [Clients -> Conns]
  BY <1>2, Current DEF Tables, Types
<1>4. /\ conn' \in [Clients -> Conns] /\ \A c \in Clients : c # c_ => conn'[c] = conn[c]
      /\ conn'[c_] = [conn[c_] EXCEPT !.want_close = TRUE]
  BY <1>1, <1>3, Zenon DEF Conns
<1> QED
  BY <1>1, <1>2, <1>3, <1>4, Zenon DEF Shape, net, Tables, Types, Conns

\* A read moves the first units of the stream to the end of incoming.
LEMMA ReadShape ==
  ASSUME Tables, ReadData
  PROVE  /\ Handling /\ pc = "read" /\ pc' = "drain"
         /\ \E n \in 1 .. Len(rx[c_]) :
              Shape(conn[c_].incoming \o SubSeq(rx[c_], 1, n), conn[c_].outgoing,
                    conn[c_].want_read, conn[c_].want_close,
                    SubSeq(rx[c_], n + 1, Len(rx[c_])), tx[c_])
<1>1. pc = "read" /\ pc' = "drain" /\ Handling
  BY DEF ReadData, Handling
<1>2. PICK n \in 1 .. Len(rx[c_]) :
         /\ conn' = [conn EXCEPT ![c_].incoming = @ \o SubSeq(rx[c_], 1, n)]
         /\ rx' = [rx EXCEPT ![c_] = SubSeq(@, n + 1, Len(@))]
  BY Zenon DEF ReadData
<1>3. UNCHANGED <<ready, accepting, cur, conns_, idle_list_, now, backlog, peer, tx, sent, got>>
  BY DEF ReadData
<1>4. /\ c_ \in Clients /\ conn \in [Clients -> Conns] /\ rx[c_] \in Seq(Units)
      /\ rx \in [Clients -> Seq(Units)] /\ tx \in [Clients -> Seq(Units)]
  BY <1>1, Current DEF Tables, Types
<1>5. conn[c_] \in Conns /\ conn[c_].incoming \in Seq(Units)
  BY <1>4 DEF Conns
<1> DEFINE in == conn[c_].incoming \o SubSeq(rx[c_], 1, n)
           rest == SubSeq(rx[c_], n + 1, Len(rx[c_]))
<1>6. in \in Seq(Units) /\ rest \in Seq(Units)
  BY <1>4, <1>5
<1> HIDE DEF in, rest
<1>7. conn' = [conn EXCEPT ![c_].incoming = in] /\ rx' = [rx EXCEPT ![c_] = rest]
  BY <1>2, <1>4, <1>5 DEF in, rest
<1>8. /\ conn' \in [Clients -> Conns] /\ \A c \in Clients : c # c_ => conn'[c] = conn[c]
      /\ conn'[c_] = [conn[c_] EXCEPT !.incoming = in]
  BY <1>4, <1>6, <1>7, Zenon DEF Conns
<1>9. /\ rx' \in [Clients -> Seq(Units)] /\ \A c \in Clients : c # c_ => rx'[c] = rx[c]
      /\ rx'[c_] = rest
  BY <1>4, <1>6, <1>7
<1>10. Shape(in, conn[c_].outgoing, conn[c_].want_read, conn[c_].want_close, rest, tx[c_])
  BY <1>3, <1>4, <1>5, <1>8, <1>9 DEF Shape, Conns
<1> QED
  BY <1>1, <1>10 DEF in, rest

\* try_one_request turns a frame into a reply, or asks for the close.
LEMMA RequestShape ==
  ASSUME Tables, try_one_request
  PROVE  LET in == conn[c_].incoming
         IN  /\ Handling /\ pc = "drain" /\ pc' = "drain" /\ Len(in) >= 2 /\ ~ Huge(in)
             /\ Shape(SubSeq(in, 3, Len(in)),
                      conn[c_].outgoing \o <<Unit("hdr", in[1].id, "reply"),
                                             Unit("body", in[1].id, "reply")>>,
                      conn[c_].want_read, conn[c_].want_close, rx[c_], tx[c_])
<1> DEFINE in == conn[c_].incoming
           two == <<Unit("hdr", in[1].id, "reply"), Unit("body", in[1].id, "reply")>>
<1>1. /\ pc = "drain" /\ Complete(in) /\ pc' = pc
      /\ conn' = [conn EXCEPT ![c_].outgoing = @ \o two, ![c_].incoming = SubSeq(@, 3, Len(@))]
      /\ UNCHANGED <<ready, accepting, cur, conns_, idle_list_, now, net>>
  BY DEF try_one_request
<1>2. Handling
  BY <1>1 DEF Handling
<1>3. /\ c_ \in Clients /\ conn \in [Clients -> Conns] /\ conn[c_] \in Conns
      /\ rx \in [Clients -> Seq(Units)] /\ tx \in [Clients -> Seq(Units)]
  BY <1>2, Current DEF Tables, Types
<1>4. in \in Seq(Units) /\ conn[c_].outgoing \in Seq(Units)
  BY <1>3 DEF Conns
<1>5. Len(in) >= 2 /\ ~ Huge(in) /\ in[1] \in Units
  BY <1>1, <1>4, SMTT(30) DEF Complete
<1>6. two \in Seq(Units)
  BY <1>5 DEF Units, Unit
<1> DEFINE rest == SubSeq(in, 3, Len(in))
           out == conn[c_].outgoing \o two
<1> HIDE DEF two
<1>7. rest \in Seq(Units) /\ out \in Seq(Units)
  BY <1>4, <1>5, <1>6
<1> HIDE DEF rest, out
<1>8. conn' = [conn EXCEPT ![c_] = [@ EXCEPT !.outgoing = out, !.incoming = rest]]
  BY <1>1, <1>3, Zenon DEF rest, out, Conns
<1>9. /\ conn' \in [Clients -> Conns] /\ \A c \in Clients : c # c_ => conn'[c] = conn[c]
      /\ conn'[c_] = [conn[c_] EXCEPT !.outgoing = out, !.incoming = rest]
  BY <1>3, <1>7, <1>8, Zenon DEF Conns
<1>10. Shape(rest, out, conn[c_].want_read, conn[c_].want_close, rx[c_], tx[c_])
  BY <1>1, <1>3, <1>9, Zenon DEF Shape, Conns, net
<1> QED
  BY <1>1, <1>2, <1>5, <1>10, Zenon DEF rest, out, two

\* The end of the batch turns a connection with replies to writing.
LEMMA DrainShape ==
  ASSUME Tables, DrainDone
  PROVE  LET in == conn[c_].incoming
             replies == conn[c_].outgoing # <<>>
         IN  /\ Handling /\ pc = "drain" /\ pc' = "write" /\ (Len(in) < 2 \/ Huge(in))
             /\ Shape(in, conn[c_].outgoing, conn[c_].want_read /\ ~ replies,
                      conn[c_].want_close \/ Huge(in), rx[c_], tx[c_])
<1> DEFINE in == conn[c_].incoming
           replies == conn[c_].outgoing # <<>>
           wr == conn[c_].want_read /\ ~ replies
           ww == conn[c_].want_write \/ replies
           wc == conn[c_].want_close \/ Huge(in)
<1>1. /\ pc = "drain" /\ ~ Complete(in) /\ pc' = "write"
      /\ conn' = [conn EXCEPT ![c_].want_close = @ \/ Huge(in),
                              ![c_].want_read = @ /\ ~ replies,
                              ![c_].want_write = @ \/ replies]
      /\ UNCHANGED <<ready, accepting, cur, conns_, idle_list_, now, net>>
  BY DEF DrainDone
<1>2. Handling
  BY <1>1 DEF Handling
<1>3. /\ c_ \in Clients /\ conn \in [Clients -> Conns] /\ conn[c_] \in Conns
      /\ rx \in [Clients -> Seq(Units)] /\ tx \in [Clients -> Seq(Units)]
  BY <1>2, Current DEF Tables, Types
<1>4. in \in Seq(Units) /\ wr \in BOOLEAN /\ ww \in BOOLEAN /\ wc \in BOOLEAN
  BY <1>3 DEF Conns
<1>5. Len(in) < 2 \/ Huge(in)
  BY <1>1, <1>4 DEF Complete
<1> HIDE DEF replies
<1>6. conn' = [conn EXCEPT ![c_] = [@ EXCEPT !.want_close = wc, !.want_read = wr,
                                             !.want_write = ww]]
  BY <1>1, <1>3, Zenon DEF Conns
<1> HIDE DEF wr, ww, wc
<1>7. /\ conn' \in [Clients -> Conns] /\ \A c \in Clients : c # c_ => conn'[c] = conn[c]
      /\ conn'[c_] = [conn[c_] EXCEPT !.want_close = wc, !.want_read = wr, !.want_write = ww]
  BY <1>3, <1>4, <1>6, Zenon DEF Conns
<1>8. Shape(in, conn[c_].outgoing, wr, wc, rx[c_], tx[c_])
  BY <1>1, <1>3, <1>7, Zenon DEF Shape, Conns, net
<1> QED
  BY <1>1, <1>2, <1>5, <1>8 DEF wr, wc, replies

\* write() takes no more than there is.
LEMMA RoomBound ==
  ASSUME NEW c \in Clients, Types
  PROVE  Room(c) \in Int /\ Room(c) =< Len(conn[c].outgoing)
<1> DEFINE x == Len(conn[c].outgoing)
           y == SndBuf - Len(tx[c])
<1>1. x \in Int /\ y \in Int
  BY LoopAssumption DEF Types, Conns
<1> HIDE DEF x, y
<1>2. \E m \in {x, y} : \A z \in {x, y} : m =< z
  BY <1>1
<1>3. Min({x, y}) \in {x, y} /\ \A z \in {x, y} : Min({x, y}) =< z
  BY <1>2, Zenon DEF Min
<1>4. Room(c) = Min({x, y})
  BY DEF Room, x, y
<1> QED
  BY <1>1, <1>3, <1>4 DEF x

\* A write moves the first units of outgoing to the stream.
LEMMA WriteShape ==
  ASSUME Tables, WriteData
  PROVE  LET out == conn[c_].outgoing
         IN  /\ Handling /\ pc = "write" /\ pc' = "close"
             /\ \E n \in 1 .. Len(out) :
                  LET left == SubSeq(out, n + 1, Len(out))
                  IN  Shape(conn[c_].incoming, left, conn[c_].want_read \/ left = <<>>,
                            conn[c_].want_close, rx[c_], tx[c_] \o SubSeq(out, 1, n))
<1> DEFINE out == conn[c_].outgoing
<1>1. pc = "write" /\ pc' = "close" /\ Handling
  BY Zenon DEF WriteData, Handling
<1>2. /\ c_ \in Clients /\ conn \in [Clients -> Conns] /\ conn[c_] \in Conns
      /\ rx \in [Clients -> Seq(Units)] /\ tx \in [Clients -> Seq(Units)]
  BY <1>1, Current DEF Tables, Types
<1>3. Room(c_) \in Int /\ Room(c_) =< Len(out) /\ out \in Seq(Units)
  BY <1>2, RoomBound DEF Tables, Conns
<1>4. PICK n \in 1 .. Room(c_) :
        LET left == SubSeq(out, n + 1, Len(out))
        IN  /\ tx' = [tx EXCEPT ![c_] = @ \o SubSeq(out, 1, n)]
            /\ conn' = [conn EXCEPT ![c_].outgoing = left,
                                    ![c_].want_read = @ \/ left = <<>>,
                                    ![c_].want_write = @ /\ left # <<>>]
  BY Zenon DEF WriteData
<1>5. UNCHANGED <<ready, accepting, cur, conns_, idle_list_, now, backlog, peer, rx, sent, got>>
  BY Zenon DEF WriteData
<1>6. n \in 1 .. Len(out)
  BY <1>3
<1> DEFINE left == SubSeq(out, n + 1, Len(out))
           gone == tx[c_] \o SubSeq(out, 1, n)
           wr == conn[c_].want_read \/ left = <<>>
           ww == conn[c_].want_write /\ left # <<>>
<1>7. left \in Seq(Units) /\ gone \in Seq(Units)
  BY <1>2, <1>3, <1>6
<1>8. tx' = [tx EXCEPT ![c_] = gone]
  BY <1>2, <1>4, Zenon
<1> HIDE DEF left, gone
<1>9. wr \in BOOLEAN /\ ww \in BOOLEAN
  BY <1>2 DEF Conns
<1>10. conn' = [conn EXCEPT ![c_] = [@ EXCEPT !.outgoing = left, !.want_read = wr,
                                              !.want_write = ww]]
  BY <1>2, <1>4, Zenon DEF Conns, left
<1> HIDE DEF wr, ww
<1>11. /\ conn' \in [Clients -> Conns] /\ \A c \in Clients : c # c_ => conn'[c] = conn[c]
       /\ conn'[c_] = [conn[c_] EXCEPT !.outgoing = left, !.want_read = wr, !.want_write = ww]
  BY <1>2, <1>7, <1>9, <1>10, Zenon DEF Conns
<1>12. /\ tx' \in [Clients -> Seq(Units)] /\ \A c \in Clients : c # c_ => tx'[c] = tx[c]
       /\ tx'[c_] = gone
  BY <1>2, <1>7, <1>8
<1>13. Shape(conn[c_].incoming, left, wr, conn[c_].want_close, rx[c_], gone)
  BY <1>2, <1>5, <1>11, <1>12 DEF Shape, Conns
<1> QED
  BY <1>1, <1>6, <1>13 DEF left, gone, wr

\* What all of them leave as it is.
LEMMA HandlerShape ==
  ASSUME Tables, Handler
  PROVE  /\ Handling /\ pc' \in {"drain", "write", "close"}
         /\ conn' \in [Clients -> Conns]
         /\ \A c \in Clients : c # c_ => conn'[c] = conn[c] /\ rx'[c] = rx[c] /\ tx'[c] = tx[c]
         /\ conn'[c_].last_active_ms = conn[c_].last_active_ms
         /\ rx' \in [Clients -> Seq(Units)] /\ tx' \in [Clients -> Seq(Units)]
         /\ UNCHANGED <<ready, accepting, cur, conns_, idle_list_, now, backlog, peer, sent, got>>
<1>1. CASE ReadAgain \/ WriteNothing
  BY <1>1, SkipShape DEF Shape
<1>2. CASE ReadEnd \/ WriteError
  BY <1>2, EndShape, Zenon DEF Shape
<1>3. CASE ReadData
  BY <1>3, ReadShape DEF Shape
<1>4. CASE try_one_request
  BY <1>4, RequestShape, Zenon DEF Shape
<1>5. CASE DrainDone
  BY <1>5, DrainShape DEF Shape
<1>6. CASE WriteData
  BY <1>6, WriteShape DEF Shape
<1> QED
  BY <1>1, <1>2, <1>3, <1>4, <1>5, <1>6 DEF Handler

\* The handlers keep the tables, which they do not touch.
LEMMA HandlerTables ==
  ASSUME Tables, Handler
  PROVE  Tables'
<1>1. /\ Handling /\ pc' \in {"drain", "write", "close"}
      /\ conn' \in [Clients -> Conns]
      /\ \A c \in Clients : c # c_ => conn'[c] = conn[c]
      /\ rx' \in [Clients -> Seq(Units)] /\ tx' \in [Clients -> Seq(Units)]
      /\ UNCHANGED <<ready, accepting, cur, conns_, idle_list_, now, backlog, peer, sent, got>>
  BY HandlerShape
<1>2. c_ \in Live
  BY <1>1, Current
<1>3. Live' = Live /\ Waiting' = Waiting /\ Handling'
  BY <1>1 DEF Live, Waiting, Handling
<1>4. Types'
  BY <1>1 DEF Tables, Types
<1>5. TablesAgree'
  BY <1>1, <1>3 DEF Tables, TablesAgree, Handling
<1>6. Order'
  BY <1>1, <1>2, <1>3 DEF Tables, Order, Handling
<1> QED
  BY <1>4, <1>5, <1>6 DEF Tables

\* Steps that leave connections and streams alone.
Quiet == PollCall \/ PollInterrupted \/ AcceptNothing \/ ConnsDone \/ Tick \/ UNCHANGED vars

\* The steps of run() between its calls, and the clock, touch no connection.
LEMMA QuietShape ==
  ASSUME Tables, Quiet
  PROVE  /\ UNCHANGED <<ready, cur, conns_, conn, idle_list_, backlog, peer, rx, tx, sent, got>>
         /\ accepting' \in BOOLEAN /\ (accepting' => accepting) /\ now' \in Nat /\ now' >= now
         /\ \/ pc' = pc
            \/ pc = "poll" /\ pc' = "sleep"
            \/ pc = "sleep" /\ pc' = "poll"
            \/ pc = "accept" /\ pc' = "conns"
            \/ pc = "conns" /\ pc' = "timers" /\ ready = {}
<1>1. now \in Nat /\ accepting \in BOOLEAN
  BY DEF Tables, Types
<1>2. CASE PollCall
  BY <1>1, <1>2 DEF PollCall, net
<1>3. CASE PollInterrupted
  BY <1>1, <1>3 DEF PollInterrupted, net
<1>4. CASE AcceptNothing
  <2>1. accepting' = FALSE
    BY <1>4 DEF AcceptNothing
  <2>2. accepting' \in BOOLEAN /\ (accepting' => accepting)
    BY <2>1, Zenon
  <2> QED
    BY <1>1, <1>4, <2>2 DEF AcceptNothing, net
<1>5. CASE ConnsDone
  BY <1>1, <1>5 DEF ConnsDone, Skip, net
<1>6. CASE Tick
  BY <1>1, <1>6 DEF Tick, loop, net
<1>7. CASE UNCHANGED vars
  BY <1>1, <1>7 DEF vars, loop, net
<1> QED
  BY <1>2, <1>3, <1>4, <1>5, <1>6, <1>7 DEF Quiet

\* They keep the tables.
LEMMA QuietTables ==
  ASSUME Tables, Quiet
  PROVE  Tables'
<1>1. /\ UNCHANGED <<ready, cur, conns_, conn, idle_list_, backlog, peer, rx, tx, sent, got>>
      /\ accepting' \in BOOLEAN /\ (accepting' => accepting) /\ now' \in Nat
      /\ \/ pc' = pc
         \/ pc = "poll" /\ pc' = "sleep"
         \/ pc = "sleep" /\ pc' = "poll"
         \/ pc = "accept" /\ pc' = "conns"
         \/ pc = "conns" /\ pc' = "timers" /\ ready = {}
  BY QuietShape
<1>2. Live' = Live /\ Waiting' = Waiting /\ (Handling' => Handling)
  BY <1>1 DEF Live, Waiting, Handling
<1>3. Types'
  BY <1>1 DEF Tables, Types
<1>4. TablesAgree'
  BY <1>1, <1>2 DEF Tables, TablesAgree, Handling
<1>5. Order'
  BY <1>1, <1>2 DEF Tables, Order
<1> QED
  BY <1>3, <1>4, <1>5 DEF Tables

\* Clients touch neither the loop nor its tables.
LEMMA ClientTables ==
  ASSUME Tables, NEW c \in Clients, Client(c)
  PROVE  Tables'
<1>1. UNCHANGED <<loop, now>>
  BY Zenon DEF Client, Connect, Send, Recv, HalfClose, Abort
<1>2. Live' = Live /\ (Handling' <=> Handling)
  BY <1>1 DEF loop, Live, Handling
<1>3. /\ peer \in [Clients -> {"none", "open", "fin", "reset"}]
      /\ rx \in [Clients -> Seq(Units)] /\ tx \in [Clients -> Seq(Units)]
      /\ sent \in [Clients -> Nat] /\ got \in [Clients -> Nat] /\ backlog \in Seq(Clients)
  BY DEF Tables, Types
<1>4. CASE Connect(c)
  <2>1. /\ peer[c] = "none" /\ peer' = [peer EXCEPT ![c] = "open"]
        /\ backlog' = Append(backlog, c) /\ UNCHANGED <<rx, tx, sent, got>>
    BY <1>4 DEF Connect
  <2>2. c \notin Live \cup Waiting
    BY <2>1 DEF Tables, Order
  <2>a. /\ backlog' \in Seq(Clients) /\ DOMAIN backlog' = 1 .. Len(backlog) + 1
        /\ \A i \in 1 .. Len(backlog) : backlog'[i] = backlog[i]
        /\ backlog'[Len(backlog) + 1] = c /\ DOMAIN backlog = 1 .. Len(backlog)
        /\ Len(backlog) \in Nat
    BY <1>3, <2>1
  <2>3. Waiting' = Waiting \cup {c} /\ backlog' \in Seq(Clients) /\ backlog' # <<>>
    <3>1. 1 .. Len(backlog) + 1 = (1 .. Len(backlog)) \cup {Len(backlog) + 1}
      BY <2>a
    <3>2. Waiting' = Waiting \cup {c}
      BY <2>a, <3>1 DEF Waiting
    <3> QED
      BY <2>a, <3>2
  <2>4. \A i, j \in DOMAIN backlog' : backlog'[i] = backlog'[j] => i = j
    BY <2>2, <2>a DEF Tables, Order, Waiting
  <2>5. Types'
    BY <1>1, <1>3, <2>1, <2>3, Zenon DEF Tables, Types, loop
  <2>6. TablesAgree'
    BY <1>1, <1>2, <2>2, <2>3 DEF Tables, TablesAgree, loop
  <2>b. \A d \in Live \cup Waiting \cup {c} : peer'[d] # "none"
    BY <1>3, <2>1 DEF Tables, Order
  <2>7. Order'
    BY <1>1, <1>2, <2>b, <2>3, <2>4 DEF Tables, Order, loop
  <2> QED
    BY <2>5, <2>6, <2>7 DEF Tables
<1>5. CASE ~ Connect(c)
  <2>1. /\ UNCHANGED backlog /\ peer' \in [Clients -> {"none", "open", "fin", "reset"}]
        /\ \A d \in Clients : peer'[d] = "none" => peer[d] = "none"
    BY <1>3, <1>5, Zenon DEF Client, Send, Recv, HalfClose, Abort
  <2>2. /\ rx' \in [Clients -> Seq(Units)] /\ tx' \in [Clients -> Seq(Units)]
        /\ sent' \in [Clients -> Nat] /\ got' \in [Clients -> Nat]
    <3>1. CASE \E kind \in Kinds : Send(c, kind)
      <4>1. PICK kind \in Kinds : Send(c, kind)
        BY <3>1
      <4>2. sent' \in [Clients -> Nat] /\ sent'[c] \in Nat
        BY <1>3, <4>1 DEF Send
      <4> DEFINE two == <<Unit("hdr", sent'[c], kind), Unit("body", sent'[c], kind)>>
      <4>3. two \in Seq(Units)
        BY <4>2, LoopAssumption DEF Unit, Units
      <4> HIDE DEF two
      <4>4. rx' = [rx EXCEPT ![c] = @ \o two] /\ UNCHANGED <<tx, got>>
        BY <4>1 DEF Send, two
      <4> QED
        BY <1>3, <4>2, <4>3, <4>4
    <3>2. CASE Recv(c)
      BY <1>3, <3>2 DEF Recv
    <3>3. CASE HalfClose(c)
      BY <1>3, <3>3 DEF HalfClose
    <3>4. CASE Abort(c)
      BY <1>3, <3>4 DEF Abort
    <3> QED
      BY <1>5, <3>1, <3>2, <3>3, <3>4 DEF Client
  <2>3. Waiting' = Waiting /\ Live \cup Waiting \subseteq Clients
    <3>1. Live \subseteq Clients
      BY DEF Live, Tables, Types
    <3> QED
      BY <1>3, <2>1, <3>1 DEF Waiting
  <2>4. Types'
    BY <1>1, <2>1, <2>2 DEF Tables, Types, loop
  <2>5. TablesAgree'
    <3>1. UNCHANGED <<pc, ready, cur, conns_, idle_list_>>
      BY <1>1, Zenon DEF loop
    <3> QED
      BY <1>2, <2>3, <3>1 DEF Tables, TablesAgree, Handling
  <2>6. Order'
    BY <1>1, <1>2, <2>1, <2>3 DEF Tables, Order, loop
  <2> QED
    BY <2>4, <2>5, <2>6 DEF Tables
<1> QED
  BY <1>4, <1>5

\* A set of numbers that is not empty has a least one.
LEMMA Least ==
  ASSUME NEW S \in SUBSET Nat, S # {}
  PROVE  \E m \in S : \A x \in S : m =< x
<1> DEFINE lt == {ss \in Nat \X Nat : ss[1] < ss[2]}
<1>1. IsWellFoundedOn(lt, Nat)
  BY NatLessThanWellFounded, Zenon DEF OpToRel
<1>2. PICK m \in S : \A x \in S : ~ (<<x, m>> \in lt)
  <2> HIDE DEF lt
  <2> QED
    BY <1>1, WFMin, Zenon
<1>3. \A x \in S : ~ (x < m)
  BY <1>2, Zenon
<1> QED
  BY <1>3

\* The order of poll_args: there is a first event to look at.
LEMMA FirstReady ==
  ASSUME Tables, ready # {}
  PROVE  First(ready) \in ready /\ First(ready) \in Event
<1> DEFINE S == {r.fd : r \in ready}
<1>1. ready \subseteq Event /\ S \subseteq Nat /\ S # {}
  BY LoopAssumption DEF Tables, Types, Event, Fds
<1> HIDE DEF S
<1>2. PICK m \in S : \A x \in S : m =< x
  BY <1>1, Least
<1>3. \E r \in ready : \A q \in ready : r.fd =< q.fd
  BY <1>2 DEF S
<1> QED
  BY <1>1, <1>3, Zenon DEF First

\* accept() hands out a descriptor that is free.
LEMMA LowestFree ==
  ASSUME FreeFds # {}
  PROVE  Min(FreeFds) \in Fds /\ conns_[Min(FreeFds)] = None
<1>1. FreeFds \subseteq Nat
  BY LoopAssumption DEF FreeFds, Fds
<1>2. \E m \in FreeFds : \A x \in FreeFds : m =< x
  BY <1>1, Least
<1>3. Min(FreeFds) \in FreeFds
  BY <1>2, Zenon DEF Min
<1> QED
  BY <1>3 DEF FreeFds

Distinct(s) == \A i, j \in DOMAIN s : s[i] = s[j] => i = j

\* d is s without c, in the same order.
Without(s, c, d) ==
  /\ d \in Seq(Clients)
  /\ {d[i] : i \in DOMAIN d} = {s[i] : i \in DOMAIN s} \ {c}
  /\ \A i, j \in DOMAIN d : i < j =>
       \E k, l \in DOMAIN s : k < l /\ d[i] = s[k] /\ d[j] = s[l]
  /\ \A i, j \in DOMAIN d : d[i] = d[j] => i = j

\* dlist_detach: the other nodes stay, in their order.
LEMMA DetachedList ==
  ASSUME NEW s \in Seq(Clients), NEW c, \E i \in DOMAIN s : s[i] = c, Distinct(s)
  PROVE  Without(s, c, Detached(s, c))
<1>0. \A i, j \in DOMAIN s : s[i] = s[j] => i = j
  BY DEF Distinct
<1> SUFFICES ASSUME NEW d, d = Detached(s, c) PROVE Without(s, c, d)
  OBVIOUS
<1> DEFINE p == CHOOSE i \in DOMAIN s : s[i] = c
           D == [i \in 1 .. Len(s) - 1 |-> IF i < p THEN s[i] ELSE s[i + 1]]
<1>1. p \in DOMAIN s /\ s[p] = c
  BY Zenon
<1> HIDE DEF p
<1>2. DOMAIN s = 1 .. Len(s) /\ Len(s) \in Nat /\ p \in 1 .. Len(s)
  BY <1>1
<1>3. d = D
  BY DEF Detached, p
<1>4. D \in [1 .. Len(s) - 1 -> Clients]
  BY <1>2
<1>5. d \in Seq(Clients) /\ Len(d) = Len(s) - 1 /\ DOMAIN d = 1 .. Len(s) - 1
  BY <1>2, <1>3, <1>4
<1>6. \A i \in 1 .. Len(s) - 1 : d[i] = IF i < p THEN s[i] ELSE s[i + 1]
  BY <1>3
<1> HIDE DEF D
<1>7. \A i, j \in DOMAIN d : i < j =>
        \E k, l \in DOMAIN s : k < l /\ d[i] = s[k] /\ d[j] = s[l]
  <2> SUFFICES ASSUME NEW i \in DOMAIN d, NEW j \in DOMAIN d, i < j
               PROVE  \E k, l \in DOMAIN s : k < l /\ d[i] = s[k] /\ d[j] = s[l]
    OBVIOUS
  <2>0. i \in 1 .. Len(s) - 1 /\ j \in 1 .. Len(s) - 1
    BY <1>5
  <2> DEFINE k == IF i < p THEN i ELSE i + 1
             l == IF j < p THEN j ELSE j + 1
  <2>1. k \in DOMAIN s /\ l \in DOMAIN s /\ k < l
    BY <1>2, <2>0
  <2>2. d[i] = s[k] /\ d[j] = s[l]
    BY <1>6, <2>0
  <2> QED
    BY <2>1, <2>2
<1>8. {d[i] : i \in DOMAIN d} = {s[i] : i \in DOMAIN s} \ {c}
  <2>1. ASSUME NEW i \in 1 .. Len(s) - 1 PROVE d[i] \in {s[k] : k \in DOMAIN s} \ {c}
    <3> DEFINE k == IF i < p THEN i ELSE i + 1
    <3>1. k \in DOMAIN s /\ k # p /\ d[i] = s[k]
      BY <1>2, <1>6
    <3> HIDE DEF k
    <3> QED
      BY <1>0, <1>1, <3>1
  <2>2. ASSUME NEW k \in DOMAIN s, s[k] # c PROVE \E i \in DOMAIN d : d[i] = s[k]
    <3> DEFINE i == IF k < p THEN k ELSE k - 1
    <3>1. k # p
      BY <1>1, <2>2
    <3>2. i \in 1 .. Len(s) - 1 /\ (IF i < p THEN i ELSE i + 1) = k
      BY <1>2, <3>1
    <3>3. d[i] = s[k]
      BY <1>6, <3>2
    <3> QED
      BY <1>5, <3>2, <3>3
  <2> QED
    BY <1>5, <2>1, <2>2
<1>9. \A i, j \in DOMAIN d : d[i] = d[j] => i = j
  <2> SUFFICES ASSUME NEW i \in DOMAIN d, NEW j \in DOMAIN d, d[i] = d[j]
               PROVE  i = j
    OBVIOUS
  <2>1. CASE i < j
    <3>1. PICK k, l \in DOMAIN s : k < l /\ d[i] = s[k] /\ d[j] = s[l]
      BY <1>7, <2>1, Zenon
    <3>2. k = l
      BY <1>0, <3>1, Zenon
    <3> QED
      BY <1>2, <3>1, <3>2
  <2>2. CASE j < i
    <3>1. PICK k, l \in DOMAIN s : k < l /\ d[j] = s[k] /\ d[i] = s[l]
      BY <1>7, <2>2, Zenon
    <3>2. k = l
      BY <1>0, <3>1, Zenon
    <3> QED
      BY <1>2, <3>1, <3>2
  <2> QED
    BY <1>5, <2>1, <2>2
<1> QED
  BY <1>5, <1>7, <1>8, <1>9, Zenon DEF Without

\* Closing the connections C of the table leaves the tables in agreement.
LEMMA ResetTables ==
  ASSUME Tables, NEW C \in SUBSET Clients, NEW rest \in Seq(Clients), Reset(C, rest),
         {rest[i] : i \in DOMAIN rest} = Live \ C,
         \A i, j \in DOMAIN rest : rest[i] = rest[j] => i = j,
         \A r \in ready : r.who \notin C,
         pc' = "conns" \/ (pc' = "poll" /\ ready = {}), cur' \in {cur, NoEvent},
         UNCHANGED <<ready, accepting, now, backlog, peer, tx, sent, got>>
  PROVE  /\ Tables' /\ Live' = Live \ C
         /\ \A c \in Clients : conn'[c] = IF c \in C THEN NoConn ELSE conn[c]
         /\ \A c \in Clients : rx'[c] = IF c \in C THEN <<>> ELSE rx[c]
<1>1. NoConn \in Conns
  BY DEF NoConn, Conns
<1>2. /\ conns_ \in [Fds -> Clients \cup {None}] /\ conn \in [Clients -> Conns]
      /\ rx \in [Clients -> Seq(Units)] /\ None \notin C
  BY LoopAssumption, Zenon DEF Tables, Types
<1>3. /\ conns_' = [fd \in Fds |-> IF conns_[fd] \in C THEN None ELSE conns_[fd]]
      /\ conn' = [c \in Clients |-> IF c \in C THEN NoConn ELSE conn[c]]
      /\ idle_list_' = rest
      /\ rx' = [c \in Clients |-> IF c \in C THEN <<>> ELSE rx[c]]
  BY DEF Reset
<1>4. Live' = Live \ C
  BY <1>2, <1>3 DEF Live
<1>5. Waiting' = Waiting /\ ~ Handling'
  BY DEF Waiting, Handling
<1>6. Types'
  <2>1. conns_' \in [Fds -> Clients \cup {None}]
    BY <1>2, <1>3, Zenon
  <2>2. conn' \in [Clients -> Conns]
    BY <1>1, <1>2, <1>3
  <2>3. rx' \in [Clients -> Seq(Units)]
    BY <1>2, <1>3
  <2> QED
    BY <1>3, <2>1, <2>2, <2>3, Zenon DEF Tables, Types
<1>7. TablesAgree'
  <2>1. \A f, g \in Fds : conns_'[f] # None /\ conns_'[f] = conns_'[g] => f = g
    BY <1>3, Zenon DEF Tables, TablesAgree
  <2>2. \A r \in ready' : conns_'[r.fd] = r.who
    BY <1>3, Zenon DEF Tables, TablesAgree, Types, Event
  <2> QED
    BY <1>3, <1>4, <1>5, <2>1, <2>2 DEF Tables, TablesAgree, Handling
<1>8. Order'
  BY <1>3, <1>4, <1>5, Zenon DEF Tables, Order
<1> QED
  BY <1>3, <1>4, <1>6, <1>7, <1>8 DEF Tables

\* The end of the loop body.
LEMMA CloseShape ==
  ASSUME Tables, CloseCheck
  PROVE  /\ Tables' /\ pc = "close" /\ pc' = "conns" /\ Handling
         /\ UNCHANGED <<ready, now, backlog, peer, tx, sent, got>>
         /\ \/ UNCHANGED <<conns_, conn, idle_list_, rx>> /\ ~ conn[c_].want_close
            \/ /\ conn[c_].want_close \/ "hup" \in cur.re
               /\ idle_list_' = Detached(idle_list_, c_) /\ Live' = Live \ {c_}
               /\ \A c \in Clients : conn'[c] = IF c = c_ THEN NoConn ELSE conn[c]
               /\ \A c \in Clients : rx'[c] = IF c = c_ THEN <<>> ELSE rx[c]
<1>1. /\ pc = "close" /\ pc' = "conns" /\ cur' = NoEvent
      /\ UNCHANGED <<wake_at, ready, accepting, ttl, now, backlog, peer, tx, sent, got>>
  BY DEF CloseCheck
<1>2. Handling
  BY <1>1 DEF Handling
<1>3. CASE conn[c_].want_close \/ "hup" \in cur.re
  <2> DEFINE rest == Detached(idle_list_, c_)
  <2>1. Reset({c_}, rest)
    BY <1>3, Zenon DEF CloseCheck
  <2>2. c_ \in Clients /\ c_ \in Live
    BY <1>2, Current
  <2>3. /\ idle_list_ \in Seq(Clients) /\ \E i \in DOMAIN idle_list_ : idle_list_[i] = c_
        /\ \A i, j \in DOMAIN idle_list_ : idle_list_[i] = idle_list_[j] => i = j
        /\ {idle_list_[i] : i \in DOMAIN idle_list_} = Live
    BY <2>2, Zenon DEF Tables, Types, TablesAgree
  <2> HIDE DEF rest
  <2>4. /\ rest \in Seq(Clients) /\ {rest[i] : i \in DOMAIN rest} = Live \ {c_}
        /\ \A i, j \in DOMAIN rest : rest[i] = rest[j] => i = j
    <3>0. rest = Detached(idle_list_, c_)
      BY DEF rest
    <3>1. /\ rest \in Seq(Clients)
          /\ {rest[i] : i \in DOMAIN rest} = {idle_list_[i] : i \in DOMAIN idle_list_} \ {c_}
          /\ \A i, j \in DOMAIN rest : rest[i] = rest[j] => i = j
      <4>1. Distinct(idle_list_)
        BY <2>3 DEF Distinct
      <4>2. Without(idle_list_, c_, rest)
        BY <2>3, <3>0, <4>1, DetachedList
      <4> QED
        BY <4>2, Zenon DEF Without
    <3> QED
      BY <2>3, <3>1, Zenon
  <2>5. \A r \in ready : r.who \notin {c_}
    BY <1>2, Current, ZenonT(30) DEF Tables, Types, TablesAgree, Order, Event, c_
  <2>6. /\ Tables' /\ Live' = Live \ {c_}
        /\ \A c \in Clients : conn'[c] = IF c \in {c_} THEN NoConn ELSE conn[c]
        /\ \A c \in Clients : rx'[c] = IF c \in {c_} THEN <<>> ELSE rx[c]
    <3> DEFINE C == {c_}
    <3>1. C \in SUBSET Clients /\ Reset(C, rest) /\ cur' \in {cur, NoEvent}
      BY <1>1, <2>1, <2>2
    <3>2. {rest[i] : i \in DOMAIN rest} = Live \ C /\ \A r \in ready : r.who \notin C
      BY <2>4, <2>5, Zenon
    <3>3. pc' = "conns" \/ (pc' = "poll" /\ ready = {})
      BY <1>1
    <3>4. UNCHANGED <<ready, accepting, now, backlog, peer, tx, sent, got>>
      BY <1>1
    <3> HIDE DEF C
    <3>5. /\ Tables' /\ Live' = Live \ C
          /\ \A c \in Clients : conn'[c] = IF c \in C THEN NoConn ELSE conn[c]
          /\ \A c \in Clients : rx'[c] = IF c \in C THEN <<>> ELSE rx[c]
      BY <2>4, <3>1, <3>2, <3>3, <3>4, ResetTables, Zenon
    <3> QED
      BY <3>5, Zenon DEF C
  <2>7. idle_list_' = Detached(idle_list_, c_)
    BY <2>1 DEF Reset, rest
  <2> QED
    BY <1>1, <1>2, <1>3, <2>6, <2>7, Zenon
<1>4. CASE ~ (conn[c_].want_close \/ "hup" \in cur.re)
  <2>1. UNCHANGED <<conns_, conn, idle_list_, rx>> /\ ~ conn[c_].want_close
    BY <1>4, Zenon DEF CloseCheck
  <2>2. Live' = Live /\ Waiting' = Waiting /\ ~ Handling'
    BY <1>1, <2>1, Zenon DEF Live, Waiting, Handling
  <2>3. Types'
    BY <1>1, <2>1, Zenon DEF Tables, Types
  <2>4. TablesAgree'
    BY <1>1, <2>1, <2>2 DEF Tables, TablesAgree, Handling
  <2>5. Order'
    BY <1>1, <2>1, <2>2 DEF Tables, Order
  <2> QED
    BY <1>1, <1>2, <2>1, <2>3, <2>4, <2>5, Zenon DEF Tables
<1> QED
  BY <1>3, <1>4, Zenon

\* A list without its first n members holds the others in their order.
LEMMA RestOfList ==
  ASSUME NEW s \in Seq(Clients), NEW n \in 0 .. Len(s)
  PROVE  /\ SubSeq(s, n + 1, Len(s)) \in Seq(Clients)
         /\ DOMAIN SubSeq(s, n + 1, Len(s)) = 1 .. Len(s) - n
         /\ \A i \in 1 .. Len(s) - n : SubSeq(s, n + 1, Len(s))[i] = s[i + n]
<1>1. Len(s) \in Nat /\ SubSeq(s, n + 1, Len(s)) \in Seq(Clients)
  OBVIOUS
<1>2. Len(SubSeq(s, n + 1, Len(s))) = Len(s) - n
  BY <1>1
<1>3. \A i \in 1 .. Len(s) - n : SubSeq(s, n + 1, Len(s))[i] = s[i + n]
  BY <1>1
<1> QED
  BY <1>1, <1>2, <1>3

\* The sweep of process_timers.
LEMMA SweepShape ==
  ASSUME Tables, process_timers
  PROVE  /\ Tables' /\ pc = "timers" /\ pc' = "poll" /\ ready = {}
         /\ UNCHANGED <<ready, now, backlog, peer, tx, sent, got>>
         /\ \E n \in 0 .. Len(idle_list_) :
              LET C == {idle_list_[i] : i \in 1 .. n}
              IN  /\ IdleFront(n) /\ idle_list_' = SubSeq(idle_list_, n + 1, Len(idle_list_))
                  /\ C \subseteq Live /\ Live' = Live \ C
                  /\ \A c \in Clients : conn'[c] = IF c \in C THEN NoConn ELSE conn[c]
                  /\ \A c \in Clients : rx'[c] = IF c \in C THEN <<>> ELSE rx[c]
<1>1. /\ pc = "timers" /\ pc' = "poll"
      /\ UNCHANGED <<wake_at, ready, accepting, cur, now, backlog, peer, tx, sent, got>>
  BY DEF process_timers
<1>2. PICK n \in 0 .. Len(idle_list_) :
        /\ IdleFront(n)
        /\ Reset({idle_list_[i] : i \in 1 .. n}, SubSeq(idle_list_, n + 1, Len(idle_list_)))
  BY Zenon DEF process_timers
<1> DEFINE C == {idle_list_[i] : i \in 1 .. n}
           rest == SubSeq(idle_list_, n + 1, Len(idle_list_))
<1>3. /\ idle_list_ \in Seq(Clients) /\ {idle_list_[i] : i \in DOMAIN idle_list_} = Live
      /\ \A i, j \in DOMAIN idle_list_ : idle_list_[i] = idle_list_[j] => i = j
      /\ DOMAIN idle_list_ = 1 .. Len(idle_list_) /\ Len(idle_list_) \in Nat
  BY DEF Tables, Types, TablesAgree
<1>4. /\ rest \in Seq(Clients) /\ DOMAIN rest = 1 .. Len(idle_list_) - n
      /\ \A i \in 1 .. Len(idle_list_) - n : rest[i] = idle_list_[i + n]
  BY <1>3, RestOfList
<1> HIDE DEF rest
<1>5. C \in SUBSET Clients /\ C \subseteq Live
  <2>1. \A i \in 1 .. n : i \in DOMAIN idle_list_
    BY <1>3
  <2> QED
    BY <1>3, <2>1
<1>6. \A i, j \in DOMAIN rest : rest[i] = rest[j] => i = j
  <2> SUFFICES ASSUME NEW i \in DOMAIN rest, NEW j \in DOMAIN rest, rest[i] = rest[j]
               PROVE  i = j
    OBVIOUS
  <2>1. i \in Int /\ j \in Int /\ i + n \in DOMAIN idle_list_ /\ j + n \in DOMAIN idle_list_
    <3>1. \A m \in Nat : \A k \in 0 .. m : \A l \in 1 .. m - k : l \in Int /\ l + k \in 1 .. m
      OBVIOUS
    <3> QED
      BY <1>3, <1>4, <3>1, Zenon
  <2>2. idle_list_[i + n] = idle_list_[j + n]
    BY <1>4
  <2>3. i + n = j + n
    BY <1>3, <2>1, <2>2, Zenon
  <2> QED
    BY <2>1, <2>3
<1>7. {rest[i] : i \in DOMAIN rest} = Live \ C
  <2>1. ASSUME NEW i \in DOMAIN rest PROVE rest[i] \in Live \ C
    <3>a. DOMAIN idle_list_ = 1 .. Len(idle_list_) /\ Len(idle_list_) \in Nat
      BY <1>3, Zenon
    <3>1. i + n \in DOMAIN idle_list_ /\ rest[i] = idle_list_[i + n]
      BY <1>4, <3>a
    <3>2. \A k \in 1 .. n : k \in DOMAIN idle_list_ /\ k # i + n
      BY <1>3, <1>4
    <3>3. \A k \in 1 .. n : idle_list_[k] # rest[i]
      BY <1>3, <3>1, <3>2, Zenon
    <3>4. rest[i] \in Live
      BY <1>3, <3>1, Zenon
    <3> QED
      BY <3>3, <3>4, Zenon
  <2>2. ASSUME NEW c \in Live \ C PROVE \E i \in DOMAIN rest : rest[i] = c
    <3>1. PICK k \in DOMAIN idle_list_ : idle_list_[k] = c
      BY <1>3
    <3>2. k \notin 1 .. n
      BY <3>1
    <3>3. k - n \in DOMAIN rest /\ rest[k - n] = idle_list_[k]
      BY <1>3, <1>4, <3>2
    <3> QED
      BY <3>1, <3>3
  <2> QED
    BY <2>1, <2>2, Zenon
<1>8. ready = {}
  BY <1>1 DEF Tables, Order
<1>9. Reset(C, rest) /\ IdleFront(n) /\ cur' \in {cur, NoEvent}
  BY <1>1, <1>2 DEF rest
<1>10. idle_list_' = rest
  BY <1>9 DEF Reset
<1> HIDE DEF C
<1>11. UNCHANGED <<ready, accepting, now, backlog, peer, tx, sent, got>>
  BY <1>1
<1>12. /\ Tables' /\ Live' = Live \ C
       /\ \A c \in Clients : conn'[c] = IF c \in C THEN NoConn ELSE conn[c]
       /\ \A c \in Clients : rx'[c] = IF c \in C THEN <<>> ELSE rx[c]
  BY <1>1, <1>4, <1>5, <1>6, <1>7, <1>8, <1>9, <1>11, ResetTables, Zenon
<1>13. /\ Tables' /\ pc = "timers" /\ pc' = "poll" /\ ready = {}
       /\ UNCHANGED <<ready, now, backlog, peer, tx, sent, got>>
  BY <1>1, <1>8, <1>12
<1> QED
  BY <1>2, <1>5, <1>9, <1>10, <1>12, <1>13, Zenon DEF C, rest

\* poll() reports events of connections in the table, one per descriptor.
LEMMA ReturnShape ==
  ASSUME Tables, PollReturn
  PROVE  /\ Tables' /\ pc = "sleep" /\ pc' = "accept"
         /\ UNCHANGED <<cur, conns_, conn, idle_list_, now, backlog, peer, rx, tx, sent, got>>
         /\ ready' = {[fd |-> fd, who |-> conns_[fd], re |-> revents(conns_[fd])] :
                        fd \in ReadyFds}
<1>1. /\ pc = "sleep" /\ pc' = "accept"
      /\ UNCHANGED <<cur, conns_, conn, idle_list_, now, backlog, peer, rx, tx, sent, got>>
      /\ ready' = {[fd |-> fd, who |-> conns_[fd], re |-> revents(conns_[fd])] :
                     fd \in ReadyFds}
  BY DEF PollReturn, net
<1>2. accepting' = (backlog # <<>>)
  BY DEF PollReturn
<1>3. Live' = Live /\ Waiting' = Waiting /\ ~ Handling'
  BY <1>1 DEF Live, Waiting, Handling
<1>4. \A r \in ready' : r \in Event /\ r.fd \in Fds /\ r.who = conns_[r.fd]
                        /\ r.re = revents(r.who)
  <2> TAKE r \in ready'
  <2> PICK fd \in ReadyFds :
        r = [fd |-> fd, who |-> conns_[fd], re |-> revents(conns_[fd])]
    BY <1>1
  <2>1. fd \in Fds /\ conns_[fd] # None
    BY DEF ReadyFds
  <2>2. conns_[fd] \in Clients
    BY <2>1 DEF Tables, Types
  <2>3. revents(conns_[fd]) \subseteq {"in", "out", "hup"}
    BY Zenon DEF revents
  <2>4. r.fd = fd /\ r.who = conns_[fd] /\ r.re = revents(conns_[fd])
    OBVIOUS
  <2> QED
    BY <2>1, <2>2, <2>3, <2>4 DEF Event
<1>5. \A r, q \in ready' : r.fd = q.fd => r = q
  BY <1>1
<1>6. Types'
  <2>1. accepting' \in BOOLEAN
    BY <1>2, Zenon
  <2> QED
    BY <1>1, <1>4, <2>1, Zenon DEF Tables, Types
<1>7. TablesAgree'
  <2>1. \A r \in ready' : conns_'[r.fd] = r.who
    BY <1>1, <1>4
  <2>2. /\ \A f, g \in Fds : conns_'[f] # None /\ conns_'[f] = conns_'[g] => f = g
        /\ {idle_list_'[i] : i \in DOMAIN idle_list_'} = Live'
        /\ \A i, j \in DOMAIN idle_list_' : idle_list_'[i] = idle_list_'[j] => i = j
        /\ Live' \cap Waiting' = {}
    <3>1. conns_' = conns_ /\ idle_list_' = idle_list_
      BY <1>1
    <3> QED
      BY <1>3, <3>1, SMTT(30) DEF Tables, TablesAgree
  <2>3. pc' = "accept"
    BY <1>1
  <2> QED
    BY <2>1, <2>2, <2>3, Zenon DEF TablesAgree
<1>8. Order'
  <2>1. accepting' => backlog' # <<>>
    BY <1>1, <1>2, Zenon
  <2> QED
    BY <1>1, <1>3, <1>5, <2>1, Zenon DEF Tables, Order
<1> QED
  BY <1>1, <1>6, <1>7, <1>8, Zenon DEF Tables

\* Either outcome of accept(): the first connection of the backlog is taken.
LEMMA TakenFromBacklog ==
  ASSUME Tables, pc = "accept", accepting, backlog' = Tail(backlog)
  PROVE  /\ Head(backlog) \in Clients /\ Head(backlog) \in Waiting /\ Head(backlog) \notin Live
         /\ conn[Head(backlog)] = NoConn
         /\ backlog' \in Seq(Clients) /\ Waiting' = Waiting \ {Head(backlog)}
         /\ \A i, j \in DOMAIN backlog' : backlog'[i] = backlog'[j] => i = j
<1>1. backlog \in Seq(Clients) /\ backlog # <<>>
  BY DEF Tables, Types, Order
<1>2. /\ Len(backlog) \in Nat \ {0} /\ DOMAIN backlog = 1 .. Len(backlog)
      /\ Head(backlog) = backlog[1] /\ Head(backlog) \in Clients
      /\ backlog' \in Seq(Clients) /\ DOMAIN backlog' = 1 .. Len(backlog) - 1
      /\ \A i \in 1 .. Len(backlog) - 1 : backlog'[i] = backlog[i + 1]
  BY <1>1
<1>3. \A i, j \in DOMAIN backlog : backlog[i] = backlog[j] => i = j
  BY DEF Tables, Order
<1>4. Head(backlog) \in Waiting
  BY <1>2 DEF Waiting
<1>5. Head(backlog) \notin Live /\ conn[Head(backlog)] = NoConn
  BY <1>2, <1>4 DEF Tables, TablesAgree, Order
<1>6. Waiting' = Waiting \ {Head(backlog)}
  <2>1. ASSUME NEW i \in DOMAIN backlog'
        PROVE  backlog'[i] \in Waiting /\ backlog'[i] # Head(backlog)
    BY <1>2, <1>3 DEF Waiting
  <2>2. ASSUME NEW k \in DOMAIN backlog, backlog[k] # Head(backlog)
        PROVE  \E i \in DOMAIN backlog' : backlog'[i] = backlog[k]
    <3>1. k - 1 \in DOMAIN backlog' /\ backlog'[k - 1] = backlog[k]
      BY <1>2, <2>2
    <3> QED
      BY <3>1
  <2> QED
    BY <2>1, <2>2 DEF Waiting
<1>7. \A i, j \in DOMAIN backlog' : backlog'[i] = backlog'[j] => i = j
  BY <1>2, <1>3
<1> QED
  BY <1>2, <1>4, <1>5, <1>6, <1>7, Zenon

\* A connection that accept_new closes at once changes only the backlog.
LEMMA AcceptClosedShape ==
  ASSUME Tables, AcceptClosed
  PROVE  /\ Tables' /\ pc = "accept" /\ pc' = "conns" /\ Live' = Live
         /\ Head(backlog) \in Clients /\ Head(backlog) \notin Live
         /\ Waiting' = Waiting \ {Head(backlog)} /\ conn[Head(backlog)] = NoConn
         /\ UNCHANGED <<ready, cur, conns_, conn, idle_list_, now, peer, tx, sent, got>>
         /\ rx'[Head(backlog)] = <<>>
         /\ \A c \in Clients : c # Head(backlog) => rx'[c] = rx[c]
<1>1. /\ pc = "accept" /\ accepting /\ backlog' = Tail(backlog) /\ pc' = "conns"
      /\ rx' = [rx EXCEPT ![Head(backlog)] = <<>>]
      /\ UNCHANGED <<ready, cur, conns_, conn, idle_list_, now, peer, tx, sent, got>>
  BY DEF AcceptClosed
<1>2. accepting' = FALSE
  BY DEF AcceptClosed
<1>3. /\ Head(backlog) \in Clients /\ Head(backlog) \in Waiting /\ Head(backlog) \notin Live
      /\ conn[Head(backlog)] = NoConn
      /\ backlog' \in Seq(Clients) /\ Waiting' = Waiting \ {Head(backlog)}
      /\ \A i, j \in DOMAIN backlog' : backlog'[i] = backlog'[j] => i = j
  BY <1>1, TakenFromBacklog
<1>4. Live' = Live /\ ~ Handling'
  BY <1>1 DEF Live, Handling
<1>5. /\ rx' \in [Clients -> Seq(Units)] /\ rx'[Head(backlog)] = <<>>
      /\ \A c \in Clients : c # Head(backlog) => rx'[c] = rx[c]
  BY <1>1, <1>3 DEF Tables, Types
<1>6. Types'
  <2>1. accepting' \in BOOLEAN
    BY <1>2, Zenon
  <2> QED
    BY <1>1, <1>3, <1>5, <2>1 DEF Tables, Types
<1>7. TablesAgree'
  <2>1. UNCHANGED <<ready, conns_, idle_list_>> /\ ~ Handling' /\ Live' = Live
        /\ Waiting' \subseteq Waiting
    BY <1>1, <1>3, <1>4, Zenon
  <2>2. Live' \cap Waiting' = {}
    BY <2>1, Zenon DEF Tables, TablesAgree
  <2>3. /\ \A f, g \in Fds : conns_'[f] # None /\ conns_'[f] = conns_'[g] => f = g
        /\ {idle_list_'[i] : i \in DOMAIN idle_list_'} = Live'
    <3>1. \A f, g \in Fds : conns_[f] # None /\ conns_[f] = conns_[g] => f = g
      BY Zenon DEF Tables, TablesAgree
    <3>2. {idle_list_[i] : i \in DOMAIN idle_list_} = Live
      BY Zenon DEF Tables, TablesAgree
    <3> QED
      BY <2>1, <3>1, <3>2
  <2>4. /\ \A i, j \in DOMAIN idle_list_' : idle_list_'[i] = idle_list_'[j] => i = j
        /\ \A r \in ready' : conns_'[r.fd] = r.who
    BY <2>1, Zenon DEF Tables, TablesAgree
  <2> QED
    BY <2>1, <2>2, <2>3, <2>4, Zenon DEF TablesAgree, Handling
<1>8. Order'
  BY <1>1, <1>3, <1>4, Zenon DEF Tables, Order
<1> QED
  BY <1>1, <1>3, <1>4, <1>5, <1>6, <1>7, <1>8 DEF Tables

\* accept_new puts a new connection at a free descriptor and at the back of the list.
LEMMA AcceptShape ==
  ASSUME Tables, accept_new
  PROVE  /\ Tables' /\ pc = "accept" /\ pc' = "conns"
         /\ Head(backlog) \in Clients /\ Head(backlog) \notin Live
         /\ Live' = Live \cup {Head(backlog)} /\ Waiting' = Waiting \ {Head(backlog)}
         /\ Head(backlog) \in Waiting /\ conn[Head(backlog)] = NoConn
         /\ UNCHANGED <<ready, cur, now, peer, rx, tx, sent, got>>
         /\ idle_list_' = Append(idle_list_, Head(backlog))
         /\ conn'[Head(backlog)] = [NoConn EXCEPT !.want_read = TRUE, !.last_active_ms = now]
         /\ \A c \in Clients : c # Head(backlog) => conn'[c] = conn[c]
<1> DEFINE h == Head(backlog)
           fd == Min(FreeFds)
<1>1. /\ pc = "accept" /\ accepting /\ backlog' = Tail(backlog) /\ pc' = "conns"
      /\ FreeFds # {} /\ conns_' = [conns_ EXCEPT ![fd] = h]
      /\ conn' = [conn EXCEPT ![h].want_read = TRUE, ![h].last_active_ms = now]
      /\ idle_list_' = Append(idle_list_, h)
      /\ UNCHANGED <<ready, cur, now, peer, rx, tx, sent, got>>
  BY DEF accept_new
<1>2. accepting' = FALSE
  BY DEF accept_new
<1>3. /\ h \in Clients /\ h \in Waiting /\ h \notin Live /\ conn[h] = NoConn
      /\ backlog' \in Seq(Clients) /\ Waiting' = Waiting \ {h}
      /\ \A i, j \in DOMAIN backlog' : backlog'[i] = backlog'[j] => i = j
  BY <1>1, TakenFromBacklog
<1>4. fd \in Fds /\ conns_[fd] = None
  BY <1>1, LowestFree
<1>5. /\ conns_ \in [Fds -> Clients \cup {None}] /\ conn \in [Clients -> Conns]
      /\ idle_list_ \in Seq(Clients) /\ now \in Nat /\ h # None
  BY <1>3, LoopAssumption DEF Tables, Types
<1> HIDE DEF h, fd
<1>6. /\ conns_' \in [Fds -> Clients \cup {None}] /\ conns_'[fd] = h
      /\ \A f \in Fds : f # fd => conns_'[f] = conns_[f]
  BY <1>1, <1>3, <1>4, <1>5
<1>7. Live' = Live \cup {h} /\ ~ Handling'
  BY <1>1, <1>4, <1>5, <1>6 DEF Live, Handling
<1>8. /\ conn' \in [Clients -> Conns]
      /\ conn'[h] = [NoConn EXCEPT !.want_read = TRUE, !.last_active_ms = now]
      /\ \A c \in Clients : c # h => conn'[c] = conn[c]
  <2>1. conn' = [conn EXCEPT ![h] = [@ EXCEPT !.want_read = TRUE, !.last_active_ms = now]]
    BY <1>1, <1>3, <1>5, Zenon DEF Conns
  <2> QED
    BY <1>3, <1>5, <2>1, Zenon DEF Conns
<1>9. Types'
  <2>1. accepting' \in BOOLEAN
    BY <1>2, Zenon
  <2>2. idle_list_' \in Seq(Clients)
    BY <1>1, <1>3, <1>5
  <2> QED
    BY <1>1, <1>3, <1>6, <1>8, <2>1, <2>2, Zenon DEF Tables, Types
<1>10. TablesAgree'
  <2>1. \A f, g \in Fds : conns_'[f] # None /\ conns_'[f] = conns_'[g] => f = g
    <3>1. \A f \in Fds : conns_[f] # h
      BY <1>3, <1>5 DEF Live
    <3> QED
      BY <1>4, <1>6, <3>1 DEF Tables, TablesAgree
  <2>2. /\ DOMAIN idle_list_ = 1 .. Len(idle_list_) /\ Len(idle_list_) \in Nat
        /\ DOMAIN idle_list_' = (1 .. Len(idle_list_)) \cup {Len(idle_list_) + 1}
        /\ idle_list_'[Len(idle_list_) + 1] = h
        /\ \A i \in 1 .. Len(idle_list_) : idle_list_'[i] = idle_list_[i]
    BY <1>1, <1>3, <1>5
  <2>3. {idle_list_'[i] : i \in DOMAIN idle_list_'} = Live'
    <3>1. {idle_list_[i] : i \in 1 .. Len(idle_list_)} = Live
      BY <2>2, Zenon DEF Tables, TablesAgree
    <3>2. \A x : x \in {idle_list_'[i] : i \in DOMAIN idle_list_'}
                <=> x \in {idle_list_[i] : i \in 1 .. Len(idle_list_)} \/ x = h
      BY <2>2, Zenon
    <3> QED
      BY <1>7, <3>1, <3>2, Zenon
  <2>4. \A i, j \in DOMAIN idle_list_' : idle_list_'[i] = idle_list_'[j] => i = j
    <3>1. \A i \in 1 .. Len(idle_list_) : idle_list_[i] # h
      BY <1>3, <2>2 DEF Tables, TablesAgree
    <3>2. \A i, j \in 1 .. Len(idle_list_) : idle_list_[i] = idle_list_[j] => i = j
      BY <2>2 DEF Tables, TablesAgree
    <3> QED
      BY <2>2, <3>1, <3>2
  <2>5. Live' \cap Waiting' = {}
    BY <1>3, <1>7 DEF Tables, TablesAgree
  <2>6. \A r \in ready' : conns_'[r.fd] = r.who
    BY <1>1, <1>4, <1>6, LoopAssumption DEF Tables, TablesAgree, Types, Event
  <2> QED
    BY <1>1, <2>1, <2>3, <2>4, <2>5, <2>6 DEF TablesAgree
<1>11. Order'
  BY <1>1, <1>3, <1>7, <1>8 DEF Tables, Order
<1> QED
  BY <1>1, <1>3, <1>7, <1>8, <1>9, <1>10, <1>11 DEF Tables, h

\* The refresh of a ready connection: it is still there, and moves to the back.
LEMMA TouchShape ==
  ASSUME Tables, Touch
  PROVE  LET r == First(ready)
             c == r.who
         IN  /\ Tables' /\ pc = "conns" /\ r \in ready /\ r \in Event /\ c \in Live
             /\ c \in Clients /\ c = c_' /\ cur' = r /\ ready' = ready \ {r}
             /\ pc' = IF "in" \in r.re THEN "read" ELSE "write"
             /\ UNCHANGED <<conns_, now, backlog, peer, rx, tx, sent, got>>
             /\ Without(idle_list_, c, Detached(idle_list_, c))
             /\ idle_list_' = Append(Detached(idle_list_, c), c)
             /\ conn'[c] = [conn[c] EXCEPT !.last_active_ms = now]
             /\ \A d \in Clients : d # c => conn'[d] = conn[d]
<1> DEFINE r == First(ready)
           c == conns_[r.fd]
           rest == Detached(idle_list_, c)
<1>1. pc = "conns" /\ ready # {}
  BY DEF Touch
<1>2. r \in ready /\ r \in Event
  BY <1>1, FirstReady
<1> HIDE DEF r
<1>3. r.fd \in Fds /\ c = r.who /\ c \in Clients /\ c # None
  BY <1>2, LoopAssumption DEF Tables, TablesAgree, Event
<1>4. /\ ready' = ready \ {r}
      /\ conn' = [conn EXCEPT ![c].last_active_ms = now]
      /\ idle_list_' = Append(rest, c) /\ cur' = r
      /\ pc' = IF "in" \in r.re THEN "read" ELSE "write"
      /\ UNCHANGED <<accepting, conns_, now, backlog, peer, rx, tx, sent, got>>
  BY <1>3 DEF Touch, Refreshed, net, r
<1>5. c \in Live /\ c_' = c
  BY <1>3, <1>4 DEF Live, c_
<1> HIDE DEF c
<1>6. /\ idle_list_ \in Seq(Clients) /\ {idle_list_[i] : i \in DOMAIN idle_list_} = Live
      /\ Distinct(idle_list_)
  BY Zenon DEF Tables, Types, TablesAgree, Distinct
<1>7. Without(idle_list_, c, rest)
  BY <1>5, <1>6, DetachedList
<1> HIDE DEF rest
<1>8. /\ rest \in Seq(Clients) /\ {rest[i] : i \in DOMAIN rest} = Live \ {c}
      /\ \A i, j \in DOMAIN rest : rest[i] = rest[j] => i = j
  BY <1>6, <1>7, Zenon DEF Without
<1>9. /\ DOMAIN rest = 1 .. Len(rest) /\ Len(rest) \in Nat
      /\ DOMAIN idle_list_' = (1 .. Len(rest)) \cup {Len(rest) + 1}
      /\ idle_list_'[Len(rest) + 1] = c /\ idle_list_' \in Seq(Clients)
      /\ \A i \in 1 .. Len(rest) : idle_list_'[i] = rest[i]
  BY <1>3, <1>4, <1>8
<1>10. /\ conn' \in [Clients -> Conns] /\ conn'[c] = [conn[c] EXCEPT !.last_active_ms = now]
       /\ \A d \in Clients : d # c => conn'[d] = conn[d]
  <2>1. conn \in [Clients -> Conns] /\ now \in Nat
    BY DEF Tables, Types
  <2>2. conn' = [conn EXCEPT ![c] = [@ EXCEPT !.last_active_ms = now]]
    BY <1>3, <1>4, <2>1, Zenon
  <2> QED
    BY <1>3, <2>1, <2>2, Zenon DEF Conns
<1>11. Live' = Live /\ Waiting' = Waiting /\ Handling'
  BY <1>4 DEF Live, Waiting, Handling
<1>12. Types'
  BY <1>2, <1>4, <1>9, <1>10, Zenon DEF Tables, Types
<1>13. TablesAgree'
  <2>1. {idle_list_'[i] : i \in DOMAIN idle_list_'} = Live'
    <3>1. {idle_list_'[i] : i \in DOMAIN idle_list_'} = {rest[i] : i \in DOMAIN rest} \cup {c}
      BY <1>9
    <3> QED
      BY <1>5, <1>8, <1>11, <3>1
  <2>2. \A i, j \in DOMAIN idle_list_' : idle_list_'[i] = idle_list_'[j] => i = j
    <3>1. \A i \in 1 .. Len(rest) : rest[i] # c
      <4>1. \A x \in {rest[i] : i \in DOMAIN rest} : x # c
        BY <1>8, Zenon
      <4> QED
        BY <1>9, <4>1
    <3>2. \A i, j \in 1 .. Len(rest) : rest[i] = rest[j] => i = j
      BY <1>8, <1>9
    <3> QED
      BY <1>9, <3>1, <3>2
  <2>3. conns_'[cur'.fd] = cur'.who
    BY <1>3, <1>4 DEF c
  <2> QED
    BY <1>4, <1>11, <2>1, <2>2, <2>3 DEF Tables, TablesAgree
<1>14. Order'
  BY <1>1, <1>2, <1>4, <1>5, <1>10, <1>11 DEF Tables, Order
<1> QED
  BY <1>1, <1>2, <1>3, <1>4, <1>5, <1>7, <1>10, <1>12, <1>13, <1>14 DEF Tables, r, rest

\* Every step keeps the tables.
LEMMA TablesNext ==
  ASSUME Tables, [Next]_vars
  PROVE  Tables'
<1>1. ASSUME NEW c \in Clients, Client(c) PROVE Tables'
  BY <1>1, ClientTables
<1>2. Handler \/ Quiet \/ PollReturn \/ AcceptClosed \/ accept_new \/ Touch \/ CloseCheck
      \/ process_timers \/ \E c \in Clients : Client(c)
  BY DEF Next, run, Handler, Quiet
<1> QED
  BY <1>1, <1>2, HandlerTables, QuietTables, ReturnShape, AcceptClosedShape, AcceptShape,
     TouchShape, CloseShape, SweepShape, Zenon

\* The tables agree, with the order of events and connections, in every state.
THEOREM TablesInvariant == Spec => []Tables
<1>1. Tables /\ [Next]_vars => Tables'
  BY TablesNext
<1> QED
  BY TablesInit, <1>1, PTL DEF Spec

(* The descriptor table, the idle list and the pending poll results speak  *)
(* of the same connections, each at one descriptor and at one place of the *)
(* list, whatever is accepted, closed or swept between poll() and the      *)
(* handling of its last event.                                             *)
THEOREM TablesSafe == Spec => []TablesAgree
<1>1. Tables => TablesAgree
  BY DEF Tables
<1> QED
  BY TablesInvariant, <1>1, PTL
=============================================================================
