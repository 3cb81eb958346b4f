-------------------------------- MODULE Wire --------------------------------
(***************************************************************************)
(* The wire format from end to end: the command-line client                *)
(* (client/client.cpp) encodes a command, the server parses it             *)
(* (src/protocol/wire.cpp) and serializes a typed reply                    *)
(* (src/protocol/serialize.cpp), and the client decodes and prints it,     *)
(* over a stream that read() and write() cut anywhere and that may end     *)
(* early.  Other programs send frames with bodies of any bytes.            *)
(*                                                                         *)
(* A u32 is Width bytes in base Base, least significant first, and the     *)
(* eight-byte integers and doubles are two of them; in the code Width is 4 *)
(* and Base 256.  The database is shared with other connections and is not *)
(* modelled here: KEYS may find any list of Stored, and another command    *)
(* may have any of the replies that commands of its length have.           *)
(***************************************************************************)
EXTENDS Integers, Sequences

CONSTANTS Width, Base,   \* bytes per u32, and values per byte
          MAX_MSG,       \* longest frame body
          k_max_args,    \* most arguments in a request
          Commands,      \* argument lists typed at the client
          Bodies,        \* bodies that other programs send
          KEYS, SET,     \* the names of the two commands, as bytes
          Stored,        \* lists of keys that the index may hold, in bucket order
          Replies,       \* pairs <<n, r>>: other commands of n strings may reply r
          MaxCmds        \* bound: commands per session

-----------------------------------------------------------------------------
(* Words, requests and replies as bytes. *)

Byte == 0 .. Base - 1
After(s, n) == SubSeq(s, n + 1, Len(s))

\* The pieces one after the other.
Joined(pieces) ==
  LET joined[k \in 0 .. Len(pieces)] == IF k = 0 THEN <<>> ELSE joined[k - 1] \o pieces[k]
  IN  joined[Len(pieces)]

\* v with its k low bytes shifted out, for each k up to w.
Shifted(v, w) ==
  LET shifted[k \in 0 .. w] == IF k = 0 THEN v ELSE shifted[k - 1] \div Base
  IN  shifted
Fits(v, w) == v \in Nat /\ Shifted(v, w)[w] = 0
\* The w low bytes of v in memory order, and the number in the first w bytes of s.
Bytes(v, w) == [i \in 1 .. w |-> Shifted(v, w)[i - 1] % Base]
Number(s, w) ==
  LET value[k \in 0 .. w] == IF k = 0 THEN 0 ELSE s[w - k + 1] + Base * value[k - 1]
  IN  value[w]

write_u32(v) == Bytes(v, Width)
read_u32(s) == Number(s, Width)
Sized(s) == write_u32(Len(s)) \o s

\* The request body that the client builds.
Encode(args) == write_u32(Len(args)) \o Joined([i \in DOMAIN args |-> Sized(args[i])])

\* One turn of parse_req's loop: `data` is left of the body, `out` has been read.
Argument(st) ==
  LET len == read_u32(st.data)
      rest == After(st.data, Width)
  IN  IF st.rc # 0 THEN st
      ELSE IF Len(st.data) < Width \/ Len(rest) < len THEN [st EXCEPT !.rc = -1]
      ELSE [rc |-> 0, data |-> After(rest, len), out |-> Append(st.out, SubSeq(rest, 1, len))]

Arguments(data, nstr) ==
  LET loop[k \in 0 .. nstr] ==
        IF k = 0 THEN [rc |-> 0, data |-> data, out |-> <<>>] ELSE Argument(loop[k - 1])
  IN  loop[nstr]

Unparsed == [rc |-> 0, data |-> <<>>, out |-> <<>>]

\* Slip: bytes after the last argument are ignored.
parse_req_trailing(data) ==
  IF Len(data) < Width \/ read_u32(data) > k_max_args THEN [Unparsed EXCEPT !.rc = -1]
  ELSE Arguments(After(data, Width), read_u32(data))
parse_req(data) ==
  IF Len(data) < Width \/ read_u32(data) > k_max_args THEN [Unparsed EXCEPT !.rc = -1]
  ELSE LET end == Arguments(After(data, Width), read_u32(data))
       IN  IF end.data # <<>> THEN [end EXCEPT !.rc = -1] ELSE end

SER_NIL == 0
SER_ERR == 1
SER_STR == 2
SER_INT == 3
SER_DBL == 4
SER_ARR == 5

(* A reply is the sequence of out_ calls that build it: out_nil, out_err,  *)
(* out_str, out_int, out_dbl, and out_arr followed by its elements.  The   *)
(* count that out_end_arr patches into the placeholder of out_begin_arr    *)
(* ends up in the bytes that out_arr writes.                               *)
Out(t) ==
  CASE t.tag = "nil" -> <<SER_NIL>>
    [] t.tag = "err" -> <<SER_ERR>> \o write_u32(t.code) \o Sized(t.str)
    [] t.tag = "str" -> <<SER_STR>> \o Sized(t.str)
    [] t.tag = "int" -> <<SER_INT>> \o Bytes(t.n, 2 * Width)
    [] t.tag = "dbl" -> <<SER_DBL>> \o Bytes(t.n, 2 * Width)
    [] t.tag = "arr" -> <<SER_ARR>> \o write_u32(t.n)

serialize(r) == Joined([i \in DOMAIN r |-> Out(r[i])])

\* The values that a call announces, and those still missing after k calls.
Elements(t) == IF t.tag = "arr" THEN t.n ELSE 0
Missing(r) ==
  LET missing[k \in 0 .. Len(r)] == IF k = 0 THEN 1 ELSE missing[k - 1] - 1 + Elements(r[k])
  IN  missing

Number64 == {v \in Nat : Fits(v, 2 * Width)}
Number32 == {v \in Nat : Fits(v, Width)}
Calls ==
  [tag : {"nil"}] \cup [tag : {"str"}, str : Seq(Byte)]
  \cup [tag : {"err"}, code : Number32, str : Seq(Byte)]
  \cup [tag : {"int", "dbl"}, n : Number64] \cup [tag : {"arr"}, n : Number32]

\* The calls of r build one value, whose bytes a frame header can count.
IsReply(r) ==
  /\ r \in Seq(Calls) /\ Fits(Len(serialize(r)), Width)
  /\ Missing(r)[Len(r)] = 0 /\ \A k \in 0 .. Len(r) - 1 : Missing(r)[k] > 0

\* ERR_ARG, for a bad request and for an empty command, whatever its text says.
ErrArg == <<[tag |-> "err", code |-> 2, str |-> <<>>]>>
\* do_keys: every key that is stored, however many there are.
Listing(keys) ==
  <<[tag |-> "arr", n |-> Len(keys)]>> \o [i \in DOMAIN keys |-> [tag |-> "str", str |-> keys[i]]]

\* What do_request may reply to a command.
Answers(args) ==
  IF args = <<>> THEN {ErrArg}
  ELSE IF args = <<KEYS>> THEN {Listing(keys) : keys \in Stored}
  ELSE {p[2] : p \in {q \in Replies : q[1] = Len(args)}}

ASSUME WireAssumption ==
  /\ Width \in Nat \ {0} /\ Base \in Nat /\ Base > 5
  /\ Fits(MAX_MSG, Width) /\ k_max_args \in Nat /\ MaxCmds \in Nat
  /\ (k_max_args + 1) * Width > MAX_MSG   \* "MAX_MSG bounds the payload anyway" (wire.cpp:6)
  /\ Commands \subseteq Seq(Seq(Byte))
  /\ \A b \in Bodies : b \in Seq(Byte) /\ Fits(Len(b), Width)
  /\ KEYS \in Seq(Byte) /\ SET \in Seq(Byte) /\ KEYS # SET
  /\ IsReply(ErrArg) /\ \A p \in Replies : p[1] \in Nat /\ IsReply(p[2])
  /\ Stored \subseteq Seq(Seq(Byte))
  /\ \A keys \in Stored :
       /\ Fits(Len(keys), Width) /\ Fits(Len(serialize(Listing(keys))), Width)
       /\ \A i \in DOMAIN keys :      \* a command can have stored each of them
            /\ Len(Encode(<<SET, keys[i], <<>>>>)) =< MAX_MSG
            /\ \A j \in DOMAIN keys : keys[i] = keys[j] => i = j

-----------------------------------------------------------------------------
(* print_value, on the bytes of a reply. *)

\* What one value at the start of q takes: its bytes, the line printed, its elements.
Line(size, t) == [size |-> size, line |-> t, more |-> Elements(t)]
Truncated == [size |-> -1, line |-> [tag |-> "nil"], more |-> 0]

\* The string whose length is found after `at` bytes of q.
TextLen(q, at) == read_u32(After(q, at))
Text(q, at) == SubSeq(q, at + Width + 1, at + Width + TextLen(q, at))
HasText(q, at) == Len(q) >= at + Width /\ Len(q) >= at + Width + TextLen(q, at)

FirstValue(q) ==
  IF q = <<>> THEN Truncated
  ELSE CASE q[1] = SER_NIL -> Line(1, [tag |-> "nil"])
         [] q[1] = SER_INT /\ Len(q) >= 1 + 2 * Width ->
              Line(1 + 2 * Width, [tag |-> "int", n |-> Number(After(q, 1), 2 * Width)])
         [] q[1] = SER_DBL /\ Len(q) >= 1 + 2 * Width ->
              Line(1 + 2 * Width, [tag |-> "dbl", n |-> Number(After(q, 1), 2 * Width)])
         [] q[1] = SER_STR /\ HasText(q, 1) ->
              Line(1 + Width + TextLen(q, 1), [tag |-> "str", str |-> Text(q, 1)])
         [] q[1] = SER_ERR /\ HasText(q, 1 + Width) ->
              Line(1 + 2 * Width + TextLen(q, 1 + Width),
                   [tag |-> "err", code |-> read_u32(After(q, 1)), str |-> Text(q, 1 + Width)])
         [] q[1] = SER_ARR /\ Len(q) >= 1 + Width ->
              Line(1 + Width, [tag |-> "arr", n |-> read_u32(After(q, 1))])
         [] OTHER -> Truncated

\* Slip: an element that could not be printed is passed over.
PrintNext_unchecked(p, st) ==
  LET v == FirstValue(After(p, st.used))
  IN  IF st.left = 0 THEN st
      ELSE IF v.size < 0 THEN [st EXCEPT !.left = st.left - 1]
      ELSE [used |-> st.used + v.size, left |-> st.left - 1 + v.more,
            lines |-> Append(st.lines, v.line)]
(* The next value of p: print_value calls itself for every element of an   *)
(* array, so `left` counts the values that the calls still open wait for.  *)
PrintNext(p, st) ==
  LET v == FirstValue(After(p, st.used))
  IN  IF st.used < 0 \/ st.left = 0 THEN st
      ELSE IF v.size < 0 THEN [st EXCEPT !.used = -1]
      ELSE [used |-> st.used + v.size, left |-> st.left - 1 + v.more,
            lines |-> Append(st.lines, v.line)]

\* What print_value returns and has printed; a value takes at least a byte.
print_value(p) ==
  LET printed[k \in 0 .. Len(p) + 1] ==
        IF k = 0 THEN [used |-> 0, left |-> 1, lines |-> <<>>]
        ELSE PrintNext(p, printed[k - 1])
  IN  printed[Len(p) + 1]

-----------------------------------------------------------------------------
VARIABLES pc,       \* what the client is doing
          unsent,   \* bytes write_all has still to write
          up, down, \* bytes on their way to the server and back
          buf,      \* bytes read_full has read
          need,     \* bytes read_full has still to read
          body,     \* the last request body sent
          cmd,      \* what parse_req made of it
          reply,    \* the value the server answered with
          resp,     \* the bytes given to print_value
          closed,   \* the server has closed the connection
          count     \* commands sent

vars == <<pc, unsent, up, down, buf, need, body, cmd, reply, resp, closed, count>>

Init ==
  /\ pc = "prompt" /\ unsent = <<>> /\ up = <<>> /\ down = <<>> /\ buf = <<>> /\ need = 0
  /\ body = <<>> /\ cmd = Unparsed /\ reply = <<>> /\ resp = <<>>
  /\ closed = FALSE /\ count = 0

-----------------------------------------------------------------------------
(* send_command: one request in flight, over blocking I/O. *)

MoreInput == pc = "prompt" /\ count < MaxCmds /\ count' = count + 1

send_command(args) ==
  /\ MoreInput
  /\ body' = Encode(args) /\ cmd' = Unparsed /\ reply' = <<>> /\ resp' = <<>>
  /\ IF Len(body') > MAX_MSG THEN pc' = "command too long" /\ UNCHANGED <<unsent, buf, need>>
     ELSE pc' = "write" /\ unsent' = Sized(body') /\ buf' = <<>> /\ need' = Width
  /\ UNCHANGED <<up, down, closed>>

\* One write() of write_all takes some bytes; after the last one the client reads.
write_all ==
  /\ pc = "write"
  /\ \E n \in 1 .. Len(unsent) :
       up' = up \o SubSeq(unsent, 1, n) /\ unsent' = After(unsent, n)
  /\ pc' = IF unsent' = <<>> THEN "header" ELSE "write"
  /\ UNCHANGED <<down, buf, need, body, cmd, reply, resp, closed, count>>

WriteFails ==
  /\ pc = "write" /\ closed /\ pc' = "failed"
  /\ UNCHANGED <<unsent, up, down, buf, need, body, cmd, reply, resp, closed, count>>

\* The header is complete: the length decides how much follows.
HeaderRead(total) ==
  /\ IF total < 1 \/ total > MAX_MSG THEN pc' = "bad reply" /\ need' = 0
     ELSE pc' = "body" /\ need' = total
  /\ UNCHANGED resp

(* One read() of read_full returns some bytes of what is left to read; the *)
(* last one ends the header or the reply, which is printed.                *)
read_full ==
  /\ pc \in {"header", "body"}
  /\ \E n \in 1 .. Len(down) :
       LET all == buf \o SubSeq(down, 1, n)
       IN  /\ n =< need /\ down' = After(down, n)
           /\ IF n < need THEN buf' = all /\ need' = need - n /\ UNCHANGED <<pc, resp>>
              ELSE /\ buf' = <<>>
                   /\ IF pc = "header" THEN HeaderRead(read_u32(all))
                      ELSE pc' = "prompt" /\ need' = 0 /\ resp' = all
  /\ UNCHANGED <<unsent, up, body, cmd, reply, closed, count>>

\* Slip: only a negative result of read() ends the loop, not end of file.
ReadFails_retried ==
  /\ pc \in {"header", "body"} /\ closed
  /\ UNCHANGED vars
\* End of file, or a reset that discards what is on its way, before the last byte.
ReadFails ==
  /\ pc \in {"header", "body"} /\ closed /\ pc' = "failed"
  /\ UNCHANGED <<unsent, up, down, buf, need, body, cmd, reply, resp, closed, count>>

\* Another program's frame, in one piece.
OtherProgram(b) ==
  /\ MoreInput /\ pc' = "other program"
  /\ body' = b /\ up' = Sized(b) /\ cmd' = Unparsed /\ reply' = <<>> /\ resp' = <<>>
  /\ UNCHANGED <<unsent, down, buf, need, closed>>

-----------------------------------------------------------------------------
(* The server: try_one_request on what has arrived. *)

try_one_request ==
  /\ ~ closed /\ Len(up) >= Width /\ read_u32(up) =< MAX_MSG
  /\ Len(up) >= Width + read_u32(up)
  /\ cmd' = parse_req(SubSeq(up, Width + 1, Width + read_u32(up)))
  /\ \E r \in IF cmd'.rc # 0 THEN {ErrArg} ELSE Answers(cmd'.out) :
       reply' = r /\ down' = down \o Sized(serialize(r))
  /\ up' = After(up, Width + read_u32(up))
  /\ UNCHANGED <<pc, unsent, buf, need, body, resp, closed, count>>

\* try_one_request's want_close, an idle timeout or a restart.
ServerCloses ==
  /\ ~ closed /\ closed' = TRUE
  /\ UNCHANGED <<pc, unsent, up, down, buf, need, body, cmd, reply, resp, count>>

-----------------------------------------------------------------------------
Progress == write_all \/ WriteFails \/ read_full \/ ReadFails \/ try_one_request

Next ==
  \/ Progress \/ ServerCloses
  \/ \E a \in Commands : send_command(a)
  \/ \E b \in Bodies : OtherProgram(b)

Spec == Init /\ [][Next]_vars
\* Bytes move, and the server answers what reaches it.
FairSpec == Spec /\ WF_vars(Progress)

-----------------------------------------------------------------------------
(* Properties. *)

\* Lists of pieces of b: if b encodes a command at all, it encodes one of them.
ArgLists(b) ==
  LET pieces == {SubSeq(b, i, j) : i \in 1 .. Len(b) + 1, j \in 0 .. Len(b)}
  IN  UNION {[1 .. n -> pieces] : n \in {m \in 0 .. k_max_args : (m + 1) * Width =< Len(b)}}

(* The parser accepts exactly the bodies that encode a command, and gives  *)
(* back the arguments that were encoded: no truncated, overrunning or      *)
(* trailing bytes pass, and a client's command is never refused.           *)
ParseExact ==
  reply # <<>> =>
    IF cmd.rc # 0 THEN \A args \in ArgLists(body) : Encode(args) # body
    ELSE Encode(cmd.out) = body

(* What the client prints is the value the server replied with, however    *)
(* the reply was cut up, and the next command finds both streams empty; a  *)
(* reply that is cut short is noticed by its own lengths ("every length is *)
(* checked", client.cpp:42); the client gives up on a complete reply only  *)
(* when that is longer than MAX_MSG.                                       *)
ReplyExact ==
  reply # <<>> =>
    LET s == serialize(reply)
    IN  /\ pc = "prompt" =>
             print_value(resp).lines = reply /\ <<unsent, up, down>> = <<<<>>, <<>>, <<>>>>
        /\ pc = "bad reply" => Len(s) > MAX_MSG
        /\ print_value(s) = [used |-> Len(s), left |-> 0, lines |-> reply]
        /\ \A n \in 0 .. Len(s) - 1 : print_value(SubSeq(s, 1, n)).used < 0

(* "Every message in both directions is a frame" and "length <= 32768      *)
(* (MAX_MSG)" (README.md:593 and :598): a reply is never longer than the   *)
(* client accepts (client.cpp:115).                                        *)
RepliesFit == reply # <<>> => Len(serialize(reply)) =< MAX_MSG

\* Every command ends: with its reply, or with an error.
CommandsEnd ==
  pc \in {"write", "header", "body"} ~>
    pc \in {"prompt", "bad reply", "failed"}
=============================================================================
