------------------------------- MODULE MCWire -------------------------------
(* Wire with short strings: commands and replies on both sides of MAX_MSG, *)
(* and every body of a few bytes.                                          *)
EXTENDS Wire

CONSTANTS Sent,      \* the bytes that other programs send
          MaxBody    \* how many

UpTo(S, n) == UNION {[1 .. k -> S] : k \in 0 .. n}

NameOfKEYS == <<0, 5>>
NameOfSET == <<1>>

MCCommands == UpTo({<<>>, <<1>>, <<0, 5>>}, 3) \ {<<>>}
MCBodies == UpTo(Sent, MaxBody) \cup {[i \in 1 .. MAX_MSG + 1 |-> 0]}

\* No key, one, and two whose listing is longer than MAX_MSG, in either order.
Key1 == <<4>>
Key2 == <<0>>
MCStored == {<<>>, <<Key1>>, <<Key1, Key2>>, <<Key2, Key1>>}

Nil == [tag |-> "nil"]
Str(s) == [tag |-> "str", str |-> s]
Num(n) == [tag |-> "int", n |-> n]
Dbl(n) == [tag |-> "dbl", n |-> n]
Err(code) == [tag |-> "err", code |-> code, str |-> <<1>>]

\* By the number of strings: ERR_UNKNOWN, and what the commands of that length send.
MCReplies ==
  {<<n, <<Err(1)>>>> : n \in 1 .. k_max_args}
  \cup {<<2, <<t>>>> : t \in {Nil, Str(<<>>), Str(<<3, 0>>), Num(7), Err(3)}}
  \cup {<<3, <<t>>>> : t \in {Nil, Num(0), Dbl(40), Err(2), Err(3)}}
=============================================================================
