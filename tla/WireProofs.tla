----------------------------- MODULE WireProofs -----------------------------
(***************************************************************************)
(* Proofs about Wire for words of any width, any base and any limits: the  *)
(* parser accepts exactly the encodings, and the client prints exactly     *)
(* the value that was serialized.  The loops are recursive functions of    *)
(* the turn; what they compute is shown by induction on the turn.          *)
(***************************************************************************)
EXTENDS Wire, WellFoundedInduction, TLAPS

-----------------------------------------------------------------------------
(* Induction up to a bound, and the existence of iterated functions. *)

LEMMA LeastNat ==
  ASSUME NEW S \in SUBSET Nat, S # {}
  PROVE  \E m \in S : \A x \in S : m =< x
<1> DEFINE lt == {ss \in Nat \X Nat : ss[1] < ss[2]}
<1>1. IsWellFoundedOn(lt, Nat)
  BY NatLessThanWellFounded, Zenon DEF OpToRel
<1>2. PICK m \in S : \A x \in S : ~ (<<x, m>> \in lt)
  <2> HIDE DEF lt
  <2> QED
    BY <1>1, WFMin, Zenon
<1>3. \A x \in S : ~ (x < m)
  BY <1>2, Zenon
<1> QED
  BY <1>3

\* Induction over 0 .. n: T holds the numbers for which the claim is true.
LEMMA Climb ==
  ASSUME NEW n \in Nat, NEW T, 0 \in T, \A k \in 1 .. n : k - 1 \in T => k \in T
  PROVE  \A k \in 0 .. n : k \in T
<1> SUFFICES ASSUME NEW k \in 0 .. n, k \notin T PROVE FALSE
  OBVIOUS
<1> DEFINE S == {i \in 0 .. n : i \notin T}
<1>1. S \in SUBSET Nat /\ S # {}
  OBVIOUS
<1>2. PICK m \in S : \A x \in S : m =< x
  <2> HIDE DEF S
  <2> QED
    BY <1>1, LeastNat
<1>3. m \in 1 .. n /\ m - 1 \in 0 .. n
  OBVIOUS
<1>4. m - 1 \in T
  BY <1>2, <1>3
<1> QED
  BY <1>3, <1>4

\* f iterates the step function G from a, n times.
Iterates(f, S, a, n, G) ==
  f \in [0 .. n -> S] /\ f[0] = a /\ \A k \in 1 .. n : f[k] = G[<<f[k - 1], k>>]

\* A step function can be iterated any number of times from a first value.
LEMMA Iterate ==
  ASSUME NEW S, NEW a \in S, NEW n \in Nat, NEW G \in [S \X (1 .. n) -> S]
  PROVE  \E f : Iterates(f, S, a, n, G)
<1> DEFINE Good(m, f) == f[0] = a /\ \A k \in 1 .. m : f[k] = G[<<f[k - 1], k>>]
           T == {m \in 0 .. n : \E f \in [0 .. m -> S] : Good(m, f)}
<1>1. 0 \in T
  <2> DEFINE f == [k \in 0 .. 0 |-> a]
  <2>1. f \in [0 .. 0 -> S] /\ f[0] = a /\ \A k \in 1 .. 0 : FALSE
    OBVIOUS
  <2>2. Good(0, f)
    <3> HIDE DEF f
    <3> QED
      BY <2>1, Zenon
  <2> HIDE DEF f, Good
  <2> QED
    BY <2>1, <2>2
<1>2. \A m \in 1 .. n : m - 1 \in T => m \in T
  <2> SUFFICES ASSUME NEW m \in 1 .. n, m - 1 \in T PROVE m \in T
    OBVIOUS
  <2>1. PICK f \in [0 .. m - 1 -> S] : Good(m - 1, f)
    OBVIOUS
  <2> DEFINE b == G[<<f[m - 1], m>>]
             g == [k \in 0 .. m |-> IF k = m THEN b ELSE f[k]]
  <2>2. f[m - 1] \in S
    BY <2>1
  <2>3. b \in S
    BY <2>2
  <2>4. g \in [0 .. m -> S] /\ g[0] = f[0] /\ g[m] = b /\ \A k \in 0 .. m - 1 : g[k] = f[k]
    <3> HIDE DEF b
    <3> QED
      BY <2>1, <2>3
  <2>5. Good(m, g)
    <3> SUFFICES ASSUME NEW k \in 1 .. m PROVE g[k] = G[<<g[k - 1], k>>]
      BY <2>1, <2>4
    <3> CASE k = m
      <4> HIDE DEF g
      <4>1. g[k - 1] = f[m - 1]
        BY <2>4
      <4> QED
        BY <2>4, <4>1, Zenon
    <3> CASE k # m
      <4> HIDE DEF g, b
      <4>1. k \in 1 .. m - 1 /\ k - 1 \in 0 .. m - 1 /\ k \in 0 .. m - 1
        OBVIOUS
      <4>2. g[k] = f[k] /\ g[k - 1] = f[k - 1]
        BY <2>4, <4>1
      <4> QED
        BY <2>1, <4>1, <4>2, Zenon
    <3> QED
      OBVIOUS
  <2> HIDE DEF g, Good
  <2> QED
    BY <2>4, <2>5
<1>3. n \in T
  <2> HIDE DEF T
  <2>1. \A k \in 0 .. n : k \in T
    BY <1>1, <1>2, Climb, Zenon
  <2> QED
    BY <2>1
<1> QED
  BY <1>3, Zenon DEF Iterates

-----------------------------------------------------------------------------
(* Words. *)

LEMMA DivMod ==
  ASSUME NEW x \in Nat, NEW b \in Nat, b > 0
  PROVE  x \div b \in Nat /\ x % b \in 0 .. b - 1 /\ x = (x % b) + b * (x \div b)
<1>1. x \div b \in Int /\ x \div b >= 0
  OBVIOUS
<1>2. x % b \in 0 .. b - 1
  OBVIOUS
<1>3. x % b = x - b * (x \div b)
  OBVIOUS
<1>4. PICK q \in Int : q = x \div b
  BY <1>1
<1>5. PICK p \in Int : p = b * q
  OBVIOUS
<1>6. x % b = x - p
  BY <1>3, <1>4, <1>5
<1>7. x = (x % b) + p
  BY <1>2, <1>6
<1> QED
  BY <1>1, <1>2, <1>4, <1>5, <1>7

LEMMA BaseType == Base \in Nat /\ Base > 0
BY WireAssumption

LEMMA ShiftedStep ==
  ASSUME NEW v \in Nat, NEW w \in Nat
  PROVE  /\ Shifted(v, w) \in [0 .. w -> Nat] /\ Shifted(v, w)[0] = v
         /\ \A k \in 1 .. w : Shifted(v, w)[k] = Shifted(v, w)[k - 1] \div Base
<1> DEFINE G == [p \in Nat \X (1 .. w) |-> p[1] \div Base]
           Def(f) == f = [k \in 0 .. w |-> IF k = 0 THEN v ELSE f[k - 1] \div Base]
           s == Shifted(v, w)
<1>2. \A x \in Nat : x \div Base \in Nat
  BY BaseType, DivMod
<1>3. G \in [Nat \X (1 .. w) -> Nat]
  BY <1>2
<1>4. \A x \in Nat, k \in 1 .. w : G[<<x, k>>] = x \div Base
  OBVIOUS
<1>5. PICK f : Iterates(f, Nat, v, w, G)
  <2> HIDE DEF G
  <2> QED
    BY <1>3, Iterate
<1> HIDE DEF G
<1> USE <1>5 DEF Iterates
<1>6. \A k \in 1 .. w : f[k] = f[k - 1] \div Base
  <2> SUFFICES ASSUME NEW k \in 1 .. w PROVE f[k] = f[k - 1] \div Base
    OBVIOUS
  <2>1. f[k - 1] \in Nat
    BY <1>5
  <2> QED
    BY <1>4, <1>5, <2>1, Zenon
<1>7. Def(f)
  BY <1>5, <1>6
<1>8. s = CHOOSE g : Def(g)
  BY DEF Shifted
<1> HIDE DEF s
<1>9. Def(s)
  <2> HIDE DEF Def
  <2> QED
    BY <1>7, <1>8, Zenon
<1>10. s[0] = v /\ \A k \in 1 .. w : s[k] = s[k - 1] \div Base
  BY <1>9
<1> DEFINE T == {k \in 0 .. w : s[k] \in Nat}
<1>11. \A k \in 0 .. w : k \in T
  <2>1. 0 \in T
    BY <1>10
  <2>2. \A k \in 1 .. w : k - 1 \in T => k \in T
    <3> SUFFICES ASSUME NEW k \in 1 .. w, s[k - 1] \in Nat PROVE s[k] \in Nat
      OBVIOUS
    <3> QED
      BY <1>2, <1>10, Zenon
  <2> HIDE DEF T
  <2> QED
    BY <2>1, <2>2, Climb, Zenon
<1>12. s \in [0 .. w -> Nat]
  <2>1. s = [k \in 0 .. w |-> s[k]]
    BY <1>9
  <2>2. \A k \in 0 .. w : s[k] \in Nat
    BY <1>11
  <2> QED
    BY <2>1, <2>2, Zenon
<1> QED
  BY <1>10, <1>12 DEF s

LEMMA BytesType ==
  ASSUME NEW v \in Nat, NEW w \in Nat
  PROVE  /\ Bytes(v, w) \in Seq(Byte) /\ Len(Bytes(v, w)) = w
         /\ \A i \in 1 .. w : Bytes(v, w)[i] = Shifted(v, w)[i - 1] % Base
<1>1. \A i \in 1 .. w : Shifted(v, w)[i - 1] \in Nat
  BY ShiftedStep
<1>2. \A x \in Nat : x % Base \in Byte
  BY BaseType, DivMod DEF Byte
<1>3. \A i \in 1 .. w : Shifted(v, w)[i - 1] % Base \in Byte
  BY <1>1, <1>2, Zenon
<1> QED
  BY <1>3 DEF Bytes

\* The digits of s, summed up from the last one.
LEMMA NumberStep ==
  ASSUME NEW w \in Nat, NEW s, \A i \in 1 .. w : s[i] \in Byte
  PROVE  \E f \in [0 .. w -> Nat] :
           /\ f[0] = 0 /\ \A k \in 1 .. w : f[k] = s[w - k + 1] + Base * f[k - 1]
           /\ Number(s, w) = f[w]
<1> DEFINE G == [p \in Nat \X (1 .. w) |-> s[w - p[2] + 1] + Base * p[1]]
           Def(f) == f = [k \in 0 .. w |-> IF k = 0 THEN 0 ELSE s[w - k + 1] + Base * f[k - 1]]
           c == CHOOSE g : Def(g)
<1>2. \A x \in Nat, k \in 1 .. w : s[w - k + 1] + Base * x \in Nat
  <2> SUFFICES ASSUME NEW x \in Nat, NEW k \in 1 .. w PROVE s[w - k + 1] + Base * x \in Nat
    OBVIOUS
  <2>1. w - k + 1 \in 1 .. w
    OBVIOUS
  <2>2. s[w - k + 1] \in Nat
    BY <2>1, BaseType DEF Byte
  <2>3. Base * x \in Nat
    BY BaseType
  <2> QED
    BY <2>2, <2>3
<1>3. G \in [Nat \X (1 .. w) -> Nat]
  BY <1>2
<1>4. \A x \in Nat, k \in 1 .. w : G[<<x, k>>] = s[w - k + 1] + Base * x
  OBVIOUS
<1>5. PICK f : Iterates(f, Nat, 0, w, G)
  <2> HIDE DEF G
  <2> QED
    BY <1>3, Iterate
<1> HIDE DEF G
<1> USE <1>5 DEF Iterates
<1>6. \A k \in 1 .. w : f[k] = s[w - k + 1] + Base * f[k - 1]
  <2> SUFFICES ASSUME NEW k \in 1 .. w PROVE f[k] = s[w - k + 1] + Base * f[k - 1]
    OBVIOUS
  <2>1. f[k - 1] \in Nat
    BY <1>5
  <2> QED
    BY <1>4, <1>5, <2>1, Zenon
<1>7. Def(f)
  <2>1. f = [k \in 0 .. w |-> f[k]]
    BY <1>5
  <2>2. \A k \in 0 .. w : f[k] = IF k = 0 THEN 0 ELSE s[w - k + 1] + Base * f[k - 1]
    <3> SUFFICES ASSUME NEW k \in 0 .. w
                 PROVE  f[k] = IF k = 0 THEN 0 ELSE s[w - k + 1] + Base * f[k - 1]
      OBVIOUS
    <3>1. k = 0 \/ k \in 1 .. w
      OBVIOUS
    <3> QED
      BY <1>5, <1>6, <3>1, Zenon
  <2> QED
    BY <2>1, <2>2, Zenon
<1>8. Number(s, w) = c[w]
  BY DEF Number
<1>9. Def(c)
  <2> HIDE DEF Def
  <2> QED
    BY <1>7, Zenon
<1> HIDE DEF c
<1>10. c[0] = 0 /\ \A k \in 1 .. w : c[k] = s[w - k + 1] + Base * c[k - 1]
  <2>1. \A k \in 0 .. w : c[k] = IF k = 0 THEN 0 ELSE s[w - k + 1] + Base * c[k - 1]
    BY <1>9, Zenon
  <2>2. 0 \in 0 .. w /\ \A k \in 1 .. w : k \in 0 .. w /\ k # 0
    OBVIOUS
  <2> QED
    BY <2>1, <2>2, Zenon
<1> DEFINE T == {k \in 0 .. w : c[k] \in Nat}
<1>11. \A k \in 0 .. w : k \in T
  <2>1. 0 \in T
    BY <1>10
  <2>2. \A k \in 1 .. w : k - 1 \in T => k \in T
    <3> SUFFICES ASSUME NEW k \in 1 .. w, c[k - 1] \in Nat PROVE c[k] \in Nat
      OBVIOUS
    <3> QED
      BY <1>2, <1>10, Zenon
  <2> HIDE DEF T
  <2> QED
    BY <2>1, <2>2, Climb, Zenon
<1>12. c \in [0 .. w -> Nat]
  <2>1. c = [k \in 0 .. w |-> c[k]]
    BY <1>9, Zenon
  <2>2. \A k \in 0 .. w : c[k] \in Nat
    BY <1>11
  <2> QED
    BY <2>1, <2>2, Zenon
<1> QED
  BY <1>8, <1>10, <1>12, Zenon
LEMMA Carry ==
  ASSUME NEW q \in Nat, NEW r \in Byte
  PROVE  (r + Base * q) \div Base = q /\ (r + Base * q) % Base = r
BY BaseType DEF Byte

\* What was written is read back, if the word holds it.
LEMMA NumberBytes ==
  ASSUME NEW v, NEW w \in Nat, Fits(v, w), NEW s,
         \A i \in 1 .. w : s[i] = Bytes(v, w)[i]
  PROVE  Number(s, w) = v
<1> DEFINE q == Shifted(v, w)
<1>1. v \in Nat /\ q[w] = 0
  BY DEF Fits
<1>2. q \in [0 .. w -> Nat] /\ q[0] = v /\ \A k \in 1 .. w : q[k] = q[k - 1] \div Base
  BY <1>1, ShiftedStep
<1>3. \A i \in 1 .. w : s[i] = q[i - 1] % Base /\ s[i] \in Byte
  <2>1. \A i \in 1 .. w : q[i - 1] \in Nat
    BY <1>2
  <2>2. \A x \in Nat : x % Base \in Byte
    BY BaseType, DivMod DEF Byte
  <2>3. \A i \in 1 .. w : s[i] = q[i - 1] % Base
    BY <1>1, BytesType
  <2> QED
    BY <2>1, <2>2, <2>3, Zenon
<1>4. PICK f \in [0 .. w -> Nat] :
        /\ f[0] = 0 /\ \A k \in 1 .. w : f[k] = s[w - k + 1] + Base * f[k - 1]
        /\ Number(s, w) = f[w]
  BY <1>3, NumberStep
<1> HIDE DEF q
<1> DEFINE T == {k \in 0 .. w : f[k] = q[w - k]}
<1>5. 0 \in T
  BY <1>1, <1>4
<1>6. \A k \in 1 .. w : k - 1 \in T => k \in T
  <2> SUFFICES ASSUME NEW k \in 1 .. w, f[k - 1] = q[w - k + 1] PROVE f[k] = q[w - k]
    <3>1. \A k \in 1 .. w : w - (k - 1) = w - k + 1
      OBVIOUS
    <3> QED
      BY <3>1
  <2>1. w - k + 1 \in 1 .. w /\ w - k \in 0 .. w /\ (w - k + 1) - 1 = w - k
    OBVIOUS
  <2>2. s[w - k + 1] = q[w - k] % Base
    BY <1>3, <2>1
  <2>3. q[w - k + 1] = q[w - k] \div Base
    BY <1>2, <2>1
  <2>4. q[w - k] \in Nat
    BY <1>2, <2>1
  <2>5. q[w - k] = (q[w - k] % Base) + Base * (q[w - k] \div Base)
    BY <2>4, BaseType, DivMod
  <2> QED
    BY <1>4, <2>2, <2>3, <2>5, Zenon
<1>7. w \in T
  <2> HIDE DEF T
  <2>1. \A k \in 0 .. w : k \in T
    BY <1>5, <1>6, Climb, Zenon
  <2> QED
    BY <2>1
<1>8. f[w] = q[0]
  BY <1>7
<1> QED
  BY <1>2, <1>4, <1>8, Zenon

\* Any bytes are those of the number they are read as.
LEMMA BytesNumber ==
  ASSUME NEW w \in Nat, NEW s, \A i \in 1 .. w : s[i] \in Byte
  PROVE  /\ Number(s, w) \in Nat /\ Fits(Number(s, w), w)
         /\ \A i \in 1 .. w : Bytes(Number(s, w), w)[i] = s[i]
<1>1. PICK f \in [0 .. w -> Nat] :
        /\ f[0] = 0 /\ \A k \in 1 .. w : f[k] = s[w - k + 1] + Base * f[k - 1]
        /\ Number(s, w) = f[w]
  BY NumberStep
<1> DEFINE v == Number(s, w)
           q == Shifted(v, w)
<1>2. v \in Nat /\ v = f[w]
  BY <1>1
<1>3. q \in [0 .. w -> Nat] /\ q[0] = v /\ \A k \in 1 .. w : q[k] = q[k - 1] \div Base
  BY <1>2, ShiftedStep
<1>4. \A i \in 1 .. w : Bytes(v, w)[i] = q[i - 1] % Base
  BY <1>2, BytesType
<1> HIDE DEF q, v
<1>5. \A j \in 1 .. w : f[w - j + 1] \div Base = f[w - j] /\ f[w - j + 1] % Base = s[j]
  <2> SUFFICES ASSUME NEW j \in 1 .. w
               PROVE  f[w - j + 1] \div Base = f[w - j] /\ f[w - j + 1] % Base = s[j]
    OBVIOUS
  <2>1. w - j + 1 \in 1 .. w /\ (w - j + 1) - 1 = w - j /\ w - (w - j + 1) + 1 = j
    OBVIOUS
  <2>2. f[w - j + 1] = s[j] + Base * f[w - j]
    BY <1>1, <2>1
  <2>3. s[j] \in Byte /\ f[w - j] \in Nat
    BY <1>1
  <2> QED
    BY <2>2, <2>3, Carry, Zenon
<1> DEFINE T == {j \in 0 .. w : q[j] = f[w - j]}
<1>6. 0 \in T
  BY <1>2, <1>3
<1>7. \A j \in 1 .. w : j - 1 \in T => j \in T
  <2> SUFFICES ASSUME NEW j \in 1 .. w, q[j - 1] = f[w - j + 1] PROVE q[j] = f[w - j]
    <3>1. \A j \in 1 .. w : w - (j - 1) = w - j + 1
      OBVIOUS
    <3> QED
      BY <3>1
  <2> QED
    BY <1>3, <1>5, Zenon
<1>8. \A j \in 0 .. w : j \in T
  <2> HIDE DEF T
  <2> QED
    BY <1>6, <1>7, Climb, Zenon
<1>9. \A j \in 0 .. w : q[j] = f[w - j]
  BY <1>8
<1>10. q[w] = 0
  BY <1>1, <1>9
<1>11. \A i \in 1 .. w : Bytes(v, w)[i] = s[i]
  <2> SUFFICES ASSUME NEW i \in 1 .. w PROVE Bytes(v, w)[i] = s[i]
    OBVIOUS
  <2>1. i - 1 \in 0 .. w /\ w - (i - 1) = w - i + 1
    OBVIOUS
  <2>2. q[i - 1] = f[w - i + 1]
    BY <1>9, <2>1
  <2> QED
    BY <1>4, <1>5, <2>2, Zenon
<1> QED
  BY <1>2, <1>10, <1>11 DEF Fits, q, v

LEMMA FitsBelow ==
  ASSUME NEW v, NEW w \in Nat, Fits(v, w), NEW u \in Nat, u =< v
  PROVE  Fits(u, w)
<1> DEFINE p == Shifted(u, w)
           q == Shifted(v, w)
<1>1. v \in Nat /\ q[w] = 0
  BY DEF Fits
<1>2. q \in [0 .. w -> Nat] /\ q[0] = v /\ \A k \in 1 .. w : q[k] = q[k - 1] \div Base
  BY <1>1, ShiftedStep
<1>3. p \in [0 .. w -> Nat] /\ p[0] = u /\ \A k \in 1 .. w : p[k] = p[k - 1] \div Base
  BY ShiftedStep
<1> HIDE DEF p, q
<1>4. \A x, y \in Nat : x =< y => x \div Base =< y \div Base
  BY BaseType
<1> DEFINE T == {k \in 0 .. w : p[k] =< q[k]}
<1>5. 0 \in T
  BY <1>2, <1>3
<1>6. \A k \in 1 .. w : k - 1 \in T => k \in T
  <2> SUFFICES ASSUME NEW k \in 1 .. w, p[k - 1] =< q[k - 1] PROVE p[k] =< q[k]
    OBVIOUS
  <2>1. p[k - 1] \in Nat /\ q[k - 1] \in Nat
    BY <1>2, <1>3
  <2> QED
    BY <1>2, <1>3, <1>4, <2>1, Zenon
<1>7. w \in T
  <2> HIDE DEF T
  <2>1. \A k \in 0 .. w : k \in T
    BY <1>5, <1>6, Climb, Zenon
  <2> QED
    BY <2>1
<1>8. p[w] = 0
  BY <1>1, <1>3, <1>7
<1> QED
  BY <1>8 DEF Fits, p

-----------------------------------------------------------------------------
(* Sequences put together from pieces. *)

LEMMA SameSeq ==
  ASSUME NEW S, NEW s \in Seq(S), NEW t \in Seq(S), Len(s) = Len(t),
         \A i \in 1 .. Len(s) : s[i] = t[i]
  PROVE  s = t
<1>1. s = [i \in 1 .. Len(s) |-> s[i]] /\ t = [i \in 1 .. Len(s) |-> t[i]]
  OBVIOUS
<1> QED
  BY <1>1, Zenon

\* r is s followed by t.
Joins(r, s, t) ==
  /\ Len(r) = Len(s) + Len(t) /\ \A i \in 1 .. Len(s) : r[i] = s[i]
  /\ \A i \in 1 .. Len(t) : r[Len(s) + i] = t[i]

LEMMA Concat ==
  ASSUME NEW S, NEW s \in Seq(S), NEW t \in Seq(S)
  PROVE  s \o t \in Seq(S) /\ Joins(s \o t, s, t)
BY DEF Joins

\* The first k pieces, joined.
LEMMA JoinedStep ==
  ASSUME NEW S, NEW ps \in Seq(Seq(S))
  PROVE  \E f \in [0 .. Len(ps) -> Seq(S)] :
           /\ f[0] = <<>> /\ \A k \in 1 .. Len(ps) : f[k] = f[k - 1] \o ps[k]
           /\ Joined(ps) = f[Len(ps)]
<1> DEFINE N == Len(ps)
           G == [p \in Seq(S) \X (1 .. N) |-> p[1] \o ps[p[2]]]
           Def(f) == f = [k \in 0 .. N |-> IF k = 0 THEN <<>> ELSE f[k - 1] \o ps[k]]
           c == CHOOSE f : Def(f)
<1>1. N \in Nat /\ \A k \in 1 .. N : ps[k] \in Seq(S)
  OBVIOUS
<1>2. G \in [Seq(S) \X (1 .. N) -> Seq(S)]
  <2>1. \A x \in Seq(S), k \in 1 .. N : x \o ps[k] \in Seq(S)
    BY <1>1, Concat
  <2> HIDE DEF N
  <2> QED
    BY <2>1
<1>3. \A x \in Seq(S), k \in 1 .. N : G[<<x, k>>] = x \o ps[k]
  OBVIOUS
<1>4. <<>> \in Seq(S)
  OBVIOUS
<1> HIDE DEF N, G
<1>5. PICK f : Iterates(f, Seq(S), <<>>, N, G)
  BY <1>1, <1>2, <1>4, Iterate
<1>6. f \in [0 .. N -> Seq(S)] /\ f[0] = <<>>
  BY <1>5, Zenon DEF Iterates
<1>7. \A k \in 1 .. N : f[k] = f[k - 1] \o ps[k]
  <2> SUFFICES ASSUME NEW k \in 1 .. N PROVE f[k] = f[k - 1] \o ps[k]
    OBVIOUS
  <2>1. k - 1 \in 0 .. N
    BY <1>1
  <2>2. f[k - 1] \in Seq(S)
    BY <1>6, <2>1, Zenon
  <2> QED
    BY <1>3, <1>5, <2>2, Zenon DEF Iterates
<1>8. Joined(ps) = f[N]
  <2>1. Def(f)
    <3>1. f = [k \in 0 .. N |-> f[k]]
      BY <1>6, Zenon
    <3>2. \A k \in 0 .. N : k = 0 \/ k \in 1 .. N
      BY <1>1
    <3>3. \A k \in 0 .. N : f[k] = IF k = 0 THEN <<>> ELSE f[k - 1] \o ps[k]
      BY <1>6, <1>7, <3>2, Zenon
    <3> QED
      BY <3>1, <3>3, Zenon
  <2>2. Def(c)
    <3> HIDE DEF Def
    <3> QED
      BY <2>1, Zenon
  <2>3. Joined(ps) = c[N]
    BY Zenon DEF Joined, N
  <2> HIDE DEF c
  <2>4. \A k \in 0 .. N : c[k] = IF k = 0 THEN <<>> ELSE c[k - 1] \o ps[k]
    BY <2>2, Zenon
  <2> DEFINE T == {k \in 0 .. N : c[k] = f[k]}
  <2>5. 0 \in T /\ N \in 0 .. N /\ \A k \in 1 .. N : k \in 0 .. N /\ k # 0
    BY <1>1, <1>6, <2>4
  <2>6. \A k \in 1 .. N : k - 1 \in T => k \in T
    <3> SUFFICES ASSUME NEW k \in 1 .. N, c[k - 1] = f[k - 1] PROVE c[k] = f[k]
      BY <2>5, Zenon
    <3> QED
      BY <1>7, <2>4, <2>5, Zenon
  <2>7. \A k \in 0 .. N : k \in T
    <3> HIDE DEF T
    <3> QED
      BY <1>1, <2>5, <2>6, Climb, Zenon
  <2> QED
    BY <2>3, <2>5, <2>7, Zenon
<1> QED
  BY <1>6, <1>7, <1>8, Zenon DEF N

\* s is the pieces ps one after the other, with off[k] the end of the k-th.
Cuts(s, ps, off) ==
  /\ off \in [0 .. Len(ps) -> Nat] /\ off[0] = 0 /\ off[Len(ps)] = Len(s)
  /\ \A k \in 1 .. Len(ps) :
       off[k] = off[k - 1] + Len(ps[k]) /\ \A i \in 1 .. Len(ps[k]) : s[off[k - 1] + i] = ps[k][i]

LEMMA JoinedCuts ==
  ASSUME NEW S, NEW ps \in Seq(Seq(S))
  PROVE  Joined(ps) \in Seq(S) /\ \E off : Cuts(Joined(ps), ps, off)
<1> DEFINE N == Len(ps)
<1>1. N \in Nat /\ \A k \in 1 .. N : ps[k] \in Seq(S)
  OBVIOUS
<1>2. PICK f \in [0 .. N -> Seq(S)] :
        /\ f[0] = <<>> /\ \A k \in 1 .. N : f[k] = f[k - 1] \o ps[k]
        /\ Joined(ps) = f[N]
  BY JoinedStep
<1> HIDE DEF N
<1>3. \A k \in 0 .. N : f[k] \in Seq(S)
  BY <1>2, Zenon
<1>4. ASSUME NEW k \in 1 .. N PROVE Joins(f[k], f[k - 1], ps[k])
  <2>1. k - 1 \in 0 .. N
    BY <1>1
  <2>2. f[k] = f[k - 1] \o ps[k] /\ f[k - 1] \in Seq(S) /\ ps[k] \in Seq(S)
    BY <1>1, <1>2, <1>3, <2>1, Zenon
  <2> QED
    BY <2>2, Concat
<1>5. \A k \in 0 .. N : Len(f[k]) \in Nat
  BY <1>3
\* Every f[k] is a prefix of the later ones.
<1> DEFINE Prefix(k, m) == /\ Len(f[k]) =< Len(f[m])
                           /\ \A j \in 1 .. Len(f[k]) : f[m][j] = f[k][j]
           T == {m \in 0 .. N : \A k \in 0 .. m : Prefix(k, m)}
<1>6. 0 \in T
  BY <1>1, <1>5
<1>7. \A m \in 1 .. N : m - 1 \in T => m \in T
  <2> SUFFICES ASSUME NEW m \in 1 .. N, \A k \in 0 .. m - 1 : Prefix(k, m - 1), NEW k \in 0 .. m
               PROVE  Prefix(k, m)
    OBVIOUS
  <2>1. CASE k = m
    BY <1>1, <1>5, <2>1
  <2>2. CASE k # m
    <3>1. k \in 0 .. m - 1 /\ k \in 0 .. N /\ m - 1 \in 0 .. N
      BY <1>1, <2>2
    <3>2. Prefix(k, m - 1)
      BY <3>1
    <3>3. Len(f[k]) \in Nat /\ Len(f[m - 1]) \in Nat /\ Len(ps[m]) \in Nat
      BY <1>1, <1>5, <3>1
    <3>a. Joins(f[m], f[m - 1], ps[m])
      BY <1>4
    <3>b. Len(f[m]) = Len(f[m - 1]) + Len(ps[m])
      BY <3>a, Zenon DEF Joins
    <3>4. Len(f[k]) =< Len(f[m])
      <4>1. \A x, y, z \in Nat : x =< y => x =< y + z
        OBVIOUS
      <4> QED
        BY <3>2, <3>3, <3>b, <4>1, Zenon
    <3>5. \A j \in 1 .. Len(f[k]) : j \in 1 .. Len(f[m - 1])
      BY <3>2, <3>3
    <3> QED
      BY <3>a, <3>2, <3>4, <3>5, Zenon DEF Joins
  <2> QED
    BY <2>1, <2>2
<1>8. \A m \in 0 .. N : m \in T
  <2> HIDE DEF T
  <2> QED
    BY <1>1, <1>6, <1>7, Climb, Zenon
<1>9. \A k \in 0 .. N : Prefix(k, N)
  BY <1>1, <1>8
<1> DEFINE off == [k \in 0 .. N |-> Len(f[k])]
<1>10. off \in [0 .. N -> Nat] /\ off[0] = 0 /\ off[N] = Len(f[N])
  BY <1>1, <1>2, <1>5
<1>11. \A k \in 0 .. N : off[k] = Len(f[k])
  OBVIOUS
<1> HIDE DEF off, T
<1>12. ASSUME NEW k \in 1 .. N
       PROVE  /\ off[k] = off[k - 1] + Len(ps[k])
              /\ \A i \in 1 .. Len(ps[k]) : f[N][off[k - 1] + i] = ps[k][i]
  <2>1. k \in 0 .. N /\ k - 1 \in 0 .. N
    BY <1>1
  <2>2. off[k] = Len(f[k]) /\ off[k - 1] = Len(f[k - 1])
    BY <1>11, <2>1, Zenon
  <2>a. Joins(f[k], f[k - 1], ps[k])
    BY <1>4
  <2>b. Len(ps[k]) \in Nat
    BY <1>1
  <2>3. Len(f[k - 1]) \in Nat /\ Len(ps[k]) \in Nat /\ Len(f[k]) = Len(f[k - 1]) + Len(ps[k])
    BY <1>5, <2>1, <2>a, <2>b, Zenon DEF Joins
  <2>4. \A i \in 1 .. Len(ps[k]) : Len(f[k - 1]) + i \in 1 .. Len(f[k])
    <3>1. \A x, y \in Nat : \A i \in 1 .. y : x + i \in 1 .. x + y
      OBVIOUS
    <3> QED
      BY <2>3, <3>1, Zenon
  <2>5. Prefix(k, N)
    BY <1>9, <2>1
  <2> QED
    BY <2>a, <2>2, <2>3, <2>4, <2>5, Zenon DEF Joins
<1> QED
  <2>1. f[N] \in Seq(S)
    BY <1>1, <1>3
  <2>2. Joined(ps) = f[N] /\ N = Len(ps)
    BY <1>2 DEF N
  <2> QED
    <3>1. Cuts(f[N], ps, off)
      BY <1>10, <1>12, <2>2, Zenon DEF Cuts
    <3> QED
      BY <2>1, <2>2, <3>1, Zenon

LEMMA CutsJoined ==
  ASSUME NEW S, NEW ps \in Seq(Seq(S)), NEW s \in Seq(S), NEW off, Cuts(s, ps, off)
  PROVE  s = Joined(ps)
<1> DEFINE N == Len(ps)
<1>1. N \in Nat /\ \A k \in 1 .. N : ps[k] \in Seq(S)
  OBVIOUS
<1>2. PICK f \in [0 .. N -> Seq(S)] :
        /\ f[0] = <<>> /\ \A k \in 1 .. N : f[k] = f[k - 1] \o ps[k]
        /\ Joined(ps) = f[N]
  BY JoinedStep
<1>3. /\ off \in [0 .. N -> Nat] /\ off[0] = 0 /\ off[N] = Len(s)
      /\ \A k \in 1 .. N : off[k] = off[k - 1] + Len(ps[k])
                           /\ \A i \in 1 .. Len(ps[k]) : s[off[k - 1] + i] = ps[k][i]
  BY DEF Cuts
<1> HIDE DEF N
<1>4. \A k \in 0 .. N : f[k] \in Seq(S) /\ off[k] \in Nat
  BY <1>2, <1>3, Zenon
<1> DEFINE Same(k) == Len(f[k]) = off[k] /\ \A j \in 1 .. off[k] : f[k][j] = s[j]
           T == {k \in 0 .. N : Same(k)}
<1>5. 0 \in T
  BY <1>1, <1>2, <1>3
<1>6. \A k \in 1 .. N : k - 1 \in T => k \in T
  <2> SUFFICES ASSUME NEW k \in 1 .. N, Same(k - 1) PROVE Same(k)
    <3>1. \A k \in 1 .. N : k \in 0 .. N
      BY <1>1
    <3> QED
      BY <3>1, Zenon
  <2>1. k - 1 \in 0 .. N
    BY <1>1
  <2>2. f[k] = f[k - 1] \o ps[k] /\ f[k - 1] \in Seq(S) /\ ps[k] \in Seq(S) /\ off[k - 1] \in Nat
    BY <1>1, <1>2, <1>4, <2>1, Zenon
  <2>a. Joins(f[k], f[k - 1], ps[k])
    BY <2>2, Concat
  <2>3. /\ Len(f[k]) = Len(f[k - 1]) + Len(ps[k])
        /\ \A i \in 1 .. Len(f[k - 1]) : f[k][i] = f[k - 1][i]
        /\ \A i \in 1 .. Len(ps[k]) : f[k][Len(f[k - 1]) + i] = ps[k][i]
    BY <2>a, Zenon DEF Joins
  <2>4. off[k] = off[k - 1] + Len(ps[k]) /\ \A i \in 1 .. Len(ps[k]) : s[off[k - 1] + i] = ps[k][i]
    BY <1>3, Zenon
  <2>5. Len(ps[k]) \in Nat
    BY <2>2
  <2>6. ASSUME NEW j \in 1 .. off[k] PROVE f[k][j] = s[j]
    <3>1. CASE j =< off[k - 1]
      <4>1. j \in 1 .. off[k - 1]
        BY <2>2, <3>1
      <4> QED
        BY <2>3, <4>1, Zenon
    <3>2. CASE ~ (j =< off[k - 1])
      <4>1. j - off[k - 1] \in 1 .. Len(ps[k]) /\ off[k - 1] + (j - off[k - 1]) = j
        <5>1. off[k] = off[k - 1] + Len(ps[k]) /\ j \in 1 .. off[k]
          BY <2>4, Zenon
        <5>2. j \in 1 .. off[k - 1] + Len(ps[k])
          BY <5>1, Zenon
        <5>3. \A a, l \in Nat : \A x \in 1 .. a + l :
                ~ (x =< a) => x - a \in 1 .. l /\ a + (x - a) = x
          OBVIOUS
        <5> QED
          BY <2>2, <2>5, <3>2, <5>2, <5>3, Zenon
      <4>2. /\ f[k][off[k - 1] + (j - off[k - 1])] = ps[k][j - off[k - 1]]
            /\ s[off[k - 1] + (j - off[k - 1])] = ps[k][j - off[k - 1]]
        BY <2>3, <2>4, <4>1, Zenon
      <4> QED
        BY <4>1, <4>2, Zenon
    <3> QED
      BY <3>1, <3>2, Zenon
  <2> QED
    BY <2>3, <2>4, <2>6, Zenon
<1>7. \A k \in 0 .. N : k \in T
  <2> HIDE DEF T
  <2> QED
    BY <1>1, <1>5, <1>6, Climb, Zenon
<1>8. Same(N) /\ f[N] \in Seq(S)
  BY <1>1, <1>4, <1>7
<1>9. s = f[N]
  BY <1>3, <1>8, SameSeq, Zenon
<1> QED
  BY <1>2, <1>9, Zenon

\* q begins with the bytes of x.
Begins(q, x) == Len(q) >= Len(x) /\ \A i \in 1 .. Len(x) : q[i] = x[i]

LEMMA AfterShape ==
  ASSUME NEW S, NEW s \in Seq(S), NEW n \in 0 .. Len(s)
  PROVE  /\ After(s, n) \in Seq(S) /\ Len(After(s, n)) = Len(s) - n
         /\ \A i \in 1 .. Len(s) - n : After(s, n)[i] = s[n + i]
<1>1. \A i \in n + 1 .. Len(s) : s[i] \in S
  OBVIOUS
<1> QED
  BY <1>1 DEF After

\* t is s without its first n elements.
Dropped(t, s, n) == Len(t) = Len(s) - n /\ \A i \in 1 .. Len(s) - n : t[i] = s[n + i]

LEMMA AfterDrops ==
  ASSUME NEW S, NEW s \in Seq(S), NEW n \in 0 .. Len(s)
  PROVE  Dropped(After(s, n), s, n)
BY AfterShape DEF Dropped

LEMMA AfterAfter ==
  ASSUME NEW S, NEW s \in Seq(S), NEW m \in Nat, NEW n \in Nat, m + n =< Len(s)
  PROVE  After(After(s, m), n) = After(s, m + n)
<1> DEFINE t == After(s, m)
           u == After(s, m + n)
           L == Len(s)
<1>1. L \in Nat /\ m \in 0 .. L /\ m + n \in 0 .. L /\ m + n =< L
  OBVIOUS
<1>2. t \in Seq(S) /\ Len(t) = L - m /\ \A i \in 1 .. L - m : t[i] = s[m + i]
  BY <1>1, AfterShape
<1>3. u \in Seq(S) /\ Len(u) = L - (m + n) /\ \A i \in 1 .. L - (m + n) : u[i] = s[(m + n) + i]
  BY <1>1, AfterShape
<1> HIDE DEF t, u, L
<1>4. n \in 0 .. Len(t) /\ Len(t) - n = L - (m + n)
  BY <1>1, <1>2
<1>5. /\ After(t, n) \in Seq(S) /\ Len(After(t, n)) = Len(t) - n
      /\ \A i \in 1 .. Len(t) - n : After(t, n)[i] = t[n + i]
  BY <1>2, <1>4, AfterShape, Zenon
<1>6. ASSUME NEW i \in 1 .. L - (m + n) PROVE After(t, n)[i] = u[i]
  <2>1. n + i \in 1 .. L - m /\ m + (n + i) = (m + n) + i
    BY <1>1
  <2> QED
    BY <1>2, <1>3, <1>4, <1>5, <2>1, Zenon
<1>7. After(t, n) = u
  BY <1>3, <1>4, <1>5, <1>6, SameSeq, Zenon
<1> QED
  BY <1>7 DEF t, u

LEMMA WidthType == Width \in Nat /\ Width > 0
BY WireAssumption

LEMMA SizedShape ==
  ASSUME NEW s \in Seq(Byte)
  PROVE  /\ Sized(s) \in Seq(Byte) /\ Len(Sized(s)) = Width + Len(s)
         /\ \A i \in 1 .. Width : Sized(s)[i] = Bytes(Len(s), Width)[i]
         /\ \A i \in 1 .. Len(s) : Sized(s)[Width + i] = s[i]
<1> DEFINE b == Bytes(Len(s), Width)
<1>1. b \in Seq(Byte) /\ Len(b) = Width
  <2>1. Len(s) \in Nat
    OBVIOUS
  <2> QED
    BY <2>1, WidthType, BytesType
<1>2. Sized(s) = b \o s
  BY DEF Sized, write_u32
<1> HIDE DEF b
<1>3. Sized(s) \in Seq(Byte) /\ Joins(Sized(s), b, s)
  BY <1>1, <1>2, Concat
<1> QED
  BY <1>1, <1>3, Zenon DEF Joins, b

\* What begins with a counted string: its count is read, and the string follows.
LEMMA CountedRead ==
  ASSUME NEW q \in Seq(Byte), NEW a \in Seq(Byte), Fits(Len(a), Width), Begins(q, Sized(a))
  PROVE  /\ read_u32(q) = Len(a) /\ Len(q) >= Width + Len(a)
         /\ SubSeq(q, Width + 1, Width + Len(a)) = a
<1>1. Width \in Nat /\ Len(a) \in Nat /\ Len(q) \in Nat
  BY WidthType
<1>2. Len(q) >= Width + Len(a) /\ \A i \in 1 .. Width + Len(a) : q[i] = Sized(a)[i]
  BY SizedShape, Zenon DEF Begins
<1>3. \A i \in 1 .. Width : q[i] = Bytes(Len(a), Width)[i]
  <2>1. \A i \in 1 .. Width : i \in 1 .. Width + Len(a)
    BY <1>1
  <2> QED
    BY <1>2, <2>1, SizedShape, Zenon
<1>4. \A i \in 1 .. Len(a) : q[Width + i] = a[i]
  <2>1. \A i \in 1 .. Len(a) : Width + i \in 1 .. Width + Len(a)
    BY <1>1
  <2> QED
    BY <1>2, <2>1, SizedShape, Zenon
<1>5. read_u32(q) = Len(a)
  BY <1>1, <1>3, NumberBytes DEF read_u32
<1>6. SubSeq(q, Width + 1, Width + Len(a)) = a
  <2> DEFINE t == SubSeq(q, Width + 1, Width + Len(a))
  <2>1. /\ t \in Seq(Byte) /\ Len(t) = Len(a)
        /\ \A i \in 1 .. Len(a) : t[i] = q[Width + i]
    <3>1. \A i \in Width + 1 .. Width + Len(a) : q[i] \in Byte
      BY <1>1, <1>2
    <3> QED
      BY <1>1, <1>2, <3>1
  <2> HIDE DEF t
  <2>2. t = a
    BY <1>4, <2>1, SameSeq, Zenon
  <2> QED
    BY <2>2 DEF t
<1> QED
  BY <1>2, <1>5, <1>6

LEMMA ReadCounted ==
  ASSUME NEW q \in Seq(Byte), Len(q) >= Width, Len(q) >= Width + read_u32(q)
  PROVE  \E a \in Seq(Byte) :
           /\ a = SubSeq(q, Width + 1, Width + read_u32(q)) /\ Len(a) = read_u32(q)
           /\ Fits(Len(a), Width) /\ Begins(q, Sized(a))
<1> DEFINE n == read_u32(q)
           a == SubSeq(q, Width + 1, Width + n)
<1>1. Width \in Nat /\ Len(q) \in Nat
  BY WidthType
<1>2. \A i \in 1 .. Width : q[i] \in Byte
  BY <1>1
<1>3. n \in Nat /\ Fits(n, Width) /\ \A i \in 1 .. Width : Bytes(n, Width)[i] = q[i]
  BY <1>1, <1>2, BytesNumber DEF read_u32
<1> HIDE DEF n
<1>4. Len(q) >= Width + n
  BY DEF n
<1>5. a \in Seq(Byte) /\ Len(a) = n /\ \A i \in 1 .. n : a[i] = q[Width + i]
  <2>1. \A i \in Width + 1 .. Width + n : q[i] \in Byte
    BY <1>1, <1>3, <1>4
  <2> QED
    BY <1>1, <1>3, <1>4, <2>1
<1> HIDE DEF a
<1>6. /\ Len(Sized(a)) = Width + n /\ \A i \in 1 .. Width : Sized(a)[i] = Bytes(n, Width)[i]
      /\ \A i \in 1 .. n : Sized(a)[Width + i] = a[i]
  BY <1>5, SizedShape, Zenon
<1>7. ASSUME NEW i \in 1 .. Width + n PROVE q[i] = Sized(a)[i]
  <2>1. CASE i =< Width
    <3>1. i \in 1 .. Width
      BY <1>1, <2>1
    <3> QED
      BY <1>3, <1>6, <3>1, Zenon
  <2>2. CASE ~ (i =< Width)
    <3>1. i - Width \in 1 .. n /\ Width + (i - Width) = i
      BY <1>1, <1>3, <2>2
    <3>2. /\ Sized(a)[Width + (i - Width)] = a[i - Width]
          /\ a[i - Width] = q[Width + (i - Width)]
      BY <1>5, <1>6, <3>1, Zenon
    <3> QED
      BY <3>1, <3>2, Zenon
  <2> QED
    BY <2>1, <2>2, Zenon
<1>8. Begins(q, Sized(a))
  BY <1>4, <1>6, <1>7, Zenon DEF Begins
<1>9. Fits(Len(a), Width)
  BY <1>3, <1>5, Zenon
<1> QED
  BY <1>5, <1>8, <1>9 DEF n, a

-----------------------------------------------------------------------------
(* parse_req *)

ParseState == [rc : {0, -1}, data : Seq(Byte), out : Seq(Seq(Byte))]

\* The turn from st to nd has read the argument a.
Took(st, nd, a) ==
  /\ a \in Seq(Byte) /\ Fits(Len(a), Width) /\ Begins(st.data, Sized(a))
  /\ nd = [rc |-> 0, data |-> After(st.data, Width + Len(a)), out |-> Append(st.out, a)]

LEMMA ArgumentTurn ==
  ASSUME NEW st \in ParseState
  PROVE  /\ Argument(st) \in ParseState
         /\ st.rc # 0 => Argument(st) = st
         /\ st.rc = 0 /\ Argument(st).rc = 0 => \E a : Took(st, Argument(st), a)
         /\ \A a \in Seq(Byte) :
              st.rc = 0 /\ Fits(Len(a), Width) /\ Begins(st.data, Sized(a)) => Took(st, Argument(st), a)
<1> DEFINE q == st.data
           n == read_u32(q)
<1>1. q \in Seq(Byte) /\ st.out \in Seq(Seq(Byte)) /\ st.rc \in {0, -1}
  BY DEF ParseState
<1>2. Width \in Nat /\ Width > 0 /\ Len(q) \in Nat
  BY <1>1, WidthType
<1>3. CASE st.rc # 0
  <2>1. Argument(st) = st
    BY <1>3 DEF Argument
  <2> QED
    BY <1>3, <2>1
<1>4. CASE st.rc = 0 /\ Len(q) < Width
  <2>1. Argument(st) = [st EXCEPT !.rc = -1]
    BY <1>4 DEF Argument
  <2>2. Argument(st) \in ParseState /\ Argument(st).rc = -1
    BY <2>1 DEF ParseState
  <2>3. \A a \in Seq(Byte) : ~ Begins(q, Sized(a))
    <3> SUFFICES ASSUME NEW a \in Seq(Byte), Begins(q, Sized(a)) PROVE FALSE
      OBVIOUS
    <3>1. Len(q) >= Width + Len(a) /\ Len(a) \in Nat
      BY SizedShape DEF Begins
    <3> QED
      BY <1>2, <1>4, <3>1
  <2> QED
    BY <1>4, <2>2, <2>3
<1>5. CASE st.rc = 0 /\ Len(q) >= Width
  <2>1. n \in Nat
    <3>1. \A i \in 1 .. Width : q[i] \in Byte
      BY <1>1, <1>2, <1>5
    <3> QED
      BY <1>2, <3>1, BytesNumber DEF read_u32
  <2> DEFINE rest == After(q, Width)
  <2>2. /\ rest \in Seq(Byte) /\ Len(rest) = Len(q) - Width
        /\ \A i \in 1 .. Len(q) - Width : rest[i] = q[Width + i]
    <3>1. Width \in 0 .. Len(q)
      BY <1>2, <1>5
    <3> QED
      BY <1>1, <3>1, AfterShape
  <2>3. Argument(st) = IF Len(rest) < n THEN [st EXCEPT !.rc = -1]
                       ELSE [rc |-> 0, data |-> After(rest, n), out |-> Append(st.out, SubSeq(rest, 1, n))]
    <3>1. ~ (Len(q) < Width)
      BY <1>2, <1>5
    <3> QED
      BY <1>5, <3>1 DEF Argument
  <2>4. CASE Len(rest) < n
    <3>1. Argument(st) = [st EXCEPT !.rc = -1]
      BY <2>3, <2>4, Zenon
    <3>2. Argument(st) \in ParseState /\ Argument(st).rc = -1
      BY <3>1 DEF ParseState
    <3>3. \A a \in Seq(Byte) : ~ (Fits(Len(a), Width) /\ Begins(q, Sized(a)))
      <4> SUFFICES ASSUME NEW a \in Seq(Byte), Fits(Len(a), Width), Begins(q, Sized(a)) PROVE FALSE
        OBVIOUS
      <4>1. n = Len(a) /\ Len(q) >= Width + Len(a)
        BY <1>1, CountedRead
      <4> HIDE DEF q, n, rest
      <4> QED
        BY <1>2, <2>1, <2>2, <2>4, <4>1
    <3> QED
      BY <1>5, <3>2, <3>3
  <2>5. CASE ~ (Len(rest) < n)
    <3>1. Len(q) >= Width + n
      <4> HIDE DEF q, n, rest
      <4> QED
        BY <1>2, <2>1, <2>2, <2>5
    <3>2. PICK a \in Seq(Byte) :
            /\ a = SubSeq(q, Width + 1, Width + n) /\ Len(a) = n
            /\ Fits(Len(a), Width) /\ Begins(q, Sized(a))
      BY <1>1, <1>5, <3>1, ReadCounted
    <3>3. After(rest, n) = After(q, Width + n)
      BY <1>1, <1>2, <2>1, <3>1, AfterAfter
    <3>4. SubSeq(rest, 1, n) = a
      <4> DEFINE t == SubSeq(rest, 1, n)
      <4> HIDE DEF rest, q, n
      <4>1. t \in Seq(Byte) /\ Len(t) = n /\ \A i \in 1 .. n : t[i] = rest[i]
        <5>1. n =< Len(rest)
          BY <1>2, <2>1, <2>2, <2>5
        <5>2. \A i \in 1 .. n : rest[i] \in Byte
          BY <2>1, <2>2, <5>1
        <5> QED
          BY <2>1, <2>2, <5>1, <5>2
      <4>2. \A i \in 1 .. n : a[i] = q[Width + i]
        <5>1. \A i \in 1 .. n : SubSeq(q, Width + 1, Width + n)[i] = q[Width + i]
          BY <1>1, <1>2, <2>1, <3>1
        <5> QED
          BY <3>2, <5>1, Zenon
      <4>3. \A i \in 1 .. n : i \in 1 .. Len(q) - Width
        BY <1>2, <2>1, <3>1
      <4> HIDE DEF t
      <4>4. t = a
        <5>1. Len(t) = Len(a) /\ \A i \in 1 .. Len(t) : t[i] = a[i]
          BY <2>2, <3>2, <4>1, <4>2, <4>3, Zenon
        <5> QED
          BY <4>1, <5>1, SameSeq, Zenon
      <4> QED
        BY <4>4 DEF t
    <3>5. Argument(st) = [rc |-> 0, data |-> After(q, Width + Len(a)), out |-> Append(st.out, a)]
      BY <2>3, <2>5, <3>2, <3>3, <3>4, Zenon
    <3>6. After(q, Width + Len(a)) \in Seq(Byte)
      <4>1. Width + n \in 0 .. Len(q)
        <5> HIDE DEF q, n
        <5> QED
          BY <1>2, <2>1, <3>1
      <4> QED
        BY <1>1, <3>2, <4>1, AfterShape
    <3>7. Argument(st) \in ParseState
      <4>1. Append(st.out, a) \in Seq(Seq(Byte))
        BY <1>1
      <4> QED
        BY <3>5, <3>6, <4>1 DEF ParseState
    <3>8. Took(st, Argument(st), a)
      BY <3>2, <3>5, Zenon DEF Took
    <3>9. \A e \in Seq(Byte) : Fits(Len(e), Width) /\ Begins(q, Sized(e)) => e = a
      <4> SUFFICES ASSUME NEW e \in Seq(Byte), Fits(Len(e), Width), Begins(q, Sized(e)) PROVE e = a
        OBVIOUS
      <4>1. n = Len(e) /\ SubSeq(q, Width + 1, Width + Len(e)) = e
        BY <1>1, CountedRead
      <4> QED
        BY <3>2, <4>1, Zenon
    <3> QED
      BY <1>5, <3>7, <3>8, <3>9, Zenon
  <2> QED
    BY <2>4, <2>5
<1> QED
  <2>1. Len(q) < Width \/ Len(q) >= Width
    BY <1>2
  <2> QED
    BY <1>3, <1>4, <1>5, <2>1

LEMMA ArgumentsLoop ==
  ASSUME NEW data \in Seq(Byte), NEW n \in Nat
  PROVE  \E L \in [0 .. n -> ParseState] :
           /\ L[0] = [rc |-> 0, data |-> data, out |-> <<>>]
           /\ \A k \in 1 .. n : L[k] = Argument(L[k - 1])
           /\ Arguments(data, n) = L[n]
<1> DEFINE i0 == [rc |-> 0, data |-> data, out |-> <<>>]
           G == [p \in ParseState \X (1 .. n) |-> Argument(p[1])]
           Def(f) == f = [k \in 0 .. n |-> IF k = 0 THEN i0 ELSE Argument(f[k - 1])]
           c == CHOOSE f : Def(f)
<1>1. i0 \in ParseState
  BY DEF ParseState
<1>2. \A x \in ParseState : Argument(x) \in ParseState
  BY ArgumentTurn
<1>3. G \in [ParseState \X (1 .. n) -> ParseState]
  BY <1>2
<1>4. \A x \in ParseState, k \in 1 .. n : G[<<x, k>>] = Argument(x)
  OBVIOUS
<1>8. Arguments(data, n) = c[n]
  BY DEF Arguments
<1> HIDE DEF G, i0
<1>5. PICK f : Iterates(f, ParseState, i0, n, G)
  BY <1>1, <1>3, Iterate
<1>6. f \in [0 .. n -> ParseState] /\ f[0] = i0
  BY <1>5, Zenon DEF Iterates
<1>7. \A k \in 1 .. n : f[k] = Argument(f[k - 1])
  <2> SUFFICES ASSUME NEW k \in 1 .. n PROVE f[k] = Argument(f[k - 1])
    OBVIOUS
  <2>1. k - 1 \in 0 .. n
    OBVIOUS
  <2>2. f[k - 1] \in ParseState
    BY <1>6, <2>1, Zenon
  <2> QED
    BY <1>4, <1>5, <2>2, Zenon DEF Iterates
<1>9. Def(f)
  <2>1. f = [k \in 0 .. n |-> f[k]]
    BY <1>6, Zenon
  <2>2. \A k \in 0 .. n : k = 0 \/ k \in 1 .. n
    OBVIOUS
  <2>3. \A k \in 0 .. n : f[k] = IF k = 0 THEN i0 ELSE Argument(f[k - 1])
    BY <1>6, <1>7, <2>2, Zenon
  <2> QED
    BY <2>1, <2>3, Zenon
<1>10. Def(c)
  <2> HIDE DEF Def
  <2> QED
    BY <1>9, Zenon
<1> HIDE DEF c
<1>11. \A k \in 0 .. n : c[k] = IF k = 0 THEN i0 ELSE Argument(c[k - 1])
  BY <1>10, Zenon
<1> DEFINE T == {k \in 0 .. n : c[k] = f[k]}
<1>12. 0 \in T
  BY <1>6, <1>11
<1>13. \A k \in 1 .. n : k - 1 \in T => k \in T
  <2>1. \A k \in 1 .. n : k \in 0 .. n /\ k # 0
    OBVIOUS
  <2> SUFFICES ASSUME NEW k \in 1 .. n, c[k - 1] = f[k - 1] PROVE c[k] = f[k]
    BY <2>1, Zenon
  <2> QED
    BY <1>7, <1>11, <2>1, Zenon
<1>14. \A k \in 0 .. n : k \in T
  <2> HIDE DEF T
  <2> QED
    BY <1>12, <1>13, Climb, Zenon
<1>15. c[n] = f[n]
  BY <1>14
<1> QED
  BY <1>6, <1>7, <1>8, <1>15, Zenon DEF i0

\* The pieces of a request body after its count.
Counted(args) == [i \in DOMAIN args |-> Sized(args[i])]

LEMMA EncodeShape ==
  ASSUME NEW args \in Seq(Seq(Byte))
  PROVE  /\ Counted(args) \in Seq(Seq(Byte)) /\ Len(Counted(args)) = Len(args)
         /\ \A k \in 1 .. Len(args) : Counted(args)[k] = Sized(args[k])
         /\ Joined(Counted(args)) \in Seq(Byte)
         /\ Encode(args) \in Seq(Byte)
         /\ Joins(Encode(args), Bytes(Len(args), Width), Joined(Counted(args)))
<1>1. \A k \in 1 .. Len(args) : Sized(args[k]) \in Seq(Byte)
  <2>1. \A k \in 1 .. Len(args) : args[k] \in Seq(Byte)
    OBVIOUS
  <2> QED
    BY <2>1, SizedShape
<1>2. /\ Counted(args) \in Seq(Seq(Byte)) /\ Len(Counted(args)) = Len(args)
      /\ \A k \in 1 .. Len(args) : Counted(args)[k] = Sized(args[k])
  <2> DEFINE N == Len(args)
             c == [k \in 1 .. N |-> Sized(args[k])]
  <2>1. N \in Nat /\ DOMAIN args = 1 .. N
    OBVIOUS
  <2>2. Counted(args) = c
    BY <2>1, Zenon DEF Counted
  <2>3. \A k \in 1 .. N : c[k] = Sized(args[k])
    OBVIOUS
  <2>4. c \in [1 .. N -> Seq(Byte)]
    BY <1>1
  <2>5. c \in Seq(Seq(Byte)) /\ Len(c) = N
    <3> HIDE DEF c, N
    <3> QED
      BY <2>1, <2>4
  <2> QED
    BY <2>2, <2>3, <2>5, Zenon
<1>3. Joined(Counted(args)) \in Seq(Byte)
  BY <1>2, JoinedCuts
<1>4. Bytes(Len(args), Width) \in Seq(Byte)
  <2>1. Len(args) \in Nat
    OBVIOUS
  <2> QED
    BY <2>1, WidthType, BytesType
<1>5. Encode(args) = Bytes(Len(args), Width) \o Joined(Counted(args))
  BY Zenon DEF Encode, Counted, write_u32
<1>6. /\ Encode(args) \in Seq(Byte)
      /\ Joins(Encode(args), Bytes(Len(args), Width), Joined(Counted(args)))
  BY <1>3, <1>4, <1>5, Concat
<1> QED
  BY <1>2, <1>3, <1>6, Zenon

LEMMA CutsBelow ==
  ASSUME NEW S, NEW ps \in Seq(Seq(S)), NEW s \in Seq(S), NEW off, Cuts(s, ps, off)
  PROVE  \A k \in 0 .. Len(ps) : off[k] \in Nat /\ off[k] =< Len(s)
<1> DEFINE N == Len(ps)
<1>1. N \in Nat /\ \A k \in 1 .. N : Len(ps[k]) \in Nat
  OBVIOUS
<1>2. /\ off \in [0 .. N -> Nat] /\ off[N] = Len(s)
      /\ \A k \in 1 .. N : off[k] = off[k - 1] + Len(ps[k])
  BY DEF Cuts
<1> HIDE DEF N
<1>3. \A k \in 0 .. N : off[k] \in Nat
  BY <1>2, Zenon
<1> DEFINE T == {j \in 0 .. N : off[N - j] =< off[N]}
<1>4. 0 \in T
  BY <1>1, <1>3
<1>5. \A j \in 1 .. N : j - 1 \in T => j \in T
  <2> SUFFICES ASSUME NEW j \in 1 .. N, off[N - j + 1] =< off[N] PROVE off[N - j] =< off[N]
    <3>1. \A j \in 1 .. N : N - (j - 1) = N - j + 1
      BY <1>1
    <3> QED
      BY <3>1
  <2>1. N - j + 1 \in 1 .. N /\ (N - j + 1) - 1 = N - j /\ N - j \in 0 .. N /\ N \in 0 .. N
    BY <1>1
  <2>2. off[N - j + 1] = off[N - j] + Len(ps[N - j + 1])
    BY <1>2, <2>1
  <2>3. off[N - j] \in Nat /\ off[N] \in Nat /\ Len(ps[N - j + 1]) \in Nat
    BY <1>1, <1>3, <2>1, Zenon
  <2>4. \A x, y, z \in Nat : x + y =< z => x =< z
    OBVIOUS
  <2>5. off[N - j] + Len(ps[N - j + 1]) =< off[N]
    BY <2>2, Zenon
  <2> QED
    BY <2>3, <2>4, <2>5, Zenon
<1>6. \A j \in 0 .. N : j \in T
  <2> HIDE DEF T
  <2> QED
    BY <1>1, <1>4, <1>5, Climb, Zenon
<1>7. ASSUME NEW k \in 0 .. N PROVE off[k] =< off[N]
  <2>1. N - k \in 0 .. N /\ N - (N - k) = k
    BY <1>1
  <2>2. off[N - (N - k)] =< off[N]
    BY <1>6, <2>1, Zenon
  <2> QED
    BY <2>1, <2>2, Zenon
<1> QED
  BY <1>2, <1>3, <1>7, Zenon DEF N

\* What the parser accepts is the encoding of the arguments it returns.
LEMMA ParseSound ==
  ASSUME NEW data \in Seq(Byte), parse_req(data).rc = 0
  PROVE  parse_req(data).out \in Seq(Seq(Byte)) /\ Encode(parse_req(data).out) = data
<1> DEFINE n == read_u32(data)
           rest == After(data, Width)
           end == Arguments(rest, n)
<1>1. Width \in Nat /\ Len(data) \in Nat
  BY WidthType
<1>2. ~ (Len(data) < Width \/ n > k_max_args) /\ parse_req(data) = end /\ end.data = <<>>
  <2>1. ~ (Len(data) < Width \/ n > k_max_args)
    BY DEF parse_req, Unparsed
  <2>2. parse_req(data) = IF end.data # <<>> THEN [end EXCEPT !.rc = -1] ELSE end
    BY <2>1 DEF parse_req
  <2>3. end.data = <<>>
    <3> SUFFICES ASSUME end.data # <<>> PROVE FALSE
      OBVIOUS
    <3>1. end \in ParseState
      <4>1. rest \in Seq(Byte) /\ n \in Nat
        <5>1. \A i \in 1 .. Width : data[i] \in Byte
          BY <1>1, <2>1
        <5>2. n \in Nat
          BY <1>1, <5>1, BytesNumber DEF read_u32
        <5>3. Width \in 0 .. Len(data)
          BY <1>1, <2>1
        <5> QED
          BY <5>2, <5>3, AfterShape
      <4> HIDE DEF rest, n
      <4>2. PICK L \in [0 .. n -> ParseState] :
              /\ L[0] = [rc |-> 0, data |-> rest, out |-> <<>>]
              /\ \A k \in 1 .. n : L[k] = Argument(L[k - 1])
              /\ end = L[n]
        BY <4>1, ArgumentsLoop
      <4> QED
        BY <4>1, <4>2
    <3> HIDE DEF end
    <3>2. parse_req(data).rc = -1
      BY <2>2, <3>1 DEF ParseState
    <3> QED
      BY <3>2
  <2> QED
    BY <2>1, <2>2, <2>3
<1>3. \A i \in 1 .. Width : data[i] \in Byte
  BY <1>1, <1>2
<1>4. n \in Nat /\ Fits(n, Width) /\ \A i \in 1 .. Width : Bytes(n, Width)[i] = data[i]
  BY <1>1, <1>3, BytesNumber DEF read_u32
<1>5. /\ rest \in Seq(Byte) /\ Len(rest) = Len(data) - Width
      /\ \A i \in 1 .. Len(data) - Width : rest[i] = data[Width + i]
  <2>1. Width \in 0 .. Len(data)
    BY <1>1, <1>2
  <2> QED
    BY <2>1, AfterShape
<1> HIDE DEF n, rest
<1>6. PICK L \in [0 .. n -> ParseState] :
        /\ L[0] = [rc |-> 0, data |-> rest, out |-> <<>>]
        /\ \A k \in 1 .. n : L[k] = Argument(L[k - 1])
        /\ end = L[n]
  BY <1>4, <1>5, ArgumentsLoop
<1> HIDE DEF end
<1>7. \A k \in 0 .. n : L[k] \in ParseState
  BY <1>6, Zenon
\* No turn has failed.
<1>8. \A k \in 0 .. n : L[k].rc = 0
  <2> DEFINE T == {j \in 0 .. n : L[n - j].rc = 0}
  <2>1. 0 \in T
    BY <1>2, <1>4, <1>6
  <2>2. \A j \in 1 .. n : j - 1 \in T => j \in T
    <3> SUFFICES ASSUME NEW j \in 1 .. n, L[n - j + 1].rc = 0 PROVE L[n - j].rc = 0
      <4>1. \A j \in 1 .. n : n - (j - 1) = n - j + 1
        BY <1>4
      <4> QED
        BY <4>1
    <3>1. n - j + 1 \in 1 .. n /\ (n - j + 1) - 1 = n - j /\ n - j \in 0 .. n
      BY <1>4
    <3>2. L[n - j + 1] = Argument(L[n - j])
      BY <1>6, <3>1
    <3>3. L[n - j].rc # 0 => L[n - j + 1] = L[n - j]
      BY <1>7, <3>1, <3>2, ArgumentTurn, Zenon
    <3> QED
      BY <3>3, Zenon
  <2>3. \A j \in 0 .. n : j \in T
    <3> HIDE DEF T
    <3> QED
      BY <1>4, <2>1, <2>2, Climb, Zenon
  <2> SUFFICES ASSUME NEW k \in 0 .. n PROVE L[k].rc = 0
    OBVIOUS
  <2>4. n - k \in 0 .. n /\ n - (n - k) = k
    BY <1>4
  <2>5. L[n - (n - k)].rc = 0
    BY <2>3, <2>4, Zenon
  <2> QED
    BY <2>4, <2>5, Zenon
<1>9. ASSUME NEW k \in 1 .. n PROVE \E a : Took(L[k - 1], L[k], a)
  <2>1. k - 1 \in 0 .. n /\ k \in 0 .. n
    BY <1>4
  <2> QED
    <3>1. /\ L[k] = Argument(L[k - 1]) /\ L[k - 1] \in ParseState
          /\ L[k].rc = 0 /\ L[k - 1].rc = 0
      BY <1>6, <1>7, <1>8, <2>1, Zenon
    <3>2. \E a : Took(L[k - 1], Argument(L[k - 1]), a)
      BY <3>1, ArgumentTurn
    <3> QED
      BY <3>1, <3>2, Zenon
<1> DEFINE out(k) == L[k].out
           off == [k \in 0 .. n |-> Len(rest) - Len(L[k].data)]
<1>10. \A k \in 0 .. n : L[k].data \in Seq(Byte) /\ out(k) \in Seq(Seq(Byte))
  BY <1>7 DEF ParseState
<1> DEFINE Here(k) == /\ Len(out(k)) = k /\ off[k] \in 0 .. Len(rest)
                      /\ L[k].data = After(rest, off[k])
<1>11. \A k \in 0 .. n : off[k] = Len(rest) - Len(L[k].data)
  OBVIOUS
<1> HIDE DEF off
<1>12. ASSUME NEW k \in 1 .. n, Here(k - 1), NEW a, Took(L[k - 1], L[k], a)
       PROVE  /\ Here(k) /\ off[k] = off[k - 1] + Len(Sized(a))
              /\ out(k) = Append(out(k - 1), a)
              /\ \A i \in 1 .. Len(Sized(a)) : rest[off[k - 1] + i] = Sized(a)[i]
  <2> DEFINE d == L[k - 1].data
             w == Width + Len(a)
             o == off[k - 1]
  <2>1. k - 1 \in 0 .. n /\ k \in 0 .. n
    BY <1>4
  <2>2. /\ a \in Seq(Byte) /\ Begins(d, Sized(a))
        /\ L[k] = [rc |-> 0, data |-> After(d, w), out |-> Append(out(k - 1), a)]
    BY <1>12, Zenon DEF Took
  <2>3. L[k].data = After(d, w) /\ out(k) = Append(out(k - 1), a)
    BY <2>2
  <2>4. d \in Seq(Byte) /\ out(k - 1) \in Seq(Seq(Byte)) /\ d = After(rest, o)
    BY <1>10, <1>12, <2>1
  <2>5. Len(Sized(a)) = w /\ w \in Nat
    BY <1>1, <2>2, SizedShape
  <2> HIDE DEF w, d, out
  <2>6. Len(d) >= w /\ \A i \in 1 .. w : d[i] = Sized(a)[i]
    BY <2>2, <2>5, Zenon DEF Begins
  <2>7. o \in 0 .. Len(rest)
    BY <1>12
  <2> HIDE DEF o
  <2>8. Len(d) = Len(rest) - o /\ \A i \in 1 .. Len(rest) - o : d[i] = rest[o + i]
    <3>1. /\ Len(After(rest, o)) = Len(rest) - o
          /\ \A i \in 1 .. Len(rest) - o : After(rest, o)[i] = rest[o + i]
      <4>1. Dropped(After(rest, o), rest, o)
        BY <1>5, <2>7, AfterDrops
      <4> QED
        BY <4>1, Zenon DEF Dropped
    <3> QED
      BY <2>4, <3>1, Zenon
  <2>9. o \in Nat /\ Len(rest) \in Nat /\ o + w =< Len(rest)
    BY <1>5, <2>5, <2>6, <2>7, <2>8
  <2>10. After(d, w) = After(rest, o + w)
    BY <1>5, <2>4, <2>5, <2>9, AfterAfter
  <2>11. Len(After(d, w)) = Len(rest) - (o + w)
    <3>1. o + w \in 0 .. Len(rest)
      BY <2>5, <2>9
    <3> QED
      BY <1>5, <2>10, <3>1, AfterShape
  <2>12. off[k] = o + w /\ off[k] \in 0 .. Len(rest)
    <3>1. off[k] = Len(rest) - (Len(rest) - (o + w))
      BY <1>11, <2>1, <2>3, <2>11, Zenon
    <3> QED
      BY <2>5, <2>9, <3>1
  <2>13. Len(out(k)) = k
    <3>1. Len(out(k - 1)) = k - 1
      BY <1>12 DEF out
    <3>2. Len(out(k)) = Len(out(k - 1)) + 1
      BY <2>3, <2>4
    <3> QED
      BY <1>4, <3>1, <3>2
  <2>14. \A i \in 1 .. w : rest[o + i] = Sized(a)[i]
    <3>1. \A i \in 1 .. w : i \in 1 .. Len(rest) - o
      BY <2>5, <2>9
    <3> QED
      BY <2>6, <2>8, <3>1, Zenon
  <2> QED
    BY <2>3, <2>5, <2>10, <2>12, <2>13, <2>14, Zenon DEF o, out
<1> DEFINE T == {k \in 0 .. n : Here(k) /\ \A j \in 1 .. k : out(k)[j] = out(j)[j]}
<1>13. 0 \in T
  <2>1. L[0].data = rest /\ L[0].out = <<>> /\ 0 \in 0 .. n
    BY <1>4, <1>6
  <2>2. off[0] = 0
    BY <1>5, <1>11, <2>1
  <2>3. After(rest, 0) = rest
    BY <1>5 DEF After
  <2> QED
    BY <1>5, <2>1, <2>2, <2>3
<1>14. \A k \in 1 .. n : k - 1 \in T => k \in T
  <2> SUFFICES ASSUME NEW k \in 1 .. n, Here(k - 1), \A j \in 1 .. k - 1 : out(k - 1)[j] = out(j)[j]
               PROVE  Here(k) /\ \A j \in 1 .. k : out(k)[j] = out(j)[j]
    <3>1. \A k \in 1 .. n : k \in 0 .. n
      BY <1>4
    <3> HIDE DEF Here, out
    <3> QED
      BY <3>1, Zenon
  <2>1. PICK a : Took(L[k - 1], L[k], a)
    BY <1>9
  <2>2. Here(k) /\ out(k) = Append(out(k - 1), a)
    <3> HIDE DEF Here, out
    <3> QED
      BY <1>12, <2>1
  <2>3. out(k - 1) \in Seq(Seq(Byte)) /\ Len(out(k - 1)) = k - 1
    BY <1>4, <1>10
  <2>4. \A j \in 1 .. k - 1 : out(k)[j] = out(k - 1)[j]
    <3> HIDE DEF Here, out
    <3> QED
      BY <2>2, <2>3
  <2>5. \A j \in 1 .. k : j = k \/ j \in 1 .. k - 1
    OBVIOUS
  <2> HIDE DEF Here, out
  <2> QED
    BY <2>2, <2>4, <2>5, Zenon
<1>15. \A k \in 0 .. n : k \in T
  <2> HIDE DEF T
  <2> QED
    BY <1>4, <1>13, <1>14, Climb, Zenon
<1> DEFINE args == out(n)
<1>16. args \in Seq(Seq(Byte)) /\ Len(args) = n /\ parse_req(data).out = args
  <2>1. n \in 0 .. n
    BY <1>4
  <2> QED
    BY <1>2, <1>6, <1>10, <1>15, <2>1
<1>17. Cuts(rest, Counted(args), off)
  <2>1. Len(Counted(args)) = n /\ \A k \in 1 .. n : Counted(args)[k] = Sized(args[k])
    BY <1>16, EncodeShape, Zenon
  <2>2. off \in [0 .. n -> Nat]
    <3>1. \A k \in 0 .. n : off[k] \in Nat
      BY <1>5, <1>15
    <3>2. off = [k \in 0 .. n |-> off[k]]
      BY DEF off
    <3> QED
      BY <3>1, <3>2, Zenon
  <2>3. off[0] = 0 /\ off[n] = Len(rest)
    <3>1. Len(L[0].data) = Len(rest) /\ Len(L[n].data) = 0
      BY <1>2, <1>6
    <3> QED
      BY <1>4, <1>5, <1>11, <3>1
  <2>4. ASSUME NEW k \in 1 .. n
        PROVE  /\ off[k] = off[k - 1] + Len(Sized(args[k]))
               /\ \A i \in 1 .. Len(Sized(args[k])) : rest[off[k - 1] + i] = Sized(args[k])[i]
    <3>1. PICK a : Took(L[k - 1], L[k], a)
      BY <1>9
    <3>2. k - 1 \in 0 .. n /\ k \in 0 .. n /\ n \in 0 .. n
      BY <1>4
    <3>3. Here(k - 1) /\ args[k] = out(k)[k]
      BY <1>15, <3>2
    <3>4. /\ off[k] = off[k - 1] + Len(Sized(a)) /\ out(k) = Append(out(k - 1), a)
          /\ \A i \in 1 .. Len(Sized(a)) : rest[off[k - 1] + i] = Sized(a)[i]
      BY <1>12, <3>1, <3>3
    <3>5. args[k] = a
      <4>1. out(k - 1) \in Seq(Seq(Byte)) /\ Len(out(k - 1)) = k - 1
        BY <1>10, <3>2, <3>3
      <4>2. Append(out(k - 1), a)[k] = a
        <5> HIDE DEF out
        <5> QED
          BY <4>1
      <4> QED
        BY <3>3, <3>4, <4>2, Zenon
    <3> QED
      BY <3>4, <3>5, Zenon
  <2> DEFINE c == Counted(args)
  <2>5. ASSUME NEW k \in 1 .. n
        PROVE  off[k] = off[k - 1] + Len(c[k]) /\ \A i \in 1 .. Len(c[k]) : rest[off[k - 1] + i] = c[k][i]
    <3>1. c[k] = Sized(args[k])
      BY <2>1, Zenon
    <3> HIDE DEF c
    <3> QED
      BY <2>4, <3>1, Zenon
  <2>6. Len(c) = n
    BY <2>1
  <2> HIDE DEF c, args
  <2>7. Cuts(rest, c, off)
    BY <2>2, <2>3, <2>5, <2>6, Zenon DEF Cuts
  <2> QED
    BY <2>7 DEF c
<1> HIDE DEF args
<1>18. rest = Joined(Counted(args))
  BY <1>5, <1>16, <1>17, EncodeShape, CutsJoined
<1>19. Encode(args) \in Seq(Byte) /\ Joins(Encode(args), Bytes(n, Width), rest)
  BY <1>16, <1>18, EncodeShape, Zenon
<1>20. /\ Len(Encode(args)) = Width + Len(rest)
       /\ \A i \in 1 .. Width : Encode(args)[i] = data[i]
       /\ \A i \in 1 .. Len(rest) : Encode(args)[Width + i] = rest[i]
  <2>1. Len(Bytes(n, Width)) = Width
    BY <1>1, <1>4, BytesType
  <2> QED
    BY <1>4, <1>19, <2>1, Zenon DEF Joins
<1>21. Len(Encode(args)) = Len(data)
  BY <1>1, <1>5, <1>20
<1>22. ASSUME NEW i \in 1 .. Len(data) PROVE Encode(args)[i] = data[i]
  <2>1. CASE i =< Width
    BY <1>1, <1>20, <2>1
  <2>2. CASE ~ (i =< Width)
    <3>1. i - Width \in 1 .. Len(data) - Width /\ Width + (i - Width) = i
      BY <1>1, <2>2
    <3> QED
      BY <1>5, <1>20, <3>1, Zenon
  <2> QED
    BY <2>1, <2>2
<1>23. Encode(args) = data
  BY <1>19, <1>21, <1>22, SameSeq, Zenon
<1> QED
  BY <1>16, <1>23, Zenon

\* An encoding has room for its counts.
LEMMA CountsFit ==
  ASSUME NEW args \in Seq(Seq(Byte)), NEW off,
         Cuts(Joined(Counted(args)), Counted(args), off)
  PROVE  Len(args) * Width =< Len(Joined(Counted(args)))
<1> DEFINE N == Len(args)
           c == Counted(args)
           F == Joined(c)
<1>1. N \in Nat /\ Width \in Nat
  BY WidthType
<1>2. c \in Seq(Seq(Byte)) /\ Len(c) = N /\ F \in Seq(Byte)
  BY EncodeShape
<1>3. \A k \in 1 .. N : Len(c[k]) \in Nat /\ Len(c[k]) >= Width
  <2> SUFFICES ASSUME NEW k \in 1 .. N PROVE Len(c[k]) \in Nat /\ Len(c[k]) >= Width
    OBVIOUS
  <2>1. args[k] \in Seq(Byte) /\ Len(args[k]) \in Nat
    OBVIOUS
  <2>2. Len(c[k]) = Width + Len(args[k])
    BY <2>1, EncodeShape, SizedShape
  <2> QED
    BY <1>1, <2>1, <2>2
<1> HIDE DEF F, c, N
<1>4. Cuts(F, c, off)
  BY DEF F, c
<1>5. /\ off \in [0 .. N -> Nat] /\ off[0] = 0 /\ off[N] = Len(F)
      /\ \A k \in 1 .. N : off[k] = off[k - 1] + Len(c[k])
  BY <1>2, <1>4, Zenon DEF Cuts
<1> DEFINE T == {k \in 0 .. N : k * Width =< off[k]}
<1>6. 0 \in T
  BY <1>1, <1>5
<1>7. \A k \in 1 .. N : k - 1 \in T => k \in T
  <2> SUFFICES ASSUME NEW k \in 1 .. N, (k - 1) * Width =< off[k - 1] PROVE k * Width =< off[k]
    <3>1. \A k \in 1 .. N : k \in 0 .. N
      BY <1>1
    <3> QED
      BY <3>1, Zenon
  <2>1. k * Width = (k - 1) * Width + Width
    BY <1>1
  <2>2. off[k - 1] \in Nat /\ off[k] = off[k - 1] + Len(c[k]) /\ Len(c[k]) \in Nat /\ Len(c[k]) >= Width
    BY <1>1, <1>3, <1>5
  <2>3. (k - 1) * Width \in Nat
    BY <1>1
  <2>4. \A x, y, z, w \in Nat : x =< y /\ z >= w => x + w =< y + z
    OBVIOUS
  <2>5. (k - 1) * Width + Width =< off[k - 1] + Len(c[k])
    BY <1>1, <2>2, <2>3, <2>4, Zenon
  <2> QED
    BY <2>1, <2>2, <2>5, Zenon
<1>8. \A k \in 0 .. N : k \in T
  <2> HIDE DEF T
  <2> QED
    BY <1>1, <1>6, <1>7, Climb, Zenon
<1>9. N * Width =< off[N]
  BY <1>1, <1>8
<1> QED
  BY <1>5, <1>9 DEF N, F, c

\* The encoding of a command is accepted and gives the command back.
LEMMA ParseComplete ==
  ASSUME NEW args \in Seq(Seq(Byte)), Len(Encode(args)) =< MAX_MSG
  PROVE  parse_req(Encode(args)).rc = 0 /\ parse_req(Encode(args)).out = args
<1> DEFINE N == Len(args)
           c == Counted(args)
           F == Joined(c)
           data == Encode(args)
<1>1. N \in Nat /\ Width \in Nat /\ Width > 0 /\ MAX_MSG \in Nat /\ k_max_args \in Nat
  BY WidthType, WireAssumption DEF Fits
<1>2. /\ c \in Seq(Seq(Byte)) /\ Len(c) = N /\ F \in Seq(Byte) /\ data \in Seq(Byte)
      /\ \A k \in 1 .. N : c[k] = Sized(args[k])
      /\ Joins(data, Bytes(N, Width), F)
  BY EncodeShape, Zenon
<1>3. PICK off : Cuts(F, c, off)
  BY <1>2, JoinedCuts
<1>4. N * Width =< Len(F)
  BY <1>3, CountsFit
<1>a. \A k \in 1 .. N : args[k] \in Seq(Byte) /\ Len(args[k]) \in Nat
  OBVIOUS
<1>b. Len(data) =< MAX_MSG
  OBVIOUS
<1> HIDE DEF N, c, F, data
<1>5. Len(Bytes(N, Width)) = Width /\ \A i \in 1 .. Width : Bytes(N, Width)[i] \in Byte
  <2>1. Bytes(N, Width) \in Seq(Byte) /\ Len(Bytes(N, Width)) = Width
    BY <1>1, BytesType
  <2> QED
    BY <2>1
<1>6. /\ Len(data) = Width + Len(F) /\ \A i \in 1 .. Width : data[i] = Bytes(N, Width)[i]
      /\ \A i \in 1 .. Len(F) : data[Width + i] = F[i]
  BY <1>2, <1>5, Zenon DEF Joins
<1>7. Len(F) \in Nat /\ Len(F) =< MAX_MSG /\ Len(data) \in Nat
  <2>1. Len(F) \in Nat /\ Len(data) \in Nat
    BY <1>2
  <2> QED
    BY <1>1, <1>b, <1>6, <2>1
<1>8. N =< MAX_MSG /\ N =< k_max_args
  <2>1. N =< N * Width
    BY <1>1
  <2>2. N * Width \in Nat
    BY <1>1
  <2>3. N =< k_max_args
    <3> SUFFICES ASSUME N >= k_max_args + 1 PROVE FALSE
      BY <1>1
    <3>1. N * Width >= (k_max_args + 1) * Width
      BY <1>1
    <3>2. (k_max_args + 1) * Width > MAX_MSG
      BY WireAssumption
    <3>3. (k_max_args + 1) * Width \in Nat
      BY <1>1
    <3>4. \A p, q, l, m \in Nat : p >= q /\ p =< l /\ l =< m /\ q > m => FALSE
      OBVIOUS
    <3> QED
      BY <1>1, <1>4, <1>7, <2>2, <3>1, <3>2, <3>3, <3>4, Zenon
  <2>4. \A x, p, l, m \in Nat : x =< p /\ p =< l /\ l =< m => x =< m
    OBVIOUS
  <2> QED
    BY <1>1, <1>4, <1>7, <2>1, <2>2, <2>3, <2>4, Zenon
<1>9. \A x \in Nat : x =< MAX_MSG => Fits(x, Width)
  BY <1>1, WireAssumption, FitsBelow
<1>10. read_u32(data) = N
  BY <1>1, <1>6, <1>8, <1>9, NumberBytes DEF read_u32
<1>11. After(data, Width) = F
  <2>1. Width \in 0 .. Len(data) /\ Len(data) - Width = Len(F)
    BY <1>1, <1>6, <1>7
  <2>2. /\ After(data, Width) \in Seq(Byte) /\ Len(After(data, Width)) = Len(F)
        /\ \A i \in 1 .. Len(F) : After(data, Width)[i] = data[Width + i]
    BY <1>2, <2>1, AfterShape
  <2>3. Len(After(data, Width)) = Len(F)
        /\ \A i \in 1 .. Len(After(data, Width)) : After(data, Width)[i] = F[i]
    BY <1>6, <2>2, Zenon
  <2> QED
    BY <1>2, <2>2, <2>3, SameSeq, Zenon
<1>12. PICK L \in [0 .. N -> ParseState] :
         /\ L[0] = [rc |-> 0, data |-> F, out |-> <<>>]
         /\ \A k \in 1 .. N : L[k] = Argument(L[k - 1])
         /\ Arguments(F, N) = L[N]
  BY <1>1, <1>2, ArgumentsLoop
<1>13. \A k \in 0 .. N : off[k] \in Nat /\ off[k] =< Len(F)
  BY <1>2, <1>3, CutsBelow, Zenon
<1>14. /\ off[0] = 0 /\ off[N] = Len(F)
       /\ \A k \in 1 .. N : /\ off[k] = off[k - 1] + Len(c[k])
                            /\ \A i \in 1 .. Len(c[k]) : F[off[k - 1] + i] = c[k][i]
  BY <1>2, <1>3, Zenon DEF Cuts
<1> DEFINE Here(k) == /\ L[k].rc = 0 /\ L[k].data = After(F, off[k])
                      /\ Len(L[k].out) = k /\ \A j \in 1 .. k : L[k].out[j] = args[j]
           T == {k \in 0 .. N : Here(k)}
<1>15. 0 \in T
  <2>1. After(F, 0) = F
    BY <1>2 DEF After
  <2> QED
    BY <1>1, <1>12, <1>14, <2>1
<1>16. \A k \in 1 .. N : k - 1 \in T => k \in T
  <2> SUFFICES ASSUME NEW k \in 1 .. N, Here(k - 1) PROVE Here(k)
    <3>1. \A k \in 1 .. N : k \in 0 .. N
      BY <1>1
    <3> HIDE DEF Here
    <3> QED
      BY <3>1, Zenon
  <2> DEFINE st == L[k - 1]
             a == args[k]
             o == off[k - 1]
             w == Width + Len(a)
  <2>1. k - 1 \in 0 .. N /\ k \in 0 .. N
    BY <1>1
  <2>2. st \in ParseState /\ L[k] = Argument(st)
    BY <1>12, <2>1, Zenon
  <2>3. a \in Seq(Byte) /\ Len(a) \in Nat /\ c[k] = Sized(a)
    BY <1>2, <1>a
  <2>4. Len(Sized(a)) = w /\ w \in Nat
    <3> HIDE DEF a
    <3>1. w \in Nat
      BY <1>1, <2>3
    <3> QED
      BY <2>3, <3>1, SizedShape, Zenon
  <2>5. st.rc = 0 /\ st.data = After(F, o) /\ Len(st.out) = k - 1
    OBVIOUS
  <2>6. \A j \in 1 .. k - 1 : st.out[j] = args[j]
    OBVIOUS
  <2>7. o \in Nat /\ off[k] = o + w /\ off[k] =< Len(F) /\ \A i \in 1 .. w : F[o + i] = Sized(a)[i]
    BY <1>13, <1>14, <2>1, <2>3, <2>4, Zenon
  <2> HIDE DEF st, a, o, w
  <2>8. Fits(Len(a), Width)
    <3>1. Len(a) =< MAX_MSG
      BY <1>1, <1>7, <2>3, <2>7 DEF w
    <3> QED
      BY <1>9, <2>3, <3>1
  <2>9. Begins(After(F, o), Sized(a))
    <3>1. o \in 0 .. Len(F) /\ w =< Len(F) - o
      BY <1>7, <2>4, <2>7
    <3>2. /\ Len(After(F, o)) = Len(F) - o
          /\ \A i \in 1 .. Len(F) - o : After(F, o)[i] = F[o + i]
      BY <1>2, <3>1, AfterShape
    <3>3. \A i \in 1 .. w : i \in 1 .. Len(F) - o
      BY <1>7, <2>4, <2>7
    <3>4. Len(After(F, o)) >= w
      BY <1>7, <2>4, <2>7, <3>1, <3>2
    <3> QED
      BY <2>4, <2>7, <3>2, <3>3, <3>4, Zenon DEF Begins
  <2>10. Took(st, L[k], a)
    <3>1. Begins(st.data, Sized(a))
      BY <2>5, <2>9, Zenon
    <3> QED
      BY <2>2, <2>3, <2>5, <2>8, <3>1, ArgumentTurn, Zenon
  <2>11. L[k] = [rc |-> 0, data |-> After(After(F, o), w), out |-> Append(st.out, a)]
    BY <2>5, <2>10, Zenon DEF Took, w
  <2>12. After(After(F, o), w) = After(F, off[k])
    BY <1>2, <2>4, <2>7, AfterAfter
  <2>13. L[k].rc = 0 /\ L[k].data = After(F, off[k]) /\ L[k].out = Append(st.out, a)
    BY <2>11, <2>12
  <2>14. st.out \in Seq(Seq(Byte))
    BY <2>2 DEF ParseState
  <2>15. Len(L[k].out) = k /\ \A j \in 1 .. k - 1 : L[k].out[j] = st.out[j]
    BY <2>5, <2>13, <2>14
  <2>16. L[k].out[k] = a
    BY <2>5, <2>13, <2>14
  <2>17. \A j \in 1 .. k : j = k \/ j \in 1 .. k - 1
    OBVIOUS
  <2>18. \A j \in 1 .. k : L[k].out[j] = args[j]
    BY <2>6, <2>15, <2>16, <2>17, Zenon DEF a
  <2> QED
    BY <2>13, <2>15, <2>18, Zenon
<1>17. \A k \in 0 .. N : k \in T
  <2> HIDE DEF T
  <2> QED
    BY <1>1, <1>15, <1>16, Climb, Zenon
<1>18. L[N] \in ParseState /\ Here(N)
  BY <1>1, <1>12, <1>17
<1>19. L[N].data = <<>>
  <2>1. After(F, Len(F)) = <<>>
    BY <1>2 DEF After
  <2> QED
    BY <1>14, <1>18, <2>1, Zenon
<1>20. L[N].out = args
  <2>1. L[N].out \in Seq(Seq(Byte)) /\ Len(args) = N
    BY <1>18 DEF ParseState, N
  <2> QED
    BY <1>18, <2>1, SameSeq, Zenon
<1>21. ~ (Len(data) < Width) /\ ~ (read_u32(data) > k_max_args)
  BY <1>1, <1>6, <1>7, <1>8, <1>10
<1>22. parse_req(data) = L[N]
  BY <1>10, <1>11, <1>12, <1>19, <1>21, Zenon DEF parse_req
<1> QED
  BY <1>18, <1>20, <1>22, Zenon DEF data

-----------------------------------------------------------------------------
(* print_value, one value at a time. *)

LEMMA Tags ==
  /\ SER_NIL \in Byte /\ SER_ERR \in Byte /\ SER_STR \in Byte
  /\ SER_INT \in Byte /\ SER_DBL \in Byte /\ SER_ARR \in Byte
BY WireAssumption DEF Byte, SER_NIL, SER_ERR, SER_STR, SER_INT, SER_DBL, SER_ARR

\* r is the tag x and the bytes b.
Tagged(r, x, b) ==
  /\ r \in Seq(Byte) /\ Len(r) = 1 + Len(b) /\ Len(r) >= 1 /\ r[1] = x
  /\ \A i \in 1 .. Len(b) : r[1 + i] = b[i]

LEMMA TaggedShape ==
  ASSUME NEW x \in Byte, NEW b \in Seq(Byte), NEW r, r = <<x>> \o b
  PROVE  Tagged(r, x, b)
<1> DEFINE y == <<x>>
<1>1. y \in Seq(Byte) /\ Len(y) = 1 /\ y[1] = x /\ r = y \o b /\ Len(b) \in Nat
  OBVIOUS
<1> HIDE DEF y
<1>2. r \in Seq(Byte) /\ Joins(r, y, b)
  BY <1>1, Concat
<1>3. 1 \in 1 .. 1 /\ 1 + Len(b) >= 1
  BY <1>1
<1> QED
  BY <1>1, <1>2, <1>3, Zenon DEF Joins, Tagged

LEMMA ReadAt ==
  ASSUME NEW q \in Seq(Byte), NEW at \in Nat, NEW w \in Nat, at + w =< Len(q),
         NEW v, Fits(v, w), \A i \in 1 .. w : q[at + i] = Bytes(v, w)[i]
  PROVE  Number(After(q, at), w) = v
<1>1. at \in 0 .. Len(q) /\ \A i \in 1 .. w : i \in 1 .. Len(q) - at
  OBVIOUS
<1>2. \A i \in 1 .. Len(q) - at : After(q, at)[i] = q[at + i]
  BY <1>1, AfterShape
<1>3. \A i \in 1 .. w : After(q, at)[i] = Bytes(v, w)[i]
  BY <1>1, <1>2, Zenon
<1> QED
  BY <1>3, NumberBytes

\* A counted string in the middle of a reply, whole or cut short.
LEMMA TextAt ==
  ASSUME NEW q \in Seq(Byte), NEW at \in Nat, NEW a \in Seq(Byte), Fits(Len(a), Width),
         \A i \in 1 .. Width : at + i =< Len(q) => q[at + i] = Bytes(Len(a), Width)[i]
  PROVE  /\ Len(q) < at + Width + Len(a) => ~ HasText(q, at)
         /\ /\ Len(q) >= at + Width + Len(a)
            /\ \A i \in 1 .. Len(a) : q[at + Width + i] = a[i]
            => HasText(q, at) /\ TextLen(q, at) = Len(a) /\ Text(q, at) = a
<1>1. Width \in Nat /\ Len(a) \in Nat /\ Len(q) \in Nat
  BY WidthType
<1>2. CASE Len(q) < at + Width
  BY <1>1, <1>2 DEF HasText
<1>3. CASE Len(q) >= at + Width
  <2>1. \A i \in 1 .. Width : q[at + i] = Bytes(Len(a), Width)[i]
    BY <1>1, <1>3
  <2>2. TextLen(q, at) = Len(a)
    BY <1>1, <1>3, <2>1, ReadAt DEF TextLen, read_u32
  <2>3. HasText(q, at) <=> Len(q) >= at + Width + Len(a)
    BY <1>3, <2>2 DEF HasText
  <2>4. ASSUME Len(q) >= at + Width + Len(a), \A i \in 1 .. Len(a) : q[at + Width + i] = a[i]
        PROVE  Text(q, at) = a
    <3> DEFINE t == SubSeq(q, at + Width + 1, at + Width + Len(a))
    <3>1. /\ t \in Seq(Byte) /\ Len(t) = Len(a)
          /\ \A i \in 1 .. Len(a) : t[i] = q[at + Width + i]
      <4>1. \A i \in at + Width + 1 .. at + Width + Len(a) : q[i] \in Byte
        BY <1>1, <2>4
      <4> QED
        BY <1>1, <2>4, <4>1
    <3>2. Text(q, at) = t
      BY <2>2, Zenon DEF Text
    <3> HIDE DEF t
    <3>3. Len(t) = Len(a) /\ \A i \in 1 .. Len(t) : t[i] = a[i]
      BY <2>4, <3>1, Zenon
    <3>4. t = a
      BY <3>1, <3>3, SameSeq, Zenon
    <3> QED
      BY <3>2, <3>4, Zenon
  <2>5. Len(q) < at + Width + Len(a) => ~ (Len(q) >= at + Width + Len(a))
    BY <1>1
  <2> QED
    BY <2>2, <2>3, <2>4, <2>5, Zenon
<1> QED
  BY <1>1, <1>2, <1>3

\* q agrees with the call's bytes as far as it goes.
Follows(q, b) == \A i \in 1 .. Len(b) : i =< Len(q) => q[i] = b[i]

\* A whole value at the start of q is printed, one that is cut short is not.
Printable(q, t) ==
  /\ Len(q) >= Len(Out(t)) => FirstValue(q) = Line(Len(Out(t)), t)
  /\ Len(q) < Len(Out(t)) => FirstValue(q).size < 0

LEMMA NilPrints ==
  ASSUME NEW t \in [tag : {"nil"}], NEW q \in Seq(Byte), Follows(q, Out(t))
  PROVE  Out(t) \in Seq(Byte) /\ Len(Out(t)) >= 1 /\ Printable(q, t)
<1>1. t = [tag |-> "nil"] /\ t.tag = "nil"
  OBVIOUS
<1>2. Out(t) = <<SER_NIL>>
  BY <1>1 DEF Out
<1>3. Out(t) \in Seq(Byte) /\ Len(Out(t)) = 1 /\ Out(t)[1] = SER_NIL
  BY <1>2, Tags
<1>4. CASE q = <<>>
  <2>1. FirstValue(q).size < 0 /\ Len(q) = 0
    BY <1>4 DEF FirstValue, Truncated
  <2> QED
    BY <1>3, <2>1 DEF Printable
<1>5. CASE q # <<>>
  <2>1. Len(q) \in Nat /\ Len(q) >= 1
    BY <1>5
  <2>2. q[1] = SER_NIL
    BY <1>3, <2>1 DEF Follows
  <2>3. FirstValue(q) = Line(1, [tag |-> "nil"])
    BY <1>5, <2>2 DEF FirstValue, SER_NIL, SER_ERR, SER_STR, SER_INT, SER_DBL, SER_ARR
  <2> QED
    <3>1. ~ (Len(q) < 1) /\ 1 >= 1
      BY <2>1
    <3> QED
      BY <1>1, <1>3, <2>3, <3>1, Zenon DEF Printable
<1> QED
  BY <1>3, <1>4, <1>5

\* q agrees with a tag x and the bytes b as far as it goes.
FollowsTagged(q, x, b) ==
  /\ q # <<>> => q[1] = x
  /\ \A i \in 1 .. Len(b) : 1 + i =< Len(q) => q[1 + i] = b[i]

LEMMA TaggedFollows ==
  ASSUME NEW x, NEW b \in Seq(Byte), NEW q \in Seq(Byte), NEW r, Tagged(r, x, b), Follows(q, r)
  PROVE  FollowsTagged(q, x, b)
<1>1. Len(r) = 1 + Len(b) /\ r[1] = x /\ \A i \in 1 .. Len(b) : r[1 + i] = b[i]
  BY DEF Tagged
<1>2. Len(b) \in Nat /\ Len(q) \in Nat
  OBVIOUS
<1>3. \A i \in 1 .. Len(r) : i =< Len(q) => q[i] = r[i]
  BY DEF Follows
<1>4. q # <<>> => q[1] = x
  BY <1>1, <1>2, <1>3
<1>5. ASSUME NEW i \in 1 .. Len(b), 1 + i =< Len(q) PROVE q[1 + i] = b[i]
  <2>1. 1 + i \in 1 .. Len(r)
    BY <1>1, <1>2
  <2> QED
    BY <1>1, <1>3, <1>5, <2>1, Zenon
<1> QED
  BY <1>4, <1>5 DEF FollowsTagged

LEMMA NumberPrints ==
  ASSUME NEW t \in [tag : {"int", "dbl"}, n : Number64], NEW q \in Seq(Byte), Follows(q, Out(t))
  PROVE  Out(t) \in Seq(Byte) /\ Len(Out(t)) >= 1 /\ Printable(q, t)
<1> DEFINE W == 2 * Width
           b == Bytes(t.n, W)
           x == IF t.tag = "int" THEN SER_INT ELSE SER_DBL
           v == [tag |-> t.tag, n |-> Number(After(q, 1), W)]
<1>1. t = [tag |-> t.tag, n |-> t.n] /\ t.tag \in {"int", "dbl"} /\ t.n \in Nat /\ Fits(t.n, W)
  BY DEF Number64
<1>2. W \in Nat
  BY WidthType
<1>3. b \in Seq(Byte) /\ Len(b) = W
  BY <1>1, <1>2, BytesType
<1>4. x \in Byte
  BY Tags
<1>5. Out(t) = <<x>> \o b
  BY <1>1 DEF Out
<1>a. Tagged(Out(t), x, b)
  <2> HIDE DEF x, b
  <2> QED
    BY <1>3, <1>4, <1>5, TaggedShape
<1>b. FollowsTagged(q, x, b)
  <2> HIDE DEF x, b
  <2> QED
    BY <1>3, <1>a, TaggedFollows
<1>6. FirstValue(q) = IF q # <<>> /\ Len(q) >= 1 + W THEN Line(1 + W, v) ELSE Truncated
  <2>1. q # <<>> => q[1] = x
    BY <1>b DEF FollowsTagged
  <2> QED
    BY <1>1, <2>1 DEF FirstValue, SER_NIL, SER_ERR, SER_STR, SER_INT, SER_DBL, SER_ARR
<1> HIDE DEF b, x, W
<1>7. Out(t) \in Seq(Byte) /\ Len(Out(t)) = 1 + W /\ Len(Out(t)) >= 1
  BY <1>3, <1>a, Zenon DEF Tagged
<1>8. CASE Len(q) >= 1 + W
  <2>1. \A i \in 1 .. W : 1 + i =< Len(q)
    BY <1>2, <1>8
  <2>2. \A i \in 1 .. W : q[1 + i] = b[i]
    BY <1>3, <1>b, <2>1, Zenon DEF FollowsTagged
  <2>3. Number(After(q, 1), W) = t.n
    <3>1. 1 \in Nat /\ 1 + W =< Len(q)
      BY <1>2, <1>8
    <3> QED
      BY <1>1, <1>2, <2>2, <3>1, ReadAt, Zenon DEF b
  <2>4. v = t
    BY <1>1, <2>3, Zenon
  <2>5. q # <<>> /\ ~ (Len(q) < 1 + W)
    BY <1>2, <1>8
  <2> QED
    BY <1>2, <1>6, <1>7, <1>8, <2>4, <2>5 DEF Printable
<1>9. CASE Len(q) < 1 + W
  <2>1. ~ (Len(q) >= 1 + W)
    BY <1>2, <1>9
  <2>2. FirstValue(q).size < 0
    BY <1>6, <2>1 DEF Truncated
  <2> QED
    BY <1>2, <1>7, <2>1, <2>2 DEF Printable
<1> QED
  <2>1. Len(q) >= 1 + W \/ Len(q) < 1 + W
    BY <1>2
  <2> QED
    BY <1>8, <1>9, <2>1

LEMMA ArrayPrints ==
  ASSUME NEW t \in [tag : {"arr"}, n : Number32], NEW q \in Seq(Byte), Follows(q, Out(t))
  PROVE  Out(t) \in Seq(Byte) /\ Len(Out(t)) >= 1 /\ Printable(q, t)
<1> DEFINE b == Bytes(t.n, Width)
           v == [tag |-> "arr", n |-> Number(After(q, 1), Width)]
<1>1. t = [tag |-> "arr", n |-> t.n] /\ t.tag = "arr" /\ t.n \in Nat /\ Fits(t.n, Width)
  BY DEF Number32
<1>2. Width \in Nat
  BY WidthType
<1>3. b \in Seq(Byte) /\ Len(b) = Width
  BY <1>1, <1>2, BytesType
<1>5. Out(t) = <<SER_ARR>> \o b
  BY <1>1 DEF Out, write_u32
<1>a. Tagged(Out(t), SER_ARR, b)
  <2> HIDE DEF b
  <2> QED
    BY <1>3, <1>5, Tags, TaggedShape
<1>b. FollowsTagged(q, SER_ARR, b)
  <2> HIDE DEF b
  <2> QED
    BY <1>3, <1>a, TaggedFollows
<1>6. FirstValue(q) = IF q # <<>> /\ Len(q) >= 1 + Width THEN Line(1 + Width, v) ELSE Truncated
  <2>1. q # <<>> => q[1] = SER_ARR
    BY <1>b DEF FollowsTagged
  <2> QED
    BY <2>1 DEF FirstValue, SER_NIL, SER_ERR, SER_STR, SER_INT, SER_DBL, SER_ARR, read_u32
<1> HIDE DEF b
<1>7. Out(t) \in Seq(Byte) /\ Len(Out(t)) = 1 + Width /\ Len(Out(t)) >= 1
  BY <1>3, <1>a, Zenon DEF Tagged
<1>8. CASE Len(q) >= 1 + Width
  <2>1. \A i \in 1 .. Width : 1 + i =< Len(q)
    BY <1>2, <1>8
  <2>2. \A i \in 1 .. Width : q[1 + i] = b[i]
    BY <1>3, <1>b, <2>1, Zenon DEF FollowsTagged
  <2>3. Number(After(q, 1), Width) = t.n
    <3>1. 1 \in Nat /\ 1 + Width =< Len(q)
      BY <1>2, <1>8
    <3> QED
      BY <1>1, <1>2, <2>2, <3>1, ReadAt, Zenon DEF b
  <2>4. v = t
    BY <1>1, <2>3, Zenon
  <2>5. q # <<>> /\ ~ (Len(q) < 1 + Width)
    BY <1>2, <1>8
  <2> QED
    BY <1>2, <1>6, <1>7, <1>8, <2>4, <2>5 DEF Printable
<1>9. CASE Len(q) < 1 + Width
  <2>1. ~ (Len(q) >= 1 + Width)
    BY <1>2, <1>9
  <2>2. FirstValue(q).size < 0
    BY <1>6, <2>1 DEF Truncated
  <2> QED
    BY <1>2, <1>7, <2>1, <2>2 DEF Printable
<1> QED
  <2>1. Len(q) >= 1 + Width \/ Len(q) < 1 + Width
    BY <1>2
  <2> QED
    BY <1>8, <1>9, <2>1

LEMMA StringPrints ==
  ASSUME NEW t \in [tag : {"str"}, str : Seq(Byte)], Fits(Len(t.str), Width),
         NEW q \in Seq(Byte), Follows(q, Out(t))
  PROVE  Out(t) \in Seq(Byte) /\ Len(Out(t)) >= 1 /\ Printable(q, t)
<1> DEFINE a == t.str
           b == Sized(a)
           l == TextLen(q, 1)
           v == [tag |-> "str", str |-> Text(q, 1)]
<1>1. t = [tag |-> "str", str |-> a] /\ t.tag = "str" /\ a \in Seq(Byte) /\ Fits(Len(a), Width)
  OBVIOUS
<1>2. Width \in Nat /\ Len(a) \in Nat /\ Len(q) \in Nat
  BY WidthType
<1>3. /\ b \in Seq(Byte) /\ Len(b) = Width + Len(a)
      /\ \A i \in 1 .. Width : b[i] = Bytes(Len(a), Width)[i]
      /\ \A i \in 1 .. Len(a) : b[Width + i] = a[i]
  BY <1>1, SizedShape
<1>4. Out(t) = <<SER_STR>> \o b
  BY <1>1 DEF Out
<1> HIDE DEF b
<1>5. Tagged(Out(t), SER_STR, b)
  BY <1>3, <1>4, Tags, TaggedShape
<1>6. FollowsTagged(q, SER_STR, b)
  BY <1>3, <1>5, TaggedFollows
<1>7. FirstValue(q) = IF q # <<>> /\ HasText(q, 1) THEN Line(1 + Width + l, v) ELSE Truncated
  <2>1. q # <<>> => q[1] = SER_STR
    BY <1>6 DEF FollowsTagged
  <2> QED
    BY <2>1 DEF FirstValue, SER_NIL, SER_ERR, SER_STR, SER_INT, SER_DBL, SER_ARR
<1> HIDE DEF a, l
<1>8. Out(t) \in Seq(Byte) /\ Len(Out(t)) = 1 + (Width + Len(a)) /\ Len(Out(t)) >= 1
  BY <1>3, <1>5, Zenon DEF Tagged
<1>9. \A i \in 1 .. Width : 1 + i =< Len(q) => q[1 + i] = Bytes(Len(a), Width)[i]
  <2>1. \A i \in 1 .. Width : i \in 1 .. Width + Len(a)
    BY <1>2
  <2> QED
    BY <1>3, <1>6, <2>1, Zenon DEF FollowsTagged
<1>10. CASE Len(q) >= 1 + Width + Len(a)
  <2>1. \A i \in 1 .. Len(a) : q[1 + Width + i] = a[i]
    <3> SUFFICES ASSUME NEW i \in 1 .. Len(a) PROVE q[1 + Width + i] = a[i]
      OBVIOUS
    <3>1. Width + i \in 1 .. Width + Len(a) /\ 1 + (Width + i) =< Len(q) /\ 1 + (Width + i) = 1 + Width + i
      BY <1>2, <1>10
    <3>2. q[1 + (Width + i)] = b[Width + i]
      BY <1>3, <1>6, <3>1, Zenon DEF FollowsTagged
    <3> QED
      BY <1>3, <3>1, <3>2, Zenon
  <2>2. HasText(q, 1) /\ l = Len(a) /\ Text(q, 1) = a
    BY <1>1, <1>9, <1>10, <2>1, TextAt DEF l
  <2>3. v = t
    BY <1>1, <2>2, Zenon
  <2>4. q # <<>>
    BY <1>2, <1>10
  <2>5. FirstValue(q) = Line(1 + Width + Len(a), t)
    BY <1>7, <2>2, <2>3, <2>4, Zenon
  <2>6. 1 + Width + Len(a) = 1 + (Width + Len(a)) /\ ~ (Len(q) < 1 + (Width + Len(a)))
    BY <1>2, <1>10
  <2> QED
    BY <1>8, <2>5, <2>6, Zenon DEF Printable
<1>11. CASE Len(q) < 1 + Width + Len(a)
  <2>1. ~ HasText(q, 1)
    BY <1>1, <1>9, <1>11, TextAt
  <2>2. FirstValue(q).size < 0
    BY <1>7, <2>1 DEF Truncated
  <2>3. ~ (Len(q) >= 1 + (Width + Len(a)))
    BY <1>2, <1>11
  <2> QED
    BY <1>8, <2>2, <2>3, Zenon DEF Printable
<1> QED
  <2>1. Len(q) >= 1 + Width + Len(a) \/ Len(q) < 1 + Width + Len(a)
    BY <1>2
  <2> QED
    BY <1>10, <1>11, <2>1

LEMMA ConcatAssoc ==
  ASSUME NEW S, NEW s \in Seq(S), NEW t \in Seq(S), NEW u \in Seq(S)
  PROVE  (s \o t) \o u = s \o (t \o u)
OBVIOUS

LEMMA ErrorPrints ==
  ASSUME NEW t \in [tag : {"err"}, code : Number32, str : Seq(Byte)], Fits(Len(t.str), Width),
         NEW q \in Seq(Byte), Follows(q, Out(t))
  PROVE  Out(t) \in Seq(Byte) /\ Len(Out(t)) >= 1 /\ Printable(q, t)
<1> DEFINE a == t.str
           c == Bytes(t.code, Width)
           b == c \o Sized(a)
           at == 1 + Width
           l == TextLen(q, at)
           v == [tag |-> "err", code |-> Number(After(q, 1), Width), str |-> Text(q, at)]
<1>1. /\ t = [tag |-> "err", code |-> t.code, str |-> a] /\ t.tag = "err"
      /\ a \in Seq(Byte) /\ Fits(Len(a), Width) /\ t.code \in Nat /\ Fits(t.code, Width)
  BY DEF Number32
<1>2. Width \in Nat /\ Len(a) \in Nat /\ Len(q) \in Nat /\ at \in Nat
  BY WidthType
<1>3. /\ Sized(a) \in Seq(Byte) /\ Len(Sized(a)) = Width + Len(a)
      /\ \A i \in 1 .. Width : Sized(a)[i] = Bytes(Len(a), Width)[i]
      /\ \A i \in 1 .. Len(a) : Sized(a)[Width + i] = a[i]
  BY <1>1, SizedShape
<1>4. c \in Seq(Byte) /\ Len(c) = Width
  BY <1>1, <1>2, BytesType
<1>5. Out(t) = <<SER_ERR>> \o b
  <2>1. <<SER_ERR>> \in Seq(Byte)
    BY Tags
  <2>2. Out(t) = (<<SER_ERR>> \o c) \o Sized(a)
    BY <1>1 DEF Out, write_u32
  <2> HIDE DEF c
  <2> QED
    BY <1>3, <1>4, <2>1, <2>2, ConcatAssoc
<1> HIDE DEF c
<1>6. b \in Seq(Byte) /\ Joins(b, c, Sized(a))
  BY <1>3, <1>4, Concat
<1> HIDE DEF b
<1>7. /\ Len(b) = Width + (Width + Len(a)) /\ \A i \in 1 .. Width : b[i] = c[i]
      /\ \A i \in 1 .. Width + Len(a) : b[Width + i] = Sized(a)[i]
  BY <1>3, <1>4, <1>6, Zenon DEF Joins
<1>8. Tagged(Out(t), SER_ERR, b)
  BY <1>5, <1>6, Tags, TaggedShape
<1>9. FollowsTagged(q, SER_ERR, b)
  BY <1>6, <1>8, TaggedFollows
<1>10. FirstValue(q) = IF q # <<>> /\ HasText(q, at) THEN Line(1 + 2 * Width + l, v) ELSE Truncated
  <2>1. q # <<>> => q[1] = SER_ERR
    BY <1>9 DEF FollowsTagged
  <2> QED
    BY <2>1 DEF FirstValue, SER_NIL, SER_ERR, SER_STR, SER_INT, SER_DBL, SER_ARR, read_u32
<1> HIDE DEF a, l, at
<1>11. Out(t) \in Seq(Byte) /\ Len(Out(t)) = 1 + (Width + (Width + Len(a))) /\ Len(Out(t)) >= 1
  BY <1>7, <1>8, Zenon DEF Tagged
<1>12. at = 1 + Width
  BY DEF at
<1>13. \A i \in 1 .. Width + (Width + Len(a)) : 1 + i =< Len(q) => q[1 + i] = b[i]
  BY <1>7, <1>9, Zenon DEF FollowsTagged
<1>14. \A i \in 1 .. Width + Len(a) : at + i =< Len(q) => q[at + i] = Sized(a)[i]
  <2> SUFFICES ASSUME NEW i \in 1 .. Width + Len(a), at + i =< Len(q) PROVE q[at + i] = Sized(a)[i]
    OBVIOUS
  <2>1. Width + i \in 1 .. Width + (Width + Len(a)) /\ 1 + (Width + i) = at + i
    BY <1>2, <1>12
  <2>2. q[1 + (Width + i)] = b[Width + i]
    BY <1>13, <2>1, Zenon
  <2> QED
    BY <1>7, <2>1, <2>2, Zenon
<1>15. \A i \in 1 .. Width : at + i =< Len(q) => q[at + i] = Bytes(Len(a), Width)[i]
  <2>1. \A i \in 1 .. Width : i \in 1 .. Width + Len(a)
    BY <1>2
  <2> QED
    BY <1>3, <1>14, <2>1, Zenon
<1>16. CASE Len(q) >= at + Width + Len(a)
  <2>1. \A i \in 1 .. Len(a) : q[at + Width + i] = a[i]
    <3> SUFFICES ASSUME NEW i \in 1 .. Len(a) PROVE q[at + Width + i] = a[i]
      OBVIOUS
    <3>1. Width + i \in 1 .. Width + Len(a) /\ at + (Width + i) =< Len(q) /\ at + (Width + i) = at + Width + i
      BY <1>2, <1>16
    <3>2. q[at + (Width + i)] = Sized(a)[Width + i]
      BY <1>14, <3>1, Zenon
    <3> QED
      BY <1>3, <3>1, <3>2, Zenon
  <2>2. HasText(q, at) /\ l = Len(a) /\ Text(q, at) = a
    BY <1>1, <1>2, <1>15, <1>16, <2>1, TextAt DEF l
  <2>3. Number(After(q, 1), Width) = t.code
    <3>1. 1 + Width =< Len(q) /\ \A i \in 1 .. Width : i \in 1 .. Width + (Width + Len(a)) /\ 1 + i =< Len(q)
      BY <1>2, <1>12, <1>16
    <3>2. \A i \in 1 .. Width : q[1 + i] = c[i]
      BY <1>7, <1>13, <3>1, Zenon
    <3> QED
      BY <1>1, <1>2, <3>1, <3>2, ReadAt DEF c
  <2>4. v = t
    BY <1>1, <2>2, <2>3, Zenon
  <2>5. q # <<>>
    BY <1>2, <1>12, <1>16
  <2>6. FirstValue(q) = Line(1 + 2 * Width + Len(a), t)
    BY <1>10, <2>2, <2>4, <2>5, Zenon
  <2>7. /\ 1 + 2 * Width + Len(a) = 1 + (Width + (Width + Len(a)))
        /\ ~ (Len(q) < 1 + (Width + (Width + Len(a))))
    BY <1>2, <1>12, <1>16
  <2> QED
    BY <1>11, <2>6, <2>7, Zenon DEF Printable
<1>17. CASE Len(q) < at + Width + Len(a)
  <2>1. ~ HasText(q, at)
    BY <1>1, <1>2, <1>15, <1>17, TextAt
  <2>2. FirstValue(q).size < 0
    BY <1>10, <2>1 DEF Truncated
  <2>3. ~ (Len(q) >= 1 + (Width + (Width + Len(a))))
    BY <1>2, <1>12, <1>17
  <2> QED
    BY <1>11, <2>2, <2>3, Zenon DEF Printable
<1> QED
  <2>1. Len(q) >= at + Width + Len(a) \/ Len(q) < at + Width + Len(a)
    BY <1>2
  <2> QED
    BY <1>16, <1>17, <2>1

\* The string of a call is no longer than its bytes.
LEMMA OutType ==
  ASSUME NEW t \in Calls
  PROVE  /\ Out(t) \in Seq(Byte) /\ Len(Out(t)) >= 1 /\ Elements(t) \in Nat
         /\ t.tag \in {"str", "err"} => t.str \in Seq(Byte) /\ Len(t.str) =< Len(Out(t))
<1>1. Width \in Nat /\ 2 * Width \in Nat
  BY WidthType
<1>2. CASE t \in [tag : {"nil"}]
  <2>1. t.tag = "nil" /\ Out(t) = <<SER_NIL>>
    BY <1>2 DEF Out
  <2> QED
    BY <2>1, Tags DEF Elements
<1>3. CASE t \in [tag : {"str"}, str : Seq(Byte)]
  <2> DEFINE b == Sized(t.str)
  <2>1. t.tag = "str" /\ t.str \in Seq(Byte) /\ Len(t.str) \in Nat
    BY <1>3
  <2>2. Out(t) = <<SER_STR>> \o b
    BY <2>1 DEF Out
  <2>3. b \in Seq(Byte) /\ Len(b) = Width + Len(t.str)
    BY <2>1, SizedShape
  <2> HIDE DEF b
  <2>4. Out(t) \in Seq(Byte) /\ Len(Out(t)) = 1 + (Width + Len(t.str))
    BY <2>2, <2>3, Tags, TaggedShape DEF Tagged
  <2>5. 1 + (Width + Len(t.str)) >= 1 /\ Len(t.str) =< 1 + (Width + Len(t.str))
    BY <1>1, <2>1
  <2>6. Elements(t) = 0
    BY <2>1 DEF Elements
  <2> QED
    BY <2>1, <2>4, <2>5, <2>6
<1>4. CASE t \in [tag : {"err"}, code : Number32, str : Seq(Byte)]
  <2> DEFINE b == Sized(t.str)
             c == <<SER_ERR>> \o Bytes(t.code, Width)
  <2>1. t.tag = "err" /\ t.str \in Seq(Byte) /\ Len(t.str) \in Nat /\ t.code \in Nat
    BY <1>4 DEF Number32
  <2>2. Out(t) = c \o b
    BY <2>1 DEF Out, write_u32
  <2>3. b \in Seq(Byte) /\ Len(b) = Width + Len(t.str)
    BY <2>1, SizedShape
  <2>4. Bytes(t.code, Width) \in Seq(Byte) /\ Len(Bytes(t.code, Width)) = Width
    BY <1>1, <2>1, BytesType
  <2>5. c \in Seq(Byte) /\ Len(c) = 1 + Width
    BY <2>4, Tags, TaggedShape DEF Tagged
  <2> HIDE DEF b, c
  <2>6. Out(t) \in Seq(Byte) /\ Len(Out(t)) = (1 + Width) + (Width + Len(t.str))
    <3>1. c \o b \in Seq(Byte) /\ Len(c \o b) = Len(c) + Len(b)
      BY <2>3, <2>5
    <3> QED
      BY <2>2, <2>3, <2>5, <3>1, Zenon
  <2>7. /\ (1 + Width) + (Width + Len(t.str)) >= 1
        /\ Len(t.str) =< (1 + Width) + (Width + Len(t.str))
    <3>1. \A w, l \in Nat : (1 + w) + (w + l) >= 1 /\ l =< (1 + w) + (w + l)
      OBVIOUS
    <3> QED
      BY <1>1, <2>1, <3>1, Zenon
  <2>8. Elements(t) = 0
    BY <2>1 DEF Elements
  <2> QED
    BY <2>1, <2>6, <2>7, <2>8
<1>5. CASE t \in [tag : {"int", "dbl"}, n : Number64]
  <2> DEFINE b == Bytes(t.n, 2 * Width)
             x == IF t.tag = "int" THEN SER_INT ELSE SER_DBL
  <2>1. t.tag \in {"int", "dbl"} /\ t.n \in Nat
    BY <1>5 DEF Number64
  <2>2. Out(t) = <<x>> \o b
    BY <2>1 DEF Out
  <2>3. b \in Seq(Byte) /\ x \in Byte
    BY <1>1, <2>1, BytesType, Tags
  <2> HIDE DEF b, x
  <2>4. Tagged(Out(t), x, b)
    BY <2>2, <2>3, TaggedShape
  <2> QED
    BY <2>1, <2>4 DEF Tagged, Elements
<1>6. CASE t \in [tag : {"arr"}, n : Number32]
  <2> DEFINE b == Bytes(t.n, Width)
  <2>1. t.tag = "arr" /\ t.n \in Nat
    BY <1>6 DEF Number32
  <2>2. Out(t) = <<SER_ARR>> \o b
    BY <2>1 DEF Out, write_u32
  <2>3. b \in Seq(Byte)
    BY <1>1, <2>1, BytesType
  <2> HIDE DEF b
  <2>4. Tagged(Out(t), SER_ARR, b)
    BY <2>2, <2>3, Tags, TaggedShape
  <2> QED
    BY <2>1, <2>4 DEF Tagged, Elements
<1> QED
  BY <1>2, <1>3, <1>4, <1>5, <1>6 DEF Calls

LEMMA CallPrints ==
  ASSUME NEW t \in Calls, Fits(Len(Out(t)), Width), NEW q \in Seq(Byte), Follows(q, Out(t))
  PROVE  Printable(q, t)
<1>1. t.tag \in {"str", "err"} => Fits(Len(t.str), Width)
  <2> SUFFICES ASSUME t.tag \in {"str", "err"} PROVE Fits(Len(t.str), Width)
    OBVIOUS
  <2>1. t.str \in Seq(Byte) /\ Len(t.str) =< Len(Out(t))
    BY OutType
  <2>2. Len(t.str) \in Nat
    BY <2>1
  <2> QED
    BY <2>1, <2>2, WidthType, FitsBelow
<1>2. CASE t \in [tag : {"nil"}]
  BY <1>2, NilPrints
<1>3. CASE t \in [tag : {"str"}, str : Seq(Byte)]
  <2>1. Fits(Len(t.str), Width)
    BY <1>1, <1>3
  <2> QED
    BY <1>3, <2>1, StringPrints
<1>4. CASE t \in [tag : {"err"}, code : Number32, str : Seq(Byte)]
  <2>1. Fits(Len(t.str), Width)
    BY <1>1, <1>4
  <2> QED
    BY <1>4, <2>1, ErrorPrints
<1>5. CASE t \in [tag : {"int", "dbl"}, n : Number64]
  BY <1>5, NumberPrints
<1>6. CASE t \in [tag : {"arr"}, n : Number32]
  BY <1>6, ArrayPrints
<1> QED
  BY <1>2, <1>3, <1>4, <1>5, <1>6 DEF Calls

LEMMA MissingStep ==
  ASSUME NEW r \in Seq(Calls)
  PROVE  /\ Missing(r) \in [0 .. Len(r) -> Int] /\ Missing(r)[0] = 1
         /\ \A k \in 1 .. Len(r) : Missing(r)[k] = Missing(r)[k - 1] - 1 + Elements(r[k])
<1> DEFINE N == Len(r)
           G == [p \in Int \X (1 .. N) |-> p[1] - 1 + Elements(r[p[2]])]
           Def(f) == f = [k \in 0 .. N |-> IF k = 0 THEN 1 ELSE f[k - 1] - 1 + Elements(r[k])]
           c == Missing(r)
<1>1. N \in Nat /\ \A k \in 1 .. N : r[k] \in Calls
  OBVIOUS
<1>8. c = CHOOSE f : Def(f)
  BY DEF Missing
<1> HIDE DEF N, c
<1>2. \A x \in Int, k \in 1 .. N : x - 1 + Elements(r[k]) \in Int
  <2>1. \A k \in 1 .. N : Elements(r[k]) \in Nat
    BY <1>1, OutType
  <2> QED
    BY <2>1
<1>3. G \in [Int \X (1 .. N) -> Int]
  BY <1>2
<1>4. \A x \in Int, k \in 1 .. N : G[<<x, k>>] = x - 1 + Elements(r[k])
  OBVIOUS
<1> HIDE DEF G
<1>5. PICK f : Iterates(f, Int, 1, N, G)
  <2>1. 1 \in Int
    OBVIOUS
  <2> QED
    BY <1>1, <1>3, <2>1, Iterate
<1>6. f \in [0 .. N -> Int] /\ f[0] = 1
  BY <1>5, Zenon DEF Iterates
<1>7. \A k \in 1 .. N : f[k] = f[k - 1] - 1 + Elements(r[k])
  <2> SUFFICES ASSUME NEW k \in 1 .. N PROVE f[k] = f[k - 1] - 1 + Elements(r[k])
    OBVIOUS
  <2>1. k - 1 \in 0 .. N
    BY <1>1
  <2>2. f[k - 1] \in Int
    BY <1>6, <2>1, Zenon
  <2> QED
    BY <1>4, <1>5, <2>2, Zenon DEF Iterates
<1>9. Def(f)
  <2>1. f = [k \in 0 .. N |-> f[k]]
    BY <1>6, Zenon
  <2>2. \A k \in 0 .. N : k = 0 \/ k \in 1 .. N
    BY <1>1
  <2>3. \A k \in 0 .. N : f[k] = IF k = 0 THEN 1 ELSE f[k - 1] - 1 + Elements(r[k])
    BY <1>6, <1>7, <2>2, Zenon
  <2> QED
    BY <2>1, <2>3, Zenon
<1>10. Def(c)
  <2> HIDE DEF Def
  <2> QED
    BY <1>8, <1>9, Zenon
<1>11. c = [k \in 0 .. N |-> c[k]] /\ \A k \in 0 .. N : c[k] = IF k = 0 THEN 1 ELSE c[k - 1] - 1 + Elements(r[k])
  BY <1>10, Zenon
<1> DEFINE T == {k \in 0 .. N : c[k] = f[k]}
<1>12. 0 \in T
  <2>1. 0 \in 0 .. N
    BY <1>1
  <2>2. c[0] = 1 /\ f[0] = 1
    BY <1>6, <1>11, <2>1, Zenon
  <2> QED
    BY <2>1, <2>2, Zenon
<1>13. \A k \in 1 .. N : k - 1 \in T => k \in T
  <2>1. \A k \in 1 .. N : k \in 0 .. N /\ k # 0
    BY <1>1
  <2> SUFFICES ASSUME NEW k \in 1 .. N, c[k - 1] = f[k - 1] PROVE c[k] = f[k]
    BY <2>1, Zenon
  <2> QED
    BY <1>7, <1>11, <2>1, Zenon
<1>14. \A k \in 0 .. N : k \in T
  <2> HIDE DEF T
  <2> QED
    BY <1>1, <1>12, <1>13, Climb, Zenon
<1>15. c = f
  <2>1. \A k \in 0 .. N : c[k] = f[k]
    BY <1>14
  <2>2. f = [k \in 0 .. N |-> f[k]]
    BY <1>6, Zenon
  <2> QED
    BY <1>11, <2>1, <2>2, Zenon
<1> QED
  BY <1>6, <1>7, <1>15, Zenon DEF c, N

\* The bytes of each call of a reply.
Laid(r) == [i \in DOMAIN r |-> Out(r[i])]

\* off[k] bytes are written by the first k calls of r.
Layout(r, off) ==
  /\ off \in [0 .. Len(r) -> Nat] /\ off[0] = 0 /\ off[Len(r)] = Len(serialize(r))
  /\ \A k \in 1 .. Len(r) :
       /\ off[k] = off[k - 1] + Len(Out(r[k]))
       /\ \A i \in 1 .. Len(Out(r[k])) : serialize(r)[off[k - 1] + i] = Out(r[k])[i]
  /\ \A k \in 0 .. Len(r) : k =< off[k] /\ off[k] =< Len(serialize(r))

LEMMA SerializeShape ==
  ASSUME NEW r \in Seq(Calls)
  PROVE  serialize(r) \in Seq(Byte) /\ \E off : Layout(r, off)
<1> DEFINE N == Len(r)
           ps == Laid(r)
           s == serialize(r)
<1>1. N \in Nat /\ DOMAIN r = 1 .. N /\ \A k \in 1 .. N : r[k] \in Calls
  OBVIOUS
<1>2. \A k \in 1 .. N : Out(r[k]) \in Seq(Byte) /\ Len(Out(r[k])) \in Nat /\ Len(Out(r[k])) >= 1
  <2> SUFFICES ASSUME NEW k \in 1 .. N
               PROVE  Out(r[k]) \in Seq(Byte) /\ Len(Out(r[k])) \in Nat /\ Len(Out(r[k])) >= 1
    OBVIOUS
  <2>1. Out(r[k]) \in Seq(Byte) /\ Len(Out(r[k])) >= 1
    BY <1>1, OutType
  <2> QED
    BY <2>1
<1>3. ps \in Seq(Seq(Byte)) /\ Len(ps) = N /\ \A k \in 1 .. N : ps[k] = Out(r[k])
  BY <1>1, <1>2 DEF Laid
<1>4. s = Joined(ps)
  BY DEF serialize, Laid
<1> HIDE DEF ps, s, N
<1>5. s \in Seq(Byte) /\ \E off : Cuts(s, ps, off)
  BY <1>3, <1>4, JoinedCuts
<1>6. PICK off : Cuts(s, ps, off)
  BY <1>5
<1>7. /\ off \in [0 .. N -> Nat] /\ off[0] = 0 /\ off[N] = Len(s)
      /\ \A k \in 1 .. N : off[k] = off[k - 1] + Len(Out(r[k]))
      /\ \A k \in 1 .. N : \A i \in 1 .. Len(Out(r[k])) : s[off[k - 1] + i] = Out(r[k])[i]
  <2>1. off \in [0 .. N -> Nat] /\ off[0] = 0 /\ off[N] = Len(s)
    BY <1>3, <1>6 DEF Cuts
  <2>2. ASSUME NEW k \in 1 .. N
        PROVE  /\ off[k] = off[k - 1] + Len(Out(r[k]))
               /\ \A i \in 1 .. Len(Out(r[k])) : s[off[k - 1] + i] = Out(r[k])[i]
    <3>1. k \in 1 .. Len(ps) /\ ps[k] = Out(r[k])
      BY <1>3, Zenon
    <3>2. /\ off[k] = off[k - 1] + Len(ps[k])
          /\ \A i \in 1 .. Len(ps[k]) : s[off[k - 1] + i] = ps[k][i]
      BY <1>6, <3>1, Zenon DEF Cuts
    <3> QED
      BY <3>1, <3>2, Zenon
  <2> QED
    BY <2>1, <2>2, Zenon
<1>8. \A k \in 0 .. N : off[k] \in Nat /\ off[k] =< Len(s)
  BY <1>3, <1>5, <1>6, CutsBelow
<1> DEFINE T == {k \in 0 .. N : k =< off[k]}
<1>9. 0 \in T
  BY <1>1, <1>7
<1>10. \A k \in 1 .. N : k - 1 \in T => k \in T
  <2> SUFFICES ASSUME NEW k \in 1 .. N, k - 1 =< off[k - 1] PROVE k =< off[k]
    BY <1>1
  <2>1. k - 1 \in 0 .. N
    BY <1>1
  <2>2. off[k - 1] \in Nat /\ off[k] = off[k - 1] + Len(Out(r[k]))
    BY <1>7, <2>1
  <2> QED
    BY <1>1, <1>2, <2>2
<1>11. \A k \in 0 .. N : k \in T
  <2> HIDE DEF T
  <2> QED
    BY <1>1, <1>9, <1>10, Climb, Zenon
<1>12. \A k \in 0 .. N : k =< off[k] /\ off[k] =< Len(s)
  BY <1>8, <1>11
<1>13. Layout(r, off)
  BY <1>7, <1>12, Zenon DEF Layout, s, N
<1> QED
  BY <1>5, <1>13, Zenon DEF s

\* p is s, or s cut short.
Short(p, s) == Len(p) =< Len(s) /\ \A i \in 1 .. Len(p) : p[i] = s[i]

\* The state of the printing loop after the first k calls of r.
At(r, off, k) == [used |-> off[k], left |-> Missing(r)[k], lines |-> SubSeq(r, 1, k)]

\* The k-th turn of the loop prints the k-th call if p holds its bytes.
Advances(p, r, off, k) ==
  /\ off[k] =< Len(p) => PrintNext(p, At(r, off, k - 1)) = At(r, off, k)
  /\ off[k] > Len(p) => PrintNext(p, At(r, off, k - 1)) = [At(r, off, k - 1) EXCEPT !.used = -1]

LEMMA PrintNextAt ==
  ASSUME NEW r \in Seq(Calls), IsReply(r), NEW off, Layout(r, off),
         NEW p \in Seq(Byte), Short(p, serialize(r)),
         NEW k \in 1 .. Len(r), off[k - 1] =< Len(p)
  PROVE  Advances(p, r, off, k)
<1> DEFINE t == r[k]
           s == serialize(r)
           o == off[k - 1]
           q == After(p, o)
           M == Missing(r)
           st == At(r, off, k - 1)
           v == FirstValue(q)
<1>1. Len(r) \in Nat /\ t \in Calls /\ k - 1 \in 0 .. Len(r) /\ k \in 0 .. Len(r)
  OBVIOUS
<1>2. s \in Seq(Byte) /\ Len(s) \in Nat /\ Len(p) \in Nat
  BY SerializeShape
<1>3. o \in Nat /\ off[k] \in Nat /\ off[k] = o + Len(Out(t)) /\ off[k] =< Len(s)
  BY <1>1, Zenon DEF Layout
<1>4. \A i \in 1 .. Len(Out(t)) : s[o + i] = Out(t)[i]
  BY DEF Layout
<1>5. Out(t) \in Seq(Byte) /\ Len(Out(t)) \in Nat
  <2>1. Out(t) \in Seq(Byte)
    BY <1>1, OutType
  <2> QED
    BY <2>1
<1>6. M[k - 1] \in Int /\ M[k - 1] > 0 /\ M[k] = M[k - 1] - 1 + Elements(t)
  <2>1. M \in [0 .. Len(r) -> Int] /\ M[k] = M[k - 1] - 1 + Elements(t)
    BY MissingStep
  <2>2. k - 1 \in 0 .. Len(r) - 1
    OBVIOUS
  <2> QED
    BY <1>1, <2>1, <2>2 DEF IsReply
<1>7. Fits(Len(s), Width)
  BY DEF IsReply
<1> HIDE DEF s, M, t
<1>8. Fits(Len(Out(t)), Width)
  <2>1. Len(Out(t)) =< Len(s)
    BY <1>2, <1>3, <1>5
  <2> QED
    BY <1>5, <1>7, <2>1, WidthType, FitsBelow
<1>9. q \in Seq(Byte) /\ Len(q) = Len(p) - o /\ \A i \in 1 .. Len(p) - o : q[i] = p[o + i]
  <2>1. o \in 0 .. Len(p)
    BY <1>2, <1>3
  <2> HIDE DEF o
  <2> QED
    BY <2>1, AfterShape, Zenon
<1>10. Follows(q, Out(t))
  <2> SUFFICES ASSUME NEW i \in 1 .. Len(Out(t)), i =< Len(q) PROVE q[i] = Out(t)[i]
    BY Zenon DEF Follows
  <2>1. i \in 1 .. Len(p) - o /\ o + i \in 1 .. Len(p)
    <3> HIDE DEF o, q
    <3> QED
      BY <1>2, <1>3, <1>5, <1>9
  <2>2. p[o + i] = s[o + i]
    BY <2>1, Zenon DEF Short, s
  <2> QED
    BY <1>4, <1>9, <2>1, <2>2, Zenon
<1>11. Printable(q, t)
  <2> HIDE DEF q
  <2> QED
    BY <1>1, <1>8, <1>9, <1>10, CallPrints
<1>12. st = [used |-> o, left |-> M[k - 1], lines |-> SubSeq(r, 1, k - 1)]
  BY Zenon DEF At, M
<1>13. st.used = o /\ st.left = M[k - 1] /\ st.lines = SubSeq(r, 1, k - 1)
  BY <1>12
<1>14. ~ (st.used < 0 \/ st.left = 0)
  <2> HIDE DEF o, st
  <2> QED
    BY <1>3, <1>6, <1>13
<1>15. CASE off[k] =< Len(p)
  <2>1. Len(q) >= Len(Out(t))
    <3> HIDE DEF o, q
    <3> QED
      BY <1>2, <1>3, <1>5, <1>9, <1>15
  <2>2. v = Line(Len(Out(t)), t)
    BY <1>11, <2>1, Zenon DEF Printable
  <2>3. v.size = Len(Out(t)) /\ v.line = t /\ v.more = Elements(t)
    BY <2>2 DEF Line
  <2>4. ~ (v.size < 0)
    <3> HIDE DEF v
    <3> QED
      BY <1>5, <2>3
  <2>5. Append(SubSeq(r, 1, k - 1), t) = SubSeq(r, 1, k)
    BY DEF t
  <2>6. PrintNext(p, st) = [used |-> o + Len(Out(t)), left |-> M[k - 1] - 1 + Elements(t),
                            lines |-> Append(SubSeq(r, 1, k - 1), t)]
    <3> HIDE DEF st
    <3>1. FirstValue(After(p, st.used)) = v
      BY <1>13
    <3> HIDE DEF v, o
    <3>2. PrintNext(p, st) = [used |-> st.used + v.size, left |-> st.left - 1 + v.more,
                              lines |-> Append(st.lines, v.line)]
      BY <1>14, <2>4, <3>1, Zenon DEF PrintNext
    <3> QED
      BY <1>13, <2>3, <3>2, Zenon
  <2>7. PrintNext(p, st) = At(r, off, k)
    BY <1>3, <1>6, <2>5, <2>6, Zenon DEF At, M
  <2>8. ~ (off[k] > Len(p))
    <3> HIDE DEF o
    <3> QED
      BY <1>2, <1>3, <1>15
  <2> QED
    BY <2>7, <2>8, Zenon DEF Advances
<1>16. CASE ~ (off[k] =< Len(p))
  <2>1. Len(q) < Len(Out(t))
    <3> HIDE DEF o, q
    <3> QED
      BY <1>2, <1>3, <1>5, <1>9, <1>16
  <2>2. v.size < 0
    BY <1>11, <2>1, Zenon DEF Printable
  <2>3. PrintNext(p, st) = [st EXCEPT !.used = -1]
    <3> HIDE DEF st
    <3>1. FirstValue(After(p, st.used)) = v
      BY <1>13
    <3> HIDE DEF v, o
    <3> QED
      BY <1>14, <2>2, <3>1, Zenon DEF PrintNext
  <2> QED
    BY <1>16, <2>3, Zenon DEF Advances
<1> QED
  BY <1>15, <1>16

\* The calls of r whose bytes p holds whole are its first j.
LEMMA WholeCalls ==
  ASSUME NEW r \in Seq(Calls), NEW off, Layout(r, off), NEW n \in Nat, n =< Len(serialize(r))
  PROVE  \E j \in 0 .. Len(r) :
           /\ \A k \in 0 .. j : off[k] =< n
           /\ j < Len(r) => off[j + 1] > n
           /\ j = Len(r) <=> n = Len(serialize(r))
<1> DEFINE N == Len(r)
           L == Len(serialize(r))
           S == {k \in 0 .. N : off[k] > n}
<1>1. N \in Nat /\ L \in Nat
  BY SerializeShape
<1>2. off \in [0 .. N -> Nat] /\ off[0] = 0 /\ off[N] = L
  BY Zenon DEF Layout
<1> HIDE DEF N, L
<1>3. CASE S = {}
  <2>1. \A k \in 0 .. N : off[k] =< n
    BY <1>1, <1>2, <1>3
  <2>2. n = L /\ N \in 0 .. N /\ ~ (N < N)
    BY <1>1, <1>2, <2>1 DEF L
  <2> QED
    BY <2>1, <2>2, Zenon DEF N, L
<1>4. CASE S # {}
  <2>1. S \in SUBSET Nat
    BY <1>1
  <2>2. PICK m \in S : \A x \in S : m =< x
    <3> HIDE DEF S
    <3> QED
      BY <1>4, <2>1, LeastNat
  <2>3. m \in 1 .. N /\ off[m] > n
    BY <1>1, <1>2, <2>2
  <2>4. \A k \in 0 .. m - 1 : off[k] =< n
    <3> SUFFICES ASSUME NEW k \in 0 .. m - 1, ~ (off[k] =< n) PROVE FALSE
      OBVIOUS
    <3>1. k \in 0 .. N /\ off[k] \in Nat
      BY <1>1, <1>2, <2>3
    <3>2. k \in S
      BY <3>1
    <3> QED
      BY <2>2, <2>3, <3>2
  <2>5. off[m] =< L
    <3>1. m \in 0 .. N
      BY <2>3
    <3> QED
      BY <3>1, Zenon DEF Layout, N, L
  <2>6. m - 1 \in 0 .. N /\ m - 1 # N /\ (m - 1) + 1 = m /\ n # L
    <3>1. off[m] \in Nat
      BY <1>2, <2>3
    <3> QED
      BY <1>1, <2>3, <2>5, <3>1
  <2> DEFINE j == m - 1
  <2>7. /\ j \in 0 .. N /\ (\A k \in 0 .. j : off[k] =< n)
        /\ (j < N => off[j + 1] > n) /\ (j = N <=> n = L)
    BY <2>3, <2>4, <2>6
  <2> HIDE DEF j
  <2> QED
    BY <2>7, Zenon DEF N, L
<1> QED
  BY <1>3, <1>4

\* A loop that follows the explicit function f is that function.
LEMMA PrintedIs ==
  ASSUME NEW p, Len(p) \in Nat, NEW f,
         f = [k \in 0 .. Len(p) + 1 |-> f[k]],
         f[0] = [used |-> 0, left |-> 1, lines |-> <<>>],
         \A k \in 1 .. Len(p) + 1 : f[k] = PrintNext(p, f[k - 1])
  PROVE  print_value(p) = f[Len(p) + 1]
<1> DEFINE N == Len(p) + 1
           first == [used |-> 0, left |-> 1, lines |-> <<>>]
           Def(g) == g = [k \in 0 .. N |-> IF k = 0 THEN first ELSE PrintNext(p, g[k - 1])]
           c == CHOOSE g : Def(g)
<1>1. N \in Nat /\ N \in 0 .. N /\ 0 \in 0 .. N
      /\ \A k \in 1 .. N : k \in 0 .. N /\ k # 0
  OBVIOUS
<1>2. print_value(p) = c[N]
  BY Zenon DEF print_value
<1>3. Def(f)
  <2>1. \A k \in 0 .. N : k = 0 \/ k \in 1 .. N
    OBVIOUS
  <2>2. \A k \in 0 .. N : f[k] = IF k = 0 THEN first ELSE PrintNext(p, f[k - 1])
    BY <2>1, Zenon
  <2> QED
    BY <2>2, Zenon
<1>4. Def(c)
  <2> HIDE DEF Def
  <2> QED
    BY <1>3, Zenon
<1> HIDE DEF c
<1>5. \A k \in 0 .. N : c[k] = IF k = 0 THEN first ELSE PrintNext(p, c[k - 1])
  BY <1>4, Zenon
<1> DEFINE T == {k \in 0 .. N : c[k] = f[k]}
<1>6. 0 \in T
  BY <1>1, <1>5, Zenon
<1>7. \A k \in 1 .. N : k - 1 \in T => k \in T
  <2> SUFFICES ASSUME NEW k \in 1 .. N, c[k - 1] = f[k - 1] PROVE c[k] = f[k]
    BY <1>1, Zenon
  <2> QED
    BY <1>1, <1>5, Zenon
<1>8. \A k \in 0 .. N : k \in T
  <2> HIDE DEF T, N
  <2> QED
    BY <1>1, <1>6, <1>7, Climb, Zenon
<1> QED
  BY <1>1, <1>2, <1>8, Zenon

LEMMA PrintsExactly ==
  ASSUME NEW r, IsReply(r), NEW p \in Seq(Byte), Short(p, serialize(r))
  PROVE  /\ Len(p) = Len(serialize(r)) =>
              print_value(p) = [used |-> Len(p), left |-> 0, lines |-> r]
         /\ Len(p) < Len(serialize(r)) => print_value(p).used < 0
<1> DEFINE N == Len(r)
           P == Len(p)
           L == Len(serialize(r))
<1>1. r \in Seq(Calls) /\ N \in Nat
  BY DEF IsReply
<1>2. serialize(r) \in Seq(Byte) /\ L \in Nat /\ P \in Nat /\ P =< L
  BY <1>1, SerializeShape DEF Short
<1>3. PICK off : Layout(r, off)
  BY <1>1, SerializeShape
<1>4. off \in [0 .. N -> Nat] /\ off[0] = 0 /\ off[N] = L /\ \A k \in 0 .. N : k =< off[k]
  BY <1>3, Zenon DEF Layout
<1>5. PICK j \in 0 .. N :
        /\ \A k \in 0 .. j : off[k] =< P
        /\ j < N => off[j + 1] > P
        /\ j = N <=> P = L
  BY <1>1, <1>2, <1>3, WholeCalls
<1>6. Missing(r)[N] = 0 /\ Missing(r)[0] = 1
  BY <1>1, MissingStep DEF IsReply
<1> DEFINE failed == [At(r, off, j) EXCEPT !.used = -1]
           f == [k \in 0 .. P + 1 |-> IF k =< j THEN At(r, off, k)
                                      ELSE IF j = N THEN At(r, off, j) ELSE failed]
<1>7. j \in 0 .. P
  <2>1. j =< off[j] /\ off[j] =< P /\ off[j] \in Nat
    BY <1>4, <1>5
  <2> QED
    BY <1>2, <2>1
<1>8. At(r, off, N) = [used |-> L, left |-> 0, lines |-> r]
  <2>1. SubSeq(r, 1, N) = r
    BY <1>1
  <2> QED
    BY <1>4, <1>6, <2>1, Zenon DEF At
<1>9. At(r, off, 0) = [used |-> 0, left |-> 1, lines |-> <<>>]
  <2>1. SubSeq(r, 1, 0) = <<>>
    BY <1>1
  <2> QED
    BY <1>4, <1>6, <2>1, Zenon DEF At
<1>10. failed.used = -1
  BY DEF At
<1> HIDE DEF failed, N, P, L
<1>11. f = [k \in 0 .. P + 1 |-> f[k]]
  OBVIOUS
<1>12. f[0] = [used |-> 0, left |-> 1, lines |-> <<>>]
  BY <1>2, <1>7, <1>9
<1>13. f[P + 1] = IF j = N THEN At(r, off, j) ELSE failed
  BY <1>2, <1>7
<1>14. \A k \in 0 .. P + 1 : /\ k =< j => f[k] = At(r, off, k)
                             /\ k > j /\ j = N => f[k] = At(r, off, N)
                             /\ k > j /\ j # N => f[k] = failed
  BY <1>2, <1>7
<1> HIDE DEF f
<1>15. ASSUME NEW k \in 1 .. P + 1
       PROVE  f[k] = PrintNext(p, f[k - 1])
  <2>1. k \in 0 .. P + 1 /\ k - 1 \in 0 .. P + 1 /\ k \in Nat
    BY <1>2
  <2>2. CASE k =< j
    <3>1. k \in 1 .. N /\ k - 1 \in 0 .. j /\ k \in 0 .. j /\ k - 1 =< j
      BY <1>1, <1>7, <2>1, <2>2 DEF N
    <3>2. off[k - 1] =< P /\ off[k] =< P
      BY <1>5, <3>1, Zenon
    <3>3. PrintNext(p, At(r, off, k - 1)) = At(r, off, k)
      <4>1. Advances(p, r, off, k)
        BY <1>1, <1>3, <3>1, <3>2, PrintNextAt DEF N, P
      <4> QED
        BY <3>2, <4>1, Zenon DEF Advances, P
    <3> QED
      BY <1>14, <2>1, <2>2, <3>1, <3>3, Zenon
  <2>3. CASE k > j /\ j = N
    <3>1. f[k] = At(r, off, N)
      BY <1>14, <2>1, <2>3, Zenon
    <3>2. f[k - 1] = At(r, off, N)
      <4>1. k - 1 = N \/ k - 1 > j
        BY <1>7, <2>1, <2>3
      <4>2. k - 1 = N => k - 1 =< j
        BY <1>7, <2>3
      <4> QED
        BY <1>14, <2>1, <2>3, <4>1, <4>2, Zenon
    <3>3. At(r, off, N).left = 0
      BY <1>8
    <3> QED
      BY <3>1, <3>2, <3>3, Zenon DEF PrintNext
  <2>4. CASE k > j /\ j # N
    <3>1. f[k] = failed
      BY <1>14, <2>1, <2>4, Zenon
    <3>2. CASE k - 1 = j
      <4>1. k \in 1 .. N /\ j < N /\ k = j + 1 /\ j =< j /\ j \in 0 .. j
        BY <1>1, <1>7, <2>1, <2>4, <3>2 DEF N
      <4>2. off[k - 1] =< P /\ off[k] > P
        BY <1>5, <3>2, <4>1, Zenon
      <4>3. PrintNext(p, At(r, off, k - 1)) = [At(r, off, k - 1) EXCEPT !.used = -1]
        <5>1. Advances(p, r, off, k)
          BY <1>1, <1>3, <4>1, <4>2, PrintNextAt DEF N, P
        <5> QED
          BY <4>2, <5>1, Zenon DEF Advances, P
      <4>4. PrintNext(p, At(r, off, j)) = failed
        BY <3>2, <4>3, Zenon DEF failed
      <4>5. f[k - 1] = At(r, off, j)
        BY <1>14, <2>1, <3>2, <4>1, Zenon
      <4> QED
        BY <3>1, <4>4, <4>5, Zenon
    <3>3. CASE k - 1 # j
      <4>1. k - 1 > j
        BY <1>7, <2>1, <2>4, <3>3
      <4>2. f[k - 1] = failed
        BY <1>14, <2>1, <2>4, <4>1, Zenon
      <4>3. failed.used < 0
        BY <1>10
      <4> QED
        BY <3>1, <4>2, <4>3, Zenon DEF PrintNext
    <3> QED
      BY <3>2, <3>3
  <2> QED
    BY <1>7, <2>1, <2>2, <2>3, <2>4
<1>16. print_value(p) = f[P + 1]
  BY <1>2, <1>11, <1>12, <1>15, PrintedIs, Zenon DEF P
<1>17. CASE P = L
  <2>1. print_value(p) = [used |-> P, left |-> 0, lines |-> r]
    BY <1>5, <1>8, <1>13, <1>16, <1>17, Zenon
  <2>2. ~ (P < L)
    BY <1>2, <1>17
  <2> QED
    BY <2>1, <2>2, Zenon DEF P, L
<1>18. CASE P # L
  <2>1. print_value(p) = failed
    BY <1>5, <1>13, <1>16, <1>18, Zenon
  <2>2. print_value(p).used < 0
    BY <1>10, <2>1
  <2> QED
    BY <1>18, <2>2, Zenon DEF P, L
<1> QED
  BY <1>17, <1>18

-----------------------------------------------------------------------------
(* The conversation. *)

IsFrame(s, b) == s = Sized(b) /\ Fits(Len(b), Width)

(* What is between the client and the server, for each thing the client    *)
(* may be doing: the request is whole until the server takes all of it,    *)
(* the bytes read and the bytes still on their way are the reply, and the  *)
(* client waits for exactly what is left of it.                            *)
InFlight ==
  /\ pc = "write" => /\ IsFrame(up \o unsent, body) /\ unsent # <<>> /\ reply = <<>>
                     /\ down = <<>> /\ buf = <<>> /\ need = Width
  /\ pc = "header" /\ reply = <<>> => /\ IsFrame(up, body) /\ unsent = <<>>
                                      /\ down = <<>> /\ buf = <<>> /\ need = Width
  /\ pc = "header" /\ reply # <<>> => /\ buf \o down = Sized(serialize(reply)) /\ unsent = <<>>
                                      /\ need > 0 /\ need + Len(buf) = Width
  /\ pc = "body" => /\ reply # <<>> /\ buf \o down = serialize(reply) /\ unsent = <<>>
                    /\ need > 0 /\ need = Len(down)
  /\ pc = "prompt" => unsent = <<>> /\ up = <<>> /\ down = <<>>
  /\ pc = "prompt" /\ reply # <<>> => resp = serialize(reply)
  /\ pc = "other program" /\ reply = <<>> => IsFrame(up, body)
  /\ pc = "bad reply" => reply # <<>> /\ Len(serialize(reply)) > MAX_MSG
  /\ pc = "failed" => closed
  /\ pc = "command too long" => up = <<>>

\* A reply answers the last body, all of which was read and parsed.
Answered ==
  reply # <<>> => IsReply(reply) /\ cmd = parse_req(body) /\ Len(body) =< MAX_MSG /\ up = <<>>

WireType ==
  /\ pc \in {"prompt", "write", "header", "body", "failed", "bad reply", "command too long",
             "other program"}
  /\ body \in Seq(Byte) /\ unsent \in Seq(Byte) /\ up \in Seq(Byte)
  /\ down \in Seq(Byte) /\ buf \in Seq(Byte) /\ resp \in Seq(Byte)
  /\ need \in Nat

Conversation == WireType /\ Answered /\ InFlight

\* The header of a frame gives the length of its body as soon as it has arrived.
LEMMA FrameLength ==
  ASSUME NEW u \in Seq(Byte), NEW v \in Seq(Byte), NEW b \in Seq(Byte), IsFrame(u \o v, b),
         Len(u) >= Width
  PROVE  read_u32(u) = Len(b) /\ Len(u) + Len(v) = Width + Len(b)
<1> DEFINE c == Bytes(Len(b), Width)
<1>1. Width \in Nat /\ Len(b) \in Nat /\ Len(u) \in Nat /\ Len(v) \in Nat
  BY WidthType
<1>2. c \in Seq(Byte) /\ Len(c) = Width
  BY <1>1, BytesType
<1>3. u \o v = c \o b /\ Fits(Len(b), Width)
  BY DEF IsFrame, Sized, write_u32
<1> HIDE DEF c
<1>4. Joins(u \o v, u, v) /\ Joins(c \o b, c, b)
  BY <1>2, Concat
<1>5. Len(u) + Len(v) = Width + Len(b)
  BY <1>2, <1>3, <1>4, Zenon DEF Joins
<1>6. \A i \in 1 .. Width : u[i] = c[i]
  <2> SUFFICES ASSUME NEW i \in 1 .. Width PROVE u[i] = c[i]
    OBVIOUS
  <2>1. i \in 1 .. Len(u) /\ i \in 1 .. Len(c)
    BY <1>1, <1>2
  <2> QED
    BY <1>3, <1>4, <2>1, Zenon DEF Joins
<1>7. read_u32(u) = Len(b)
  BY <1>1, <1>3, <1>6, NumberBytes DEF read_u32, c
<1> QED
  BY <1>5, <1>7

LEMMA ReplyNotEmpty ==
  ASSUME NEW r, IsReply(r)
  PROVE  /\ r # <<>> /\ serialize(r) \in Seq(Byte) /\ Len(serialize(r)) >= 1
         /\ Fits(Len(serialize(r)), Width)
<1>1. r \in Seq(Calls) /\ Len(r) \in Nat /\ Missing(r)[Len(r)] = 0 /\ Fits(Len(serialize(r)), Width)
  BY DEF IsReply
<1>2. Missing(r)[0] = 1
  BY <1>1, MissingStep
<1>3. Len(r) # 0
  BY <1>1, <1>2
<1>4. PICK off : Layout(r, off)
  BY <1>1, SerializeShape
<1>5. serialize(r) \in Seq(Byte)
  BY <1>1, SerializeShape
<1>6. Len(r) =< Len(serialize(r))
  <2>1. Len(r) \in 0 .. Len(r)
    BY <1>1
  <2>2. Len(r) =< off[Len(r)] /\ off[Len(r)] = Len(serialize(r))
    BY <1>4, <2>1, Zenon DEF Layout
  <2> QED
    BY <2>2, Zenon
<1> QED
  BY <1>1, <1>3, <1>5, <1>6

\* v after n bytes of it have moved behind u.
Moved(u, v, n) ==
  /\ u \o SubSeq(v, 1, n) \in Seq(Byte) /\ Len(u \o SubSeq(v, 1, n)) = Len(u) + n
  /\ After(v, n) \in Seq(Byte) /\ Len(After(v, n)) = Len(v) - n
  /\ (u \o SubSeq(v, 1, n)) \o After(v, n) = u \o v

LEMMA MoveBytes ==
  ASSUME NEW u \in Seq(Byte), NEW v \in Seq(Byte), NEW n \in 1 .. Len(v)
  PROVE  Moved(u, v, n)
<1> DEFINE h == SubSeq(v, 1, n)
           t == After(v, n)
<1>1. h \in Seq(Byte) /\ Len(h) = n
  OBVIOUS
<1>2. n \in 0 .. Len(v) /\ n \in Nat /\ Len(v) \in Nat
  OBVIOUS
<1>3. t \in Seq(Byte) /\ Len(t) = Len(v) - n /\ \A i \in 1 .. Len(v) - n : t[i] = v[n + i]
  BY <1>2, AfterShape
<1>4. h \o t = v
  <2>1. \A i \in 1 .. n : h[i] = v[i]
    OBVIOUS
  <2> HIDE DEF h, t
  <2>2. h \o t \in Seq(Byte) /\ Joins(h \o t, h, t)
    BY <1>1, <1>3, Concat
  <2>3. Len(h \o t) = Len(v)
    BY <1>1, <1>2, <1>3, <2>2 DEF Joins
  <2>4. ASSUME NEW i \in 1 .. Len(v) PROVE (h \o t)[i] = v[i]
    <3>1. CASE i =< n
      <4>1. i \in 1 .. n
        BY <1>2, <3>1
      <4> QED
        BY <1>1, <2>1, <2>2, <4>1, Zenon DEF Joins
    <3>2. CASE ~ (i =< n)
      <4>1. i - n \in 1 .. Len(v) - n /\ n + (i - n) = i
        BY <1>2, <3>2
      <4> QED
        BY <1>1, <1>3, <2>2, <4>1, Zenon DEF Joins
    <3> QED
      BY <3>1, <3>2
  <2> QED
    BY <2>2, <2>3, <2>4, SameSeq
<1>5. u \o h \in Seq(Byte) /\ Len(u \o h) = Len(u) + n
  BY <1>1
<1>6. (u \o h) \o t = u \o v
  <2> HIDE DEF h, t
  <2>1. (u \o h) \o t = u \o (h \o t)
    BY <1>1, <1>3
  <2> QED
    BY <1>4, <2>1, Zenon
<1> QED
  BY <1>3, <1>5, <1>6 DEF Moved

\* The header has been taken off a frame: its body is left.
LEMMA BodyLeft ==
  ASSUME NEW u \in Seq(Byte), NEW v \in Seq(Byte), NEW b \in Seq(Byte), u \o v = Sized(b),
         Len(u) = Width
  PROVE  v = b
<1>1. Width \in Nat /\ Len(u) \in Nat /\ Len(v) \in Nat /\ Len(b) \in Nat
  BY WidthType
<1>2. Joins(Sized(b), u, v)
  BY Concat
<1>3. Len(Sized(b)) = Width + Len(b) /\ \A i \in 1 .. Len(b) : Sized(b)[Width + i] = b[i]
  BY SizedShape
<1>4. Len(Sized(b)) = Width + Len(v) /\ \A i \in 1 .. Len(v) : Sized(b)[Width + i] = v[i]
  BY <1>2, Zenon DEF Joins
<1>5. Len(v) = Len(b)
  BY <1>1, <1>3, <1>4
<1>6. \A i \in 1 .. Len(v) : v[i] = b[i]
  BY <1>3, <1>4, <1>5, Zenon
<1> QED
  BY <1>5, <1>6, SameSeq

\* A whole frame gives its body, and nothing is left of it.
LEMMA FrameTaken ==
  ASSUME NEW u \in Seq(Byte), NEW b \in Seq(Byte), IsFrame(u, b)
  PROVE  /\ read_u32(u) = Len(b) /\ SubSeq(u, Width + 1, Width + Len(b)) = b
         /\ After(u, Width + Len(b)) = <<>>
<1>1. u = Sized(b) /\ Fits(Len(b), Width)
  BY DEF IsFrame
<1>2. Begins(u, Sized(b))
  <2>1. Len(u) \in Nat
    OBVIOUS
  <2>2. Len(u) >= Len(u)
    BY <2>1
  <2> QED
    BY <1>1, <2>2, Zenon DEF Begins
<1>3. read_u32(u) = Len(b) /\ SubSeq(u, Width + 1, Width + Len(b)) = b
  BY <1>1, <1>2, CountedRead
<1>4. Len(u) = Width + Len(b)
  BY <1>1, SizedShape
<1>5. After(u, Width + Len(b)) = <<>>
  <2> DEFINE e == After(u, Width + Len(b))
  <2>1. Width + Len(b) \in 0 .. Len(u) /\ Len(u) - (Width + Len(b)) = 0
    BY <1>4, WidthType
  <2>2. e \in Seq(Byte) /\ Len(e) = 0
    BY <2>1, AfterShape
  <2> HIDE DEF e
  <2>3. e = <<>>
    BY <2>2
  <2> QED
    BY <2>3 DEF e
<1> QED
  BY <1>3, <1>5

LEMMA ConversationInit == Init => Conversation
<1> SUFFICES ASSUME Init PROVE Conversation
  OBVIOUS
<1>1. <<>> \in Seq(Byte)
  OBVIOUS
<1>2. WireType
  BY <1>1 DEF Init, WireType
<1> QED
  BY <1>2 DEF Init, Conversation, Answered, InFlight

LEMMA SendKeeps ==
  ASSUME Conversation, NEW args \in Commands, send_command(args)
  PROVE  Conversation'
<1> DEFINE b == Encode(args)
<1>1. args \in Seq(Seq(Byte)) /\ Fits(MAX_MSG, Width)
  BY WireAssumption
<1>2. b \in Seq(Byte) /\ Len(b) \in Nat
  <2>1. b \in Seq(Byte)
    BY <1>1, EncodeShape
  <2> HIDE DEF b
  <2> QED
    BY <2>1
<1>3. pc = "prompt" /\ unsent = <<>> /\ up = <<>> /\ down = <<>>
  BY DEF Conversation, InFlight, send_command, MoreInput
<1>4. body' = b /\ reply' = <<>> /\ resp' = <<>> /\ up' = <<>> /\ down' = <<>>
  BY <1>3 DEF send_command
<1> HIDE DEF b
<1>5. CASE Len(b) > MAX_MSG
  <2>1. pc' = "command too long" /\ unsent' = unsent /\ buf' = buf /\ need' = need
    BY <1>4, <1>5 DEF send_command
  <2>2. WireType'
    <3>1. <<>> \in Seq(Byte)
      OBVIOUS
    <3>2. unsent \in Seq(Byte) /\ buf \in Seq(Byte) /\ need \in Nat
      BY DEF WireType, Conversation
    <3> QED
      BY <1>2, <1>4, <2>1, <3>1, <3>2 DEF WireType
  <2> QED
    BY <1>4, <2>1, <2>2 DEF Conversation, Answered, InFlight
<1>6. CASE ~ (Len(b) > MAX_MSG)
  <2>1. pc' = "write" /\ unsent' = Sized(b) /\ buf' = <<>> /\ need' = Width
    BY <1>4, <1>6 DEF send_command
  <2>2. Sized(b) \in Seq(Byte) /\ Len(Sized(b)) = Width + Len(b)
    BY <1>2, SizedShape
  <2>3. WireType'
    BY <1>2, <1>4, <2>1, <2>2, WidthType DEF WireType
  <2>4. Sized(b) # <<>> /\ <<>> \o Sized(b) = Sized(b)
    <3> DEFINE z == Sized(b)
    <3>1. Len(z) # 0
      BY <1>2, <2>2, WidthType
    <3> HIDE DEF z
    <3>2. z # <<>> /\ <<>> \o z = z
      BY <2>2, <3>1 DEF z
    <3> QED
      BY <3>2 DEF z
  <2>5. Fits(Len(b), Width)
    <3>1. MAX_MSG \in Nat
      BY <1>1 DEF Fits
    <3>2. Len(b) =< MAX_MSG
      <4>1. \A x, y \in Nat : ~ (x > y) => x =< y
        OBVIOUS
      <4> QED
        BY <1>2, <1>6, <3>1, <4>1, Zenon
    <3> QED
      BY <1>1, <1>2, <3>2, WidthType, FitsBelow
  <2>6. IsFrame(up' \o unsent', body')
    BY <1>4, <2>1, <2>4, <2>5 DEF IsFrame
  <2> QED
    BY <1>4, <2>1, <2>3, <2>4, <2>6 DEF Conversation, Answered, InFlight
<1> QED
  BY <1>5, <1>6

LEMMA WriteKeeps ==
  ASSUME Conversation, write_all
  PROVE  Conversation'
<1> USE DEF write_all
<1>1. pc = "write" /\ IsFrame(up \o unsent, body) /\ reply = <<>> /\ down = <<>> /\ buf = <<>>
      /\ need = Width
  BY DEF Conversation, InFlight
<1>2. up \in Seq(Byte) /\ unsent \in Seq(Byte)
  BY DEF Conversation, WireType
<1>3. PICK n \in 1 .. Len(unsent) : up' = up \o SubSeq(unsent, 1, n) /\ unsent' = After(unsent, n)
  BY Zenon
<1>4. Moved(up, unsent, n)
  BY <1>2, MoveBytes
<1>5. up' \in Seq(Byte) /\ unsent' \in Seq(Byte) /\ up' \o unsent' = up \o unsent
  BY <1>3, <1>4, Zenon DEF Moved
<1>6. /\ <<down, buf, need, body, cmd, reply, resp, closed>>' =
           <<down, buf, need, body, cmd, reply, resp, closed>>
      /\ pc' = IF unsent' = <<>> THEN "header" ELSE "write"
  OBVIOUS
<1>7. WireType'
  BY <1>5, <1>6 DEF Conversation, WireType
<1>8. Answered'
  BY <1>1, <1>6 DEF Answered
<1>9. IsFrame(up' \o unsent', body')
  BY <1>1, <1>5, <1>6
<1>10. unsent' = <<>> => up' \o unsent' = up'
  BY <1>5
<1>11. InFlight'
  BY <1>1, <1>6, <1>9, <1>10 DEF InFlight
<1> QED
  BY <1>7, <1>8, <1>11 DEF Conversation

LEMMA FailureKeeps ==
  ASSUME Conversation, WriteFails \/ ReadFails \/ ServerCloses
  PROVE  Conversation'
<1>1. CASE WriteFails \/ ReadFails
  <2>1. /\ pc' = "failed" /\ closed
        /\ <<unsent, up, down, buf, need, body, cmd, reply, resp, closed>>' =
             <<unsent, up, down, buf, need, body, cmd, reply, resp, closed>>
    BY <1>1 DEF WriteFails, ReadFails
  <2> QED
    BY <2>1 DEF Conversation, WireType, Answered, InFlight
<1>2. CASE ServerCloses
  <2>1. /\ closed'
        /\ <<pc, unsent, up, down, buf, need, body, cmd, reply, resp>>' =
             <<pc, unsent, up, down, buf, need, body, cmd, reply, resp>>
    BY <1>2 DEF ServerCloses
  <2> QED
    BY <2>1 DEF Conversation, WireType, Answered, InFlight
<1> QED
  BY <1>1, <1>2

LEMMA OtherKeeps ==
  ASSUME Conversation, NEW b \in Bodies, OtherProgram(b)
  PROVE  Conversation'
<1>1. b \in Seq(Byte) /\ Fits(Len(b), Width)
  BY WireAssumption
<1>2. Sized(b) \in Seq(Byte)
  BY <1>1, SizedShape
<1>3. /\ pc' = "other program" /\ body' = b /\ up' = Sized(b) /\ reply' = <<>> /\ resp' = <<>>
      /\ unsent' = unsent /\ down' = down /\ buf' = buf /\ need' = need
  BY DEF OtherProgram, MoreInput
<1>4. WireType'
  <2>1. <<>> \in Seq(Byte)
    OBVIOUS
  <2>2. unsent \in Seq(Byte) /\ down \in Seq(Byte) /\ buf \in Seq(Byte) /\ need \in Nat
    BY DEF WireType, Conversation
  <2> QED
    BY <1>1, <1>2, <1>3, <2>1, <2>2 DEF WireType
<1>5. IsFrame(up', body')
  BY <1>1, <1>3 DEF IsFrame
<1> QED
  BY <1>3, <1>4, <1>5 DEF Conversation, Answered, InFlight

\* Only a whole request is answered: the server is waiting for one, or it is all there.
LEMMA ServerReads ==
  ASSUME Conversation, ~ closed, Len(up) >= Width, Len(up) >= Width + read_u32(up)
  PROVE  /\ reply = <<>> /\ IsFrame(up, body) /\ pc \in {"header", "other program"}
         /\ pc = "header" => unsent = <<>> /\ down = <<>> /\ buf = <<>> /\ need = Width
<1>1. up \in Seq(Byte) /\ unsent \in Seq(Byte) /\ body \in Seq(Byte)
  BY DEF Conversation, WireType
<1>2. up # <<>>
  <2>1. Len(up) \in Nat /\ Width \in Nat /\ Width > 0
    BY <1>1, WidthType
  <2>2. Len(up) # 0
    BY <2>1
  <2> QED
    BY <2>2
<1>3. reply = <<>>
  BY <1>2 DEF Conversation, Answered
<1>4. pc # "write"
  <2> SUFFICES ASSUME pc = "write" PROVE FALSE
    OBVIOUS
  <2>1. IsFrame(up \o unsent, body) /\ unsent # <<>>
    BY DEF Conversation, InFlight
  <2>2. read_u32(up) = Len(body) /\ Len(up) + Len(unsent) = Width + Len(body)
    BY <1>1, <2>1, FrameLength
  <2>3. Len(up) \in Nat /\ Len(unsent) \in Nat /\ Len(body) \in Nat /\ Width \in Nat
        /\ Len(unsent) # 0
    BY <1>1, <2>1, WidthType
  <2>4. Len(up) >= Width + Len(body)
    BY <2>2, Zenon
  <2> QED
    BY <2>2, <2>3, <2>4
<1>5. pc \in {"header", "other program"}
  BY <1>2, <1>3, <1>4 DEF Conversation, WireType, InFlight
<1> QED
  BY <1>3, <1>5 DEF Conversation, InFlight

\* KEYS replies one array: its header announces as many strings as follow it.
LEMMA ListingIsReply ==
  ASSUME NEW keys \in Stored
  PROVE  IsReply(Listing(keys))
<1> DEFINE r == Listing(keys)
           n == Len(keys)
           head == [tag |-> "arr", n |-> n]
           strs == [i \in DOMAIN keys |-> [tag |-> "str", str |-> keys[i]]]
           M == Missing(r)
<1>1. /\ keys \in Seq(Seq(Byte)) /\ n \in Nat /\ Fits(n, Width)
      /\ Fits(Len(serialize(r)), Width)
  BY WireAssumption
<1>2. head \in Calls /\ Elements(head) = n
  BY <1>1 DEF Calls, Number32, Elements
<1>3. \A i \in 1 .. n : strs[i] \in Calls /\ Elements(strs[i]) = 0
  BY <1>1 DEF Calls, Elements
<1>4. strs \in Seq(Calls) /\ Len(strs) = n
  <2>1. DOMAIN strs = 1 .. n /\ strs = [i \in 1 .. n |-> strs[i]]
    BY <1>1
  <2> HIDE DEF strs
  <2>2. strs \in [1 .. n -> Calls]
    BY <1>3, <2>1
  <2> HIDE DEF n
  <2> QED
    BY <1>1, <2>2
<1>5. <<head>> \in Seq(Calls) /\ Len(<<head>>) = 1 /\ <<head>>[1] = head
  <2> HIDE DEF head
  <2> QED
    BY <1>2
<1>6. r \in Seq(Calls) /\ Joins(r, <<head>>, strs)
  BY <1>4, <1>5, Concat, Zenon DEF Listing
<1> HIDE DEF r, n, head, strs
<1>7. Len(r) = n + 1 /\ r[1] = head /\ \A i \in 1 .. n : r[1 + i] = strs[i]
  BY <1>1, <1>4, <1>5, <1>6 DEF Joins
<1>8. /\ M \in [0 .. Len(r) -> Int] /\ M[0] = 1
      /\ \A k \in 1 .. Len(r) : M[k] = M[k - 1] - 1 + Elements(r[k])
  BY <1>6, MissingStep
<1> HIDE DEF M
<1>9. M[1] = n
  BY <1>1, <1>2, <1>7, <1>8
<1> DEFINE T == {k \in 0 .. n : M[k + 1] = n - k}
<1>10. 0 \in T
  BY <1>1, <1>9
<1>11. \A k \in 1 .. n : k - 1 \in T => k \in T
  <2> SUFFICES ASSUME NEW k \in 1 .. n, M[(k - 1) + 1] = n - (k - 1) PROVE M[k + 1] = n - k
    BY <1>1
  <2>1. Elements(r[1 + k]) = 0 /\ 1 + k = k + 1
    BY <1>1, <1>3, <1>7
  <2>2. M[k + 1] = M[(k + 1) - 1] - 1 + Elements(r[k + 1])
    BY <1>1, <1>7, <1>8
  <2> QED
    BY <1>1, <2>1, <2>2
<1>12. \A k \in 0 .. n : k \in T
  <2> HIDE DEF T
  <2> QED
    BY <1>1, <1>10, <1>11, Climb, Zenon
<1>13. \A k \in 0 .. Len(r) - 1 : M[k] > 0
  <2> SUFFICES ASSUME NEW k \in 0 .. n PROVE M[k] > 0
    BY <1>1, <1>7
  <2>1. CASE k = 0
    BY <1>8, <2>1
  <2>2. CASE k # 0
    <3>1. k - 1 \in 0 .. n /\ (k - 1) + 1 = k
      BY <1>1, <2>2
    <3>2. M[(k - 1) + 1] = n - (k - 1)
      BY <1>12, <3>1
    <3> QED
      BY <1>1, <3>1, <3>2
  <2> QED
    BY <2>1, <2>2
<1>14. M[Len(r)] = 0
  <2>1. n \in 0 .. n /\ n - n = 0
    BY <1>1
  <2> QED
    BY <1>7, <1>12, <2>1
<1> QED
  BY <1>1, <1>6, <1>13, <1>14 DEF IsReply, M, r

\* Whatever do_request answers is one value.
LEMMA AnswersAreReplies ==
  ASSUME NEW args, NEW r \in Answers(args)
  PROVE  IsReply(r)
<1>1. CASE args = <<>>
  BY <1>1, WireAssumption DEF Answers
<1>2. CASE args # <<>> /\ args = <<KEYS>>
  BY <1>2, ListingIsReply DEF Answers
<1>3. CASE args # <<>> /\ args # <<KEYS>>
  BY <1>3, WireAssumption DEF Answers
<1> QED
  BY <1>1, <1>2, <1>3

LEMMA ServerKeeps ==
  ASSUME Conversation, try_one_request
  PROVE  Conversation'
<1>1. /\ ~ closed /\ Len(up) >= Width /\ read_u32(up) =< MAX_MSG
      /\ Len(up) >= Width + read_u32(up)
      /\ cmd' = parse_req(SubSeq(up, Width + 1, Width + read_u32(up)))
      /\ up' = After(up, Width + read_u32(up))
      /\ pc' = pc /\ unsent' = unsent /\ buf' = buf /\ need' = need /\ body' = body
      /\ resp' = resp /\ closed' = closed
  BY DEF try_one_request
<1>2. PICK r : /\ r \in {ErrArg} \cup Answers(cmd'.out)
               /\ reply' = r /\ down' = down \o Sized(serialize(r))
  BY Zenon DEF try_one_request
<1>3. /\ reply = <<>> /\ IsFrame(up, body) /\ pc \in {"header", "other program"}
      /\ pc = "header" => unsent = <<>> /\ down = <<>> /\ buf = <<>> /\ need = Width
  BY <1>1, ServerReads, Zenon
<1>4. /\ up \in Seq(Byte) /\ body \in Seq(Byte) /\ down \in Seq(Byte) /\ unsent \in Seq(Byte)
      /\ buf \in Seq(Byte) /\ resp \in Seq(Byte) /\ need \in Nat
  BY Zenon DEF Conversation, WireType
<1>5. /\ read_u32(up) = Len(body) /\ SubSeq(up, Width + 1, Width + Len(body)) = body
      /\ After(up, Width + Len(body)) = <<>>
  BY <1>3, <1>4, FrameTaken, Zenon
<1>6. cmd' = parse_req(body) /\ up' = <<>> /\ Len(body) =< MAX_MSG
  BY <1>1, <1>5, Zenon
<1>7. IsReply(r)
  <2>1. r = ErrArg \/ r \in Answers(cmd'.out)
    BY <1>2
  <2> QED
    BY <2>1, AnswersAreReplies, WireAssumption, Zenon
<1>8. r # <<>> /\ serialize(r) \in Seq(Byte)
  BY <1>7, ReplyNotEmpty
<1> DEFINE z == Sized(serialize(r))
<1>9. z \in Seq(Byte)
  BY <1>8, SizedShape
<1> HIDE DEF z
<1>10. down' = down \o z
  BY <1>2 DEF z
<1>11. WireType'
  <2>1. down' \in Seq(Byte)
    BY <1>4, <1>9, <1>10
  <2>2. <<>> \in Seq(Byte)
    OBVIOUS
  <2>3. pc' \in {"header", "other program"}
    BY <1>1, <1>3, Zenon
  <2> QED
    BY <1>1, <1>4, <1>6, <2>1, <2>2, <2>3, Zenon DEF WireType
<1>12. Answered'
  BY <1>1, <1>2, <1>6, <1>7 DEF Answered
<1>13. pc = "header" => buf' \o down' = z /\ Len(buf') = 0
  <2>1. <<>> \o (<<>> \o z) = z /\ Len(<<>>) = 0
    BY <1>9
  <2> QED
    BY <1>1, <1>3, <1>10, <2>1, Zenon
<1>14. Width > 0 /\ Width + 0 = Width
  BY WidthType
<1>15. InFlight'
  <2>1. CASE pc = "other program"
    BY <1>1, <1>2, <1>8, <2>1, Zenon DEF InFlight
  <2>2. CASE pc = "header"
    <3>1. pc' = "header" /\ reply' # <<>> /\ unsent' = <<>>
      BY <1>1, <1>2, <1>3, <1>8, <2>2, Zenon
    <3>2. buf' \o down' = Sized(serialize(reply')) /\ need' > 0 /\ need' + Len(buf') = Width
      BY <1>1, <1>2, <1>3, <1>13, <1>14, <2>2, Zenon DEF z
    <3> QED
      BY <3>1, <3>2 DEF InFlight
  <2> QED
    BY <1>3, <2>1, <2>2, Zenon
<1> QED
  BY <1>11, <1>12, <1>15 DEF Conversation

LEMMA ReadKeeps ==
  ASSUME Conversation, read_full
  PROVE  Conversation'
<1> DEFINE s == serialize(reply)
<1>1. pc \in {"header", "body"} /\ <<unsent, up, body, cmd, reply, closed>>' =
                                     <<unsent, up, body, cmd, reply, closed>>
  BY DEF read_full
<1>2. PICK n \in 1 .. Len(down) :
        LET all == buf \o SubSeq(down, 1, n)
        IN  /\ n =< need /\ down' = After(down, n)
            /\ IF n < need THEN buf' = all /\ need' = need - n /\ UNCHANGED <<pc, resp>>
               ELSE /\ buf' = <<>>
                    /\ IF pc = "header" THEN HeaderRead(read_u32(all))
                       ELSE pc' = "prompt" /\ need' = 0 /\ resp' = all
  BY DEF read_full
<1> DEFINE all == buf \o SubSeq(down, 1, n)
<1>3. /\ up \in Seq(Byte) /\ body \in Seq(Byte) /\ down \in Seq(Byte) /\ unsent \in Seq(Byte)
      /\ buf \in Seq(Byte) /\ resp \in Seq(Byte) /\ need \in Nat /\ <<>> \in Seq(Byte)
  <2>1. <<>> \in Seq(Byte)
    OBVIOUS
  <2> QED
    BY <2>1, Zenon DEF Conversation, WireType
<1>4. Moved(buf, down, n)
  BY <1>3, MoveBytes
<1>5. /\ all \in Seq(Byte) /\ Len(all) = Len(buf) + n /\ down' \in Seq(Byte)
      /\ Len(down') = Len(down) - n /\ all \o down' = buf \o down
  BY <1>2, <1>4, Zenon DEF Moved
<1>6. /\ n \in Nat /\ n > 0 /\ n =< need /\ n =< Len(down) /\ Len(down) \in Nat
      /\ Len(buf) \in Nat /\ MAX_MSG \in Nat /\ Width \in Nat
  BY <1>2, <1>3, WidthType, WireAssumption DEF Fits
<1>7. reply # <<>>
  <2>1. down # <<>>
    BY <1>6
  <2> QED
    BY <1>1, <2>1 DEF Conversation, InFlight
<1>8. IsReply(reply) /\ up = <<>> /\ unsent = <<>>
  BY <1>1, <1>7 DEF Conversation, Answered, InFlight
<1>9. s \in Seq(Byte) /\ Len(s) >= 1 /\ Fits(Len(s), Width) /\ Len(s) \in Nat
  <2>1. s \in Seq(Byte) /\ Len(s) >= 1 /\ Fits(Len(s), Width)
    BY <1>8, ReplyNotEmpty
  <2> HIDE DEF s
  <2> QED
    BY <2>1
<1>10. /\ pc = "header" => buf \o down = Sized(s) /\ need + Len(buf) = Width
       /\ pc = "body" => buf \o down = s /\ need = Len(down)
  BY <1>7 DEF Conversation, InFlight
<1>11. Answered'
  BY <1>1 DEF Conversation, Answered
<1>12. s' = s /\ reply' # <<>> /\ up' = <<>> /\ unsent' = <<>>
  BY <1>1, <1>7, <1>8
<1>13. CASE n < need
  <2>1. buf' = all /\ need' = need - n /\ pc' = pc /\ resp' = resp
    BY <1>2, <1>13
  <2> HIDE DEF all, s
  <2>2. need' \in Nat /\ need' > 0
    BY <1>3, <1>6, <1>13, <2>1
  <2>3. WireType'
    BY <1>1, <1>3, <1>5, <2>1, <2>2 DEF WireType
  <2>4. pc = "header" => buf' \o down' = Sized(s') /\ need' + Len(buf') = Width
    <3> SUFFICES ASSUME pc = "header" PROVE buf' \o down' = Sized(s') /\ need' + Len(buf') = Width
      OBVIOUS
    <3>1. need' + Len(buf') = Width
      <4>1. need + Len(buf) = Width /\ Len(buf') = Len(buf) + n /\ need' = need - n
        BY <1>5, <1>10, <2>1, Zenon
      <4>2. \A x, y, z \in Nat : (x - z) + (y + z) = x + y
        OBVIOUS
      <4>3. (need - n) + (Len(buf) + n) = need + Len(buf)
        BY <1>3, <1>6, <4>2, Zenon
      <4> QED
        BY <4>1, <4>3, Zenon
    <3> QED
      BY <1>5, <1>10, <1>12, <2>1, <3>1, Zenon
  <2>5. pc = "body" => buf' \o down' = s' /\ need' = Len(down')
    <3> SUFFICES ASSUME pc = "body" PROVE buf' \o down' = s' /\ need' = Len(down')
      OBVIOUS
    <3>1. need' = Len(down')
      BY <1>5, <1>6, <1>10, <2>1
    <3> QED
      BY <1>5, <1>10, <1>12, <2>1, <3>1, Zenon
  <2>6. InFlight'
    BY <1>1, <1>12, <2>1, <2>2, <2>4, <2>5 DEF InFlight, s
  <2> QED
    BY <1>11, <2>3, <2>6 DEF Conversation
<1>14. CASE ~ (n < need) /\ pc = "header"
  <2>1. buf' = <<>> /\ HeaderRead(read_u32(all))
    BY <1>2, <1>14
  <2> HIDE DEF all, s
  <2>2. Len(all) = Width /\ Len(all) >= Width
    <3>1. need + Len(buf) = Width /\ Len(all) = Len(buf) + n
      BY <1>5, <1>10, <1>14, Zenon
    <3>2. n = need
      BY <1>3, <1>6, <1>14
    <3>3. \A x, y \in Nat : x + y = y + x /\ x >= x
      OBVIOUS
    <3> QED
      BY <1>3, <1>6, <3>1, <3>2, <3>3, Zenon
  <2>3. all \o down' = Sized(s)
    BY <1>5, <1>10, <1>14, Zenon
  <2>4. IsFrame(all \o down', s)
    BY <1>9, <2>3 DEF IsFrame
  <2>5. read_u32(all) = Len(s) /\ down' = s
    <3>1. read_u32(all) = Len(s)
      BY <1>5, <1>9, <2>2, <2>4, FrameLength
    <3>2. down' = s
      BY <1>5, <1>9, <2>2, <2>3, BodyLeft
    <3> QED
      BY <3>1, <3>2
  <2>6. CASE Len(s) > MAX_MSG
    <3>1. pc' = "bad reply" /\ need' = 0 /\ resp' = resp
      BY <2>1, <2>5, <2>6 DEF HeaderRead
    <3>2. WireType'
      BY <1>1, <1>3, <1>5, <2>1, <3>1 DEF WireType
    <3>3. InFlight'
      BY <1>12, <2>6, <3>1 DEF InFlight, s
    <3> QED
      BY <1>11, <3>2, <3>3 DEF Conversation
  <2>7. CASE ~ (Len(s) > MAX_MSG)
    <3>1. pc' = "body" /\ need' = Len(s) /\ resp' = resp
      <4>1. ~ (Len(s) < 1)
        BY <1>9
      <4> QED
        BY <2>1, <2>5, <2>7, <4>1 DEF HeaderRead
    <3>2. WireType'
      BY <1>1, <1>3, <1>5, <1>9, <2>1, <3>1 DEF WireType
    <3>3. buf' \o down' = s' /\ need' > 0 /\ need' = Len(down')
      <4>1. <<>> \o s = s /\ Len(s) > 0
        BY <1>9
      <4> QED
        BY <1>12, <2>1, <2>5, <3>1, <4>1, Zenon
    <3>4. InFlight'
      BY <1>12, <3>1, <3>3 DEF InFlight, s
    <3> QED
      BY <1>11, <3>2, <3>4 DEF Conversation
  <2> QED
    BY <2>6, <2>7
<1>15. CASE ~ (n < need) /\ pc = "body"
  <2>1. buf' = <<>> /\ pc' = "prompt" /\ need' = 0 /\ resp' = all
    BY <1>2, <1>15
  <2> HIDE DEF all, s
  <2>2. Len(down') = 0
    BY <1>3, <1>5, <1>6, <1>10, <1>15
  <2>3. down' = <<>> /\ all \o <<>> = all
    BY <1>5, <2>2
  <2>4. resp' = s'
    BY <1>5, <1>10, <1>12, <1>15, <2>1, <2>3, Zenon
  <2>5. WireType'
    BY <1>1, <1>3, <1>5, <2>1 DEF WireType
  <2>6. InFlight'
    BY <1>12, <2>1, <2>3, <2>4 DEF InFlight, s
  <2> QED
    BY <1>11, <2>5, <2>6 DEF Conversation
<1> QED
  BY <1>1, <1>13, <1>14, <1>15

LEMMA ConversationStep == Conversation /\ [Next]_vars => Conversation'
<1> SUFFICES ASSUME Conversation, [Next]_vars PROVE Conversation'
  OBVIOUS
<1>1. CASE Next
  <2>1. CASE \E a \in Commands : send_command(a)
    BY <2>1, SendKeeps
  <2>2. CASE \E b \in Bodies : OtherProgram(b)
    BY <2>2, OtherKeeps
  <2>3. CASE write_all
    BY <2>3, WriteKeeps
  <2>4. CASE read_full
    BY <2>4, ReadKeeps
  <2>5. CASE try_one_request
    BY <2>5, ServerKeeps
  <2>6. CASE WriteFails \/ ReadFails \/ ServerCloses
    BY <2>6, FailureKeeps
  <2> QED
    BY <1>1, <2>1, <2>2, <2>3, <2>4, <2>5, <2>6 DEF Next, Progress
<1>2. CASE UNCHANGED vars
  BY <1>2 DEF vars, Conversation, WireType, Answered, InFlight
<1> QED
  BY <1>1, <1>2

\* Every state of the conversation is one of those Conversation describes.
THEOREM ConversationSafe == Spec => []Conversation
<1> QED
  BY ConversationInit, ConversationStep, PTL DEF Spec

LEMMA ArgListsType ==
  ASSUME NEW b \in Seq(Byte), NEW args \in ArgLists(b)
  PROVE  args \in Seq(Seq(Byte))
<1> DEFINE pieces == {SubSeq(b, i, j) : i \in 1 .. Len(b) + 1, j \in 0 .. Len(b)}
           Turns == {m \in 0 .. k_max_args : (m + 1) * Width =< Len(b)}
<1>1. pieces \subseteq Seq(Byte)
  <2>1. ASSUME NEW p \in pieces PROVE p \in Seq(Byte)
    <3>1. PICK i \in 1 .. Len(b) + 1, j \in 0 .. Len(b) : p = SubSeq(b, i, j)
      BY <2>1
    <3>2. \A x \in i .. j : x \in 1 .. Len(b)
      OBVIOUS
    <3>3. SubSeq(b, i, j) \in Seq(Byte)
      BY <3>2
    <3> QED
      BY <3>1, <3>3
  <2> HIDE DEF pieces
  <2> QED
    BY <2>1
<1>2. Turns \subseteq Nat
  BY WireAssumption
<1>3. args \in UNION {[1 .. n -> pieces] : n \in Turns}
  BY DEF ArgLists
<1> HIDE DEF pieces, Turns
<1>4. PICK n \in Turns : args \in [1 .. n -> pieces]
  BY <1>3
<1> QED
  BY <1>1, <1>2, <1>4

(* The parser accepts exactly the bodies that encode a command, whatever   *)
(* the widths, the limits, the commands and the bodies (parse_req).        *)
THEOREM ParseSafe == Spec => []ParseExact
<1>1. Conversation => ParseExact
  <2> SUFFICES ASSUME Conversation, reply # <<>>
               PROVE  IF cmd.rc # 0 THEN \A args \in ArgLists(body) : Encode(args) # body
                      ELSE Encode(cmd.out) = body
    BY DEF ParseExact
  <2>1. body \in Seq(Byte) /\ cmd = parse_req(body) /\ Len(body) =< MAX_MSG
    BY DEF Conversation, WireType, Answered
  <2>2. CASE cmd.rc = 0
    <3>1. Encode(parse_req(body).out) = body
      BY <2>1, <2>2, ParseSound
    <3> QED
      BY <2>1, <2>2, <3>1, Zenon
  <2>3. CASE cmd.rc # 0
    <3>1. ASSUME NEW args \in ArgLists(body), Encode(args) = body PROVE FALSE
      <4>1. args \in Seq(Seq(Byte))
        BY <2>1, ArgListsType
      <4>2. parse_req(Encode(args)).rc = 0
        BY <2>1, <3>1, <4>1, ParseComplete
      <4> QED
        BY <2>1, <2>3, <3>1, <4>2, Zenon
    <3> QED
      BY <2>3, <3>1, Zenon
  <2> QED
    BY <2>2, <2>3
<1> QED
  BY <1>1, ConversationSafe, PTL

(* What the client prints is the server's reply, however reads and writes  *)
(* cut it up, and no reply that is cut short passes for a whole one        *)
(* (read_full, print_value).                                               *)
THEOREM ReplySafe == Spec => []ReplyExact
<1>1. Conversation => ReplyExact
  <2> DEFINE s == serialize(reply)
  <2> SUFFICES ASSUME Conversation, reply # <<>>
               PROVE  /\ pc = "prompt" => /\ print_value(resp).lines = reply
                                          /\ <<unsent, up, down>> = <<<<>>, <<>>, <<>>>>
                      /\ pc = "bad reply" => Len(s) > MAX_MSG
                      /\ print_value(s) = [used |-> Len(s), left |-> 0, lines |-> reply]
                      /\ \A n \in 0 .. Len(s) - 1 : print_value(SubSeq(s, 1, n)).used < 0
    BY DEF ReplyExact
  <2>1. IsReply(reply)
    BY DEF Conversation, Answered
  <2>2. /\ pc = "prompt" => /\ resp = s /\ <<unsent, up, down>> = <<<<>>, <<>>, <<>>>>
        /\ pc = "bad reply" => Len(s) > MAX_MSG
    BY DEF Conversation, InFlight
  <2>3. s \in Seq(Byte)
    BY <2>1, ReplyNotEmpty
  <2>4. print_value(s) = [used |-> Len(s), left |-> 0, lines |-> reply]
    <3>1. Short(s, s)
      <4> HIDE DEF s
      <4> QED
        BY <2>3 DEF Short
    <3> QED
      BY <2>1, <2>3, <3>1, PrintsExactly
  <2>5. print_value(s).lines = reply
    BY <2>4
  <2>6. ASSUME NEW n \in 0 .. Len(s) - 1
        PROVE  print_value(SubSeq(s, 1, n)).used < 0
    <3> DEFINE p == SubSeq(s, 1, n)
    <3>1. p \in Seq(Byte) /\ Len(p) = n /\ Short(p, s) /\ Len(p) < Len(s)
      <4> HIDE DEF s
      <4>1. p \in Seq(Byte) /\ Len(p) = n /\ \A i \in 1 .. n : p[i] = s[i]
        BY <2>3
      <4>2. Len(s) \in Nat
        BY <2>3
      <4> HIDE DEF p
      <4>3. n =< Len(s) /\ n < Len(s)
        BY <4>2
      <4> QED
        BY <4>1, <4>3, Zenon DEF Short
    <3> HIDE DEF p
    <3>2. print_value(p).used < 0
      BY <2>1, <3>1, PrintsExactly
    <3> QED
      BY <3>2 DEF p
  <2> HIDE DEF s
  <2> QED
    BY <2>2, <2>4, <2>5, <2>6, Zenon
<1> QED
  BY <1>1, ConversationSafe, PTL
=============================================================================
