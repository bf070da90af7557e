--------------------- MODULE PersistentVectorProofs ---------------------
(***************************************************************************)
(* That vectors behave as sequences and keep their shape, for any width,   *)
(* length and height.                                                      *)
(*                                                                         *)
(* The invariant (Good) puts the nodes of a tree in rows, one for each     *)
(* level.  A row lists the children of the row above in order (Rows), the  *)
(* elements of the vector are the children of the row of leaves with the   *)
(* tail behind it, and each node but the last in a row is full.  So the    *)
(* child with number Width * (b - 1) + d in a row is the child d of the    *)
(* node b above it, which is what the digits of an index say; and what an  *)
(* operation makes differs from what was there in one place of each row.   *)
(***************************************************************************)
EXTENDS PersistentVector, SequenceTheorems, WellFoundedInduction, TLAPS

-----------------------------------------------------------------------------
(* Numbers *)

LEMMA DivMod ==
  ASSUME NEW n \in Nat, NEW w \in Nat \ {0}
  PROVE  /\ n \div w \in Nat /\ n % w \in 0 .. w - 1
         /\ n = w * (n \div w) + (n % w)
  BY Z3

LEMMA Quotient ==
  ASSUME NEW w \in Nat \ {0}, NEW q \in Nat, NEW r \in 0 .. w - 1
  PROVE  (w * q + r) \div w = q /\ (w * q + r) % w = r
<1> DEFINE n == w * q + r
           c == n \div w
           d == n % w
<1>1. n \in Nat
  BY Z3
<1>2. c \in Nat /\ d \in 0 .. w - 1 /\ n = w * c + d
  BY <1>1, DivMod
<1> HIDE DEF c, d
<1>3. w * q + r = w * c + d
  BY <1>2
<1>4. CASE c = q
  BY <1>3, <1>4, <1>2, Z3 DEF c, d
<1>5. CASE c > q
  <2>1. PICK k \in Nat : c = q + 1 + k
    BY <1>5, <1>2
  <2>2. w * c = w * q + w + w * k /\ w * k \in Nat
    BY <2>1, Z3
  <2> QED BY <2>2, <1>3, <1>2
<1>6. CASE c < q
  <2>1. PICK k \in Nat : q = c + 1 + k
    BY <1>6, <1>2
  <2>2. w * q = w * c + w + w * k /\ w * k \in Nat
    BY <2>1, <1>2, Z3
  <2> QED BY <2>2, <1>3, <1>2
<1> QED BY <1>2, <1>4, <1>5, <1>6

LEMMA DivDiv ==
  ASSUME NEW i \in Nat, NEW p \in Nat \ {0}, NEW w \in Nat \ {0}
  PROVE  (i \div p) \div w = i \div (w * p)
<1> DEFINE q == i \div p  r == i % p  c == q \div w  t == q % w
<1>1. q \in Nat /\ r \in 0 .. p - 1 /\ i = p * q + r
  BY DivMod
<1>2. c \in Nat /\ t \in 0 .. w - 1 /\ q = w * c + t
  BY <1>1, DivMod
<1> HIDE DEF q, r, c, t
<1>3. i = (w * p) * c + (p * t + r)
  BY <1>1, <1>2, Z3
<1>4. w * p \in Nat \ {0}
  BY Z3
<1>5. p * t + r \in 0 .. (w * p) - 1
  <2>1. PICK k \in Nat : w = t + 1 + k
    BY <1>2
  <2>2. w * p = p * t + p + p * k /\ p * k \in Nat /\ p * t \in Nat
    BY <2>1, <1>2, Z3
  <2> QED BY <2>2, <1>1, <1>4
<1>6. ((w * p) * c + (p * t + r)) \div (w * p) = c
  BY <1>2, <1>4, <1>5, Quotient
<1> QED BY <1>3, <1>6 DEF c, q

LEMMA Induction ==
  ASSUME NEW S, 0 \in S, \A n \in Nat : n \in S => n + 1 \in S
  PROVE  Nat \subseteq S
<1> DEFINE B == {n \in Nat : n \notin S}
<1>1. CASE B = {}
  BY <1>1
<1>2. CASE B # {}
  <2>1. PICK x \in B : \A y \in B : <<y, x>> \notin OpToRel(<, Nat)
    BY <1>2, WFMin, NatLessThanWellFounded
  <2>2. x \in Nat /\ x \notin S
    OBVIOUS
  <2>3. x # 0 /\ x - 1 \in Nat /\ x - 1 < x /\ (x - 1) + 1 = x
    BY <2>2
  <2>4. ASSUME x - 1 \notin S PROVE FALSE
    <3>1. <<x - 1, x>> \notin OpToRel(<, Nat)
      BY <2>1, <2>3, <2>4
    <3> QED BY <2>2, <2>3, <3>1 DEF OpToRel
  <2>5. (x - 1) + 1 \in S
    BY <2>3, <2>4
  <2> QED BY <2>2, <2>3, <2>5
<1> QED BY <1>1, <1>2

\* Two functions that go down from n in the same way are the same.
LEMMA Downwards ==
  ASSUME NEW n \in Nat, NEW f, NEW g, f[n] = g[n],
         \A l \in 0 .. n - 1 : f[l + 1] = g[l + 1] => f[l] = g[l]
  PROVE  \A l \in 0 .. n : f[l] = g[l]
<1> DEFINE S == {k \in Nat : k <= n => f[n - k] = g[n - k]}
<1>1. 0 \in S
  OBVIOUS
<1>2. ASSUME NEW k \in Nat, k \in S PROVE k + 1 \in S
  <2>1. CASE k + 1 <= n
    <3>1. n - (k + 1) \in 0 .. n - 1 /\ (n - (k + 1)) + 1 = n - k
      BY <2>1
    <3> QED BY <1>2, <2>1, <3>1
  <2> QED BY <2>1
<1>3. Nat \subseteq S
  <2> HIDE DEF S
  <2> QED BY <1>1, <1>2, Induction
<1>4. ASSUME NEW l \in 0 .. n PROVE f[l] = g[l]
  <2>1. n - l \in Nat /\ n - l <= n /\ n - (n - l) = l
    OBVIOUS
  <2>2. n - l \in S
    BY <1>3, <2>1
  <2> QED BY <2>1, <2>2
<1> QED BY <1>4

\* Power is what its definition says.
LEMMA PowerDef ==
  /\ Power[0] = 1
  /\ \A n \in Nat : Power[n + 1] = Width * Power[n]
  /\ \A n \in Nat : Power[n] \in Nat \ {0}
<1> DEFINE Is(f, m) == f[0] = 1 /\ \A n \in 1 .. m : f[n] = Width * f[n - 1]
           S == {m \in Nat : \E f : Is(f, m)}
           G(m) == CHOOSE f : Is(f, m)
           P == [n \in Nat |-> G(n)[n]]
<1>1. 0 \in S
  <2>1. Is([n \in {0} |-> 1], 0)
    OBVIOUS
  <2> QED BY <2>1
<1>2. ASSUME NEW m \in Nat, m \in S PROVE m + 1 \in S
  <2>1. PICK f : Is(f, m)
    BY <1>2
  <2> DEFINE g == [n \in 0 .. m + 1 |-> IF n <= m THEN f[n] ELSE Width * f[m]]
  <2>2. g[0] = 1
    BY <2>1
  <2>3. ASSUME NEW n \in 1 .. m + 1 PROVE g[n] = Width * g[n - 1]
    <3>1. CASE n <= m
      <4>1. n - 1 \in 0 .. m + 1 /\ n - 1 <= m /\ n \in 0 .. m + 1 /\ n \in 1 .. m
        BY <3>1
      <4>2. g[n] = f[n] /\ g[n - 1] = f[n - 1]
        BY <3>1, <4>1
      <4> HIDE DEF g
      <4> QED BY <2>1, <4>1, <4>2
    <3>2. CASE n = m + 1
      <4>1. n - 1 \in 0 .. m + 1 /\ n - 1 = m /\ n \in 0 .. m + 1 /\ ~(n <= m)
        BY <3>2
      <4>2. g[n] = Width * f[m] /\ g[n - 1] = f[m]
        BY <4>1
      <4> QED BY <4>2
    <3> QED BY <3>1, <3>2
  <2>4. Is(g, m + 1)
    <3> HIDE DEF g
    <3> QED BY <2>2, <2>3
  <2>5. \E f1 : Is(f1, m + 1)
    <3> HIDE DEF g, Is
    <3> QED BY <2>4
  <2> QED BY <2>5
<1>3. \A m \in Nat : \E f : Is(f, m)
  <2>1. Nat \subseteq S
    <3> HIDE DEF S
    <3> QED BY <1>1, <1>2, Induction
  <2> QED BY <2>1
<1>4. \A m \in Nat : Is(G(m), m)
  <2> TAKE m \in Nat
  <2>1. \E f : Is(f, m)
    BY <1>3
  <2> HIDE DEF Is
  <2> QED BY <2>1, Zenon
<1> HIDE DEF G
<1>5. \A m \in Nat : G(m)[0] = 1
  BY <1>4
<1>6. \A m \in Nat : \A n \in 1 .. m : G(m)[n] = Width * G(m)[n - 1]
  BY <1>4
<1> HIDE DEF G
<1>7. ASSUME NEW m \in Nat PROVE \A n \in Nat : n <= m => G(m)[n] = P[n]
  <2> DEFINE T == {n \in Nat : \A k \in Nat : n <= k => G(k)[n] = P[n]}
  <2>1. 0 \in T
    BY <1>5
  <2>2. ASSUME NEW n \in Nat, n \in T PROVE n + 1 \in T
    <3>1. ASSUME NEW k \in Nat, n + 1 <= k PROVE G(k)[n + 1] = P[n + 1]
      <4>1. G(k)[n] = P[n] /\ G(n + 1)[n] = P[n]
        BY <2>2, <3>1
      <4>2. n + 1 \in 1 .. k /\ n + 1 \in 1 .. n + 1 /\ (n + 1) - 1 = n /\ n + 1 \in Nat
        BY <3>1
      <4>3. G(k)[n + 1] = Width * G(k)[n] /\ G(n + 1)[n + 1] = Width * G(n + 1)[n]
        BY <1>6, <4>2
      <4>4. P[n + 1] = G(n + 1)[n + 1]
        BY <4>2
      <4> HIDE DEF P
      <4> QED BY <4>1, <4>3, <4>4
    <3> QED BY <3>1
  <2>3. Nat \subseteq T
    <3> HIDE DEF T
    <3> QED BY <2>1, <2>2, Induction
  <2> QED BY <2>3
<1>8. P[0] = 1 /\ \A n \in Nat : P[n + 1] = Width * P[n]
  <2>1. P[0] = 1
    BY <1>5
  <2>2. ASSUME NEW n \in Nat PROVE P[n + 1] = Width * P[n]
    <3>1. n + 1 \in Nat /\ n <= n + 1 /\ n + 1 \in 1 .. n + 1 /\ (n + 1) - 1 = n
      OBVIOUS
    <3>2. G(n + 1)[n] = P[n] /\ P[n + 1] = G(n + 1)[n + 1]
      BY <1>7, <3>1
    <3>3. G(n + 1)[n + 1] = Width * G(n + 1)[n]
      BY <1>6, <3>1
    <3> HIDE DEF P
    <3> QED BY <3>2, <3>3
  <2> QED BY <2>1, <2>2
<1>9. P = [n \in Nat |-> IF n = 0 THEN 1 ELSE Width * P[n - 1]]
  <2>1. ASSUME NEW n \in Nat PROVE P[n] = IF n = 0 THEN 1 ELSE Width * P[n - 1]
    <3>1. CASE n = 0
      BY <1>8, <3>1
    <3>2. CASE n # 0
      <4>1. n - 1 \in Nat /\ (n - 1) + 1 = n
        BY <3>2
      <4> HIDE DEF P
      <4> QED BY <1>8, <3>2, <4>1
    <3> QED BY <3>1, <3>2
  <2>2. P = [n \in Nat |-> P[n]]
    OBVIOUS
  <2> HIDE DEF P
  <2> QED BY <2>1, <2>2
<1>10. Power = [n \in Nat |-> IF n = 0 THEN 1 ELSE Width * Power[n - 1]]
  <2>1. \E f : f = [n \in Nat |-> IF n = 0 THEN 1 ELSE Width * f[n - 1]]
    <3> HIDE DEF P
    <3> QED BY <1>9
  <2> QED BY <2>1, Zenon DEF Power
<1>11. Power[0] = 1
  BY <1>10
<1>12. ASSUME NEW n \in Nat PROVE Power[n + 1] = Width * Power[n]
  <2>1. n + 1 \in Nat /\ n + 1 # 0 /\ (n + 1) - 1 = n
    OBVIOUS
  <2> QED BY <1>10, <2>1
<1> DEFINE U == {n \in Nat : Power[n] \in Nat \ {0}}
<1>13. 0 \in U
  BY <1>11
<1>14. ASSUME NEW n \in Nat, n \in U PROVE n + 1 \in U
  <2>1. Power[n + 1] = Width * Power[n] /\ Power[n] \in Nat \ {0} /\ Width \in Nat \ {0}
    BY <1>12, <1>14, VectorAssumption
  <2> QED BY <2>1, Z3
<1>15. Nat \subseteq U
  <2> HIDE DEF U
  <2> QED BY <1>13, <1>14, Induction
<1> QED BY <1>11, <1>12, <1>15

-----------------------------------------------------------------------------
(* Sequences *)

LEMMA AppendFacts ==
  ASSUME NEW S, NEW s \in Seq(S), NEW x \in S
  PROVE  /\ Append(s, x) \in Seq(S) /\ Len(Append(s, x)) = Len(s) + 1 /\ Len(s) \in Nat
         /\ \A i \in 1 .. Len(s) : Append(s, x)[i] = s[i]
         /\ Append(s, x)[Len(s) + 1] = x
  OBVIOUS

LEMMA FrontFacts ==
  ASSUME NEW S, NEW s \in Seq(S), s # <<>>
  PROVE  /\ Front(s) \in Seq(S) /\ Len(Front(s)) = Len(s) - 1 /\ Len(s) - 1 \in Nat
         /\ \A i \in 1 .. Len(s) - 1 : Front(s)[i] = s[i]
         /\ Last(s) = s[Len(s)] /\ Last(s) \in S
<1>1. Len(s) \in Nat /\ Len(s) >= 1
  OBVIOUS
<1>2. s[Len(s)] \in S
  BY <1>1
<1>3. 1 \in 1 .. Len(s) + 1 /\ Len(s) - 1 \in 0 .. Len(s)
  BY <1>1
<1>4. /\ SubSeq(s, 1, Len(s) - 1) \in Seq(S)
      /\ Len(SubSeq(s, 1, Len(s) - 1)) = Len(s) - 1
      /\ \A i \in 1 .. Len(s) - 1 : SubSeq(s, 1, Len(s) - 1)[i] = s[i]
  <2> DEFINE m == Len(s) - 1
             f == SubSeq(s, 1, m)
  <2>1. m \in Int /\ 1 \in Int /\ \A i \in 1 .. m : s[i] \in S
    BY <1>1
  <2>2. m \in Nat
    BY <1>1
  <2> HIDE DEF m
  <2>3. /\ f \in Seq(S) /\ Len(f) = IF 1 <= m THEN m - 1 + 1 ELSE 0
        /\ \A i \in 1 .. m - 1 + 1 : f[i] = s[1 + i - 1]
    BY <2>1, SubSeqProperties
  <2>4. Len(f) = m
    BY <2>2, <2>3
  <2>5. ASSUME NEW i \in 1 .. m PROVE f[i] = s[i]
    <3>1. i \in 1 .. m - 1 + 1 /\ 1 + i - 1 = i
      BY <2>2
    <3> QED BY <2>3, <3>1
  <2> QED BY <2>3, <2>4, <2>5 DEF m
<1> QED BY <1>1, <1>2, <1>4 DEF Front, Last

LEMMA ExceptFacts ==
  ASSUME NEW S, NEW s \in Seq(S), NEW k \in 1 .. Len(s), NEW x \in S
  PROVE  /\ [s EXCEPT ![k] = x] \in Seq(S) /\ Len([s EXCEPT ![k] = x]) = Len(s)
         /\ \A i \in 1 .. Len(s) : [s EXCEPT ![k] = x][i] = IF i = k THEN x ELSE s[i]
  OBVIOUS

LEMMA ConcatFacts ==
  ASSUME NEW S, NEW s \in Seq(S), NEW r \in Seq(S)
  PROVE  /\ s \o r \in Seq(S) /\ Len(s \o r) = Len(s) + Len(r) /\ Len(s) \in Nat /\ Len(r) \in Nat
         /\ \A i \in 1 .. Len(s) : (s \o r)[i] = s[i]
         /\ \A i \in 1 .. Len(r) : (s \o r)[Len(s) + i] = r[i]
  OBVIOUS

LEMMA SameSeq ==
  ASSUME NEW S, NEW s \in Seq(S), NEW r \in Seq(S), Len(s) = Len(r),
         \A i \in 1 .. Len(s) : s[i] = r[i]
  PROVE  s = r
  OBVIOUS

LEMMA SeqFacts ==
  ASSUME NEW S, NEW n \in Nat, NEW f, f = [k \in 1 .. n |-> f[k]], \A k \in 1 .. n : f[k] \in S
  PROVE  f \in Seq(S) /\ Len(f) = n
  OBVIOUS

LEMMA OneFacts ==
  ASSUME NEW S, NEW x \in S
  PROVE  /\ <<x>> \in Seq(S) /\ <<x>> # <<>> /\ Len(<<x>>) = 1 /\ <<x>>[1] = x
         /\ \A y : [<<x>> EXCEPT ![1] = y] = <<y>>
         /\ \A y \in S : Append(<<x>>, y) = <<x, y>>
         /\ \A y \in S : <<x, y>> \in Seq(S) /\ <<x, y>> # <<>> /\ Len(<<x, y>>) = 2
<1>1. <<x>> \in Seq(S) /\ <<x>> # <<>> /\ Len(<<x>>) = 1 /\ <<x>>[1] = x
  OBVIOUS
<1>2. ASSUME NEW y PROVE [<<x>> EXCEPT ![1] = y] = <<y>>
  OBVIOUS
<1>3. ASSUME NEW y \in S PROVE <<x, y>> \in Seq(S) /\ <<x, y>> # <<>> /\ Len(<<x, y>>) = 2
  OBVIOUS
<1>4. ASSUME NEW y \in S PROVE Append(<<x>>, y) = <<x, y>>
  <2> DEFINE o == <<x>>  p == Append(o, y)  q == <<x, y>>
  <2>1. q \in Seq(S) /\ Len(q) = 2 /\ q[1] = x /\ q[2] = y
    OBVIOUS
  <2>2. o \in Seq(S) /\ Len(o) = 1 /\ o[1] = x
    OBVIOUS
  <2> HIDE DEF o, q
  <2>3. /\ p \in Seq(S) /\ Len(p) = Len(o) + 1 /\ p[Len(o) + 1] = y
        /\ \A i \in 1 .. Len(o) : p[i] = o[i]
    <3>1. o \in Seq(S)
      BY <2>2
    <3> QED BY <3>1, AppendFacts
  <2> HIDE DEF p
  <2>4. Len(p) = 2 /\ p[1] = x /\ p[2] = y
    BY <2>2, <2>3
  <2>5. \A i \in 1 .. Len(p) : p[i] = q[i]
    BY <2>1, <2>4
  <2>6. p = q
    BY <2>1, <2>3, <2>4, <2>5, SameSeq
  <2> QED BY <2>6 DEF p, q, o
<1> QED BY <1>1, <1>2, <1>3, <1>4

LEMMA NoneFacts ==
  ASSUME NEW S, NEW s \in Seq(S)
  PROVE  /\ Len(s) \in Nat /\ (s = <<>> <=> Len(s) = 0)
         /\ s # <<>> => Len(s) \in 1 .. Len(s)
  OBVIOUS

LEMMA SeqOther ==
  ASSUME NEW S, NEW T, NEW s \in Seq(S), \A c \in 1 .. Len(s) : s[c] \in T
  PROVE  s \in Seq(T)
  OBVIOUS

LEMMA AppendSet ==
  ASSUME NEW S, NEW s \in Seq(S), NEW x \in S, NEW y \in S
  PROVE  /\ [Append(s, x) EXCEPT ![Len(s) + 1] = y] = Append(s, y)
         /\ \A k \in 1 .. Len(s) : [Append(s, x) EXCEPT ![k] = y] = Append([s EXCEPT ![k] = y], x)
<1> DEFINE r == Append(s, x)  n == Len(s)
<1>1. r \in Seq(S) /\ Len(r) = n + 1 /\ n \in Nat /\ r[n + 1] = x /\ \A i \in 1 .. n : r[i] = s[i]
  BY AppendFacts
<1> HIDE DEF r, n
<1>2. [r EXCEPT ![n + 1] = y] = Append(s, y)
  <2> DEFINE p == [r EXCEPT ![n + 1] = y]  q == Append(s, y)
  <2>1. n + 1 \in 1 .. Len(r)
    BY <1>1
  <2>2. p \in Seq(S) /\ Len(p) = n + 1 /\ \A i \in 1 .. n + 1 : p[i] = IF i = n + 1 THEN y ELSE r[i]
    BY <1>1, <2>1, ExceptFacts
  <2>3. q \in Seq(S) /\ Len(q) = n + 1 /\ q[n + 1] = y /\ \A i \in 1 .. n : q[i] = s[i]
    BY AppendFacts DEF n
  <2> HIDE DEF p, q
  <2>4. ASSUME NEW i \in 1 .. Len(p) PROVE p[i] = q[i]
    <3>1. i = n + 1 \/ (i \in 1 .. n /\ i # n + 1)
      BY <1>1, <2>2
    <3> QED BY <1>1, <2>2, <2>3, <3>1
  <2>5. p = q
    BY <2>2, <2>3, <2>4, SameSeq
  <2> QED BY <2>5 DEF p, q
<1>3. ASSUME NEW k \in 1 .. n PROVE [r EXCEPT ![k] = y] = Append([s EXCEPT ![k] = y], x)
  <2> DEFINE p == [r EXCEPT ![k] = y]  t == [s EXCEPT ![k] = y]  q == Append(t, x)
  <2>1. k \in 1 .. Len(r) /\ k \in 1 .. Len(s) /\ k # n + 1
    BY <1>1 DEF n
  <2>2. p \in Seq(S) /\ Len(p) = n + 1 /\ \A i \in 1 .. n + 1 : p[i] = IF i = k THEN y ELSE r[i]
    BY <1>1, <2>1, ExceptFacts
  <2>3. t \in Seq(S) /\ Len(t) = n /\ \A i \in 1 .. n : t[i] = IF i = k THEN y ELSE s[i]
    BY <2>1, ExceptFacts DEF n
  <2> HIDE DEF t
  <2>4. q \in Seq(S) /\ Len(q) = n + 1 /\ q[n + 1] = x /\ \A i \in 1 .. n : q[i] = t[i]
    BY <2>3, AppendFacts
  <2> HIDE DEF p, q
  <2>5. ASSUME NEW i \in 1 .. Len(p) PROVE p[i] = q[i]
    <3>1. i = n + 1 \/ (i \in 1 .. n /\ i # n + 1)
      BY <1>1, <2>2
    <3> QED BY <1>1, <2>1, <2>2, <2>3, <2>4, <3>1
  <2>6. p = q
    BY <2>2, <2>4, <2>5, SameSeq
  <2> QED BY <2>6 DEF p, q, t
<1> QED BY <1>2, <1>3 DEF r, n

-----------------------------------------------------------------------------
(* Rows of nodes *)

Data == Nat \cup Range(Items) \cup {Value} \cup UNION {Range(s) : s \in Pushed}

Heap(h) == h \in Seq(Seq(Data))
Extends(h, g) == Heap(h) /\ Heap(g) /\ Len(h) <= Len(g) /\ \A a \in 1 .. Len(h) : g[a] = h[a]

\* s is a row of nodes that are full but for the last.
Filled(h, s) ==
  /\ s \in Seq(1 .. Len(h)) /\ s # <<>>
  /\ \A b \in 1 .. Len(s) : Len(h[s[b]]) <= Width /\ (b < Len(s) => Len(h[s[b]]) = Width)

\* The number of child d of node b, when the nodes before b are full.
Pos(b, d) == Width * (b - 1) + d

\* t has what is in the nodes of s, in order.
Rows(h, s, t) ==
  /\ Len(t) = Pos(Len(s), Len(h[s[Len(s)]]))
  /\ \A b \in 1 .. Len(s) : \A d \in 1 .. Len(h[s[b]]) : t[Pos(b, d)] = h[s[b]][d]

LEMMA PosFacts ==
  ASSUME NEW b \in Nat \ {0}, NEW d \in Nat
  PROVE  /\ Pos(b, d) \in Nat /\ Pos(b, d) >= d /\ Pos(b, d + 1) = Pos(b, d) + 1
         /\ Pos(b + 1, d) = Pos(b, d) + Width /\ Pos(b + 1, 0) = Pos(b, Width)
         /\ Pos(1, d) = d /\ Pos(b, 0) \in Nat /\ Pos(b, d) = Pos(b, 0) + d
<1> DEFINE p == Width * (b - 1)
<1>1. Width \in Nat /\ b - 1 \in Nat /\ (b + 1) - 1 = (b - 1) + 1
  BY VectorAssumption
<1>2. p \in Nat /\ Width * ((b + 1) - 1) = p + Width /\ Width * (1 - 1) = 0
  BY <1>1, Z3
<1>3. Pos(b, d) = p + d /\ Pos(b, d + 1) = p + (d + 1) /\ Pos(b, Width) = p + Width /\ Pos(b, 0) = p + 0
  BY DEF Pos
<1>4. Pos(b + 1, d) = p + Width + d /\ Pos(b + 1, 0) = p + Width + 0 /\ Pos(1, d) = 0 + d
  BY <1>2 DEF Pos
<1> HIDE DEF p
<1> QED BY <1>1, <1>2, <1>3, <1>4

\* r is q with x at d.
Copy(r, q, d, x) == Len(r) = Len(q) /\ \A e \in 1 .. Len(q) : r[e] = IF e = d THEN x ELSE q[e]

\* The nodes of s1 in g have as many children as those of s in h.
AsFull(g, s1, h, s) == Len(s1) = Len(s) /\ \A c \in 1 .. Len(s) : Len(g[s1[c]]) = Len(h[s[c]])

LEMMA CopyFacts ==
  ASSUME NEW S, NEW s \in Seq(S), NEW k \in 1 .. Len(s), NEW x \in S
  PROVE  [s EXCEPT ![k] = x] \in Seq(S) /\ Copy([s EXCEPT ![k] = x], s, k, x)
  BY ExceptFacts DEF Copy

LEMMA Node ==
  ASSUME NEW h, Heap(h), NEW s, Filled(h, s)
  PROVE  /\ Len(h) \in Nat /\ Len(s) \in Nat /\ Len(s) >= 1 /\ Len(s) - 1 \in Nat
         /\ \A b \in 1 .. Len(s) : s[b] \in 1 .. Len(h) /\ h[s[b]] \in Seq(Data) /\ Len(h[s[b]]) \in Nat
  BY DEF Heap, Filled

LEMMA Place ==
  ASSUME NEW h, Heap(h), NEW s, Filled(h, s), NEW b \in 1 .. Len(s), NEW d \in 1 .. Len(h[s[b]])
  PROVE  /\ Pos(b, d) \in 1 .. Pos(Len(s), Len(h[s[Len(s)]]))
         /\ b - 1 \in Nat /\ d - 1 \in 0 .. Width - 1 /\ Width \in Nat \ {0}
<1>1. Len(s) \in Nat /\ Len(s) >= 1 /\ Len(h[s[b]]) \in Nat /\ Len(h[s[Len(s)]]) \in Nat
  BY Node
<1>2. Width \in Nat \ {0} /\ d \in Nat /\ d >= 1 /\ d <= Width /\ b \in Nat /\ b >= 1 /\ b <= Len(s)
  BY <1>1, VectorAssumption DEF Filled
<1> DEFINE p == Width * (b - 1)
           r == Width * (Len(s) - 1)
           z == Len(h[s[Len(s)]])
<1>3. p \in Nat /\ r \in Nat
  BY <1>1, <1>2, Z3
<1>4. p + d \in 1 .. r + z
  <2>1. CASE b = Len(s)
    <3>1. p = r /\ d <= z
      BY <1>1, <1>2, <2>1
    <3> HIDE DEF p, r, z
    <3> QED BY <1>1, <1>2, <1>3, <3>1 DEF z
  <2>2. CASE b < Len(s)
    <3>1. PICK k \in Nat : Len(s) = b + 1 + k
      BY <1>1, <1>2, <2>2
    <3>2. r = p + Width + Width * k /\ Width * k \in Nat
      BY <1>2, <3>1, Z3
    <3>3. z \in Nat
      BY <1>1
    <3> DEFINE w == Width * k
    <3> HIDE DEF p, r, z, w
    <3>4. r = p + Width + w /\ w \in Nat
      BY <3>2 DEF w
    <3>5. d \in Nat /\ d >= 1 /\ d <= Width /\ Width \in Nat
      BY <1>2
    <3> QED BY <1>3, <3>3, <3>4, <3>5
  <2>3. b = Len(s) \/ b < Len(s)
    BY <1>1, <1>2
  <2> QED BY <2>1, <2>2, <2>3
<1>5. b - 1 \in Nat /\ d - 1 \in 0 .. Width - 1
  BY <1>2
<1> QED BY <1>2, <1>4, <1>5 DEF Pos

LEMMA PlaceOnce ==
  ASSUME NEW h, Heap(h), NEW s, Filled(h, s),
         NEW b \in 1 .. Len(s), NEW d \in 1 .. Len(h[s[b]]),
         NEW c \in 1 .. Len(s), NEW e \in 1 .. Len(h[s[c]]),
         Pos(b, d) = Pos(c, e)
  PROVE  b = c /\ d = e
<1>1. /\ b - 1 \in Nat /\ d - 1 \in 0 .. Width - 1 /\ Width \in Nat \ {0}
      /\ c - 1 \in Nat /\ e - 1 \in 0 .. Width - 1
  BY Place
<1>2. Width * (b - 1) \in Nat /\ Width * (c - 1) \in Nat
  BY <1>1, Z3
<1>3. Width * (b - 1) + (d - 1) = Width * (c - 1) + (e - 1)
  <2> DEFINE p == Width * (b - 1)  q == Width * (c - 1)
  <2>1. p + d = q + e
    BY DEF Pos
  <2> HIDE DEF p, q
  <2>2. p \in Nat /\ q \in Nat
    BY <1>2 DEF p, q
  <2>3. d \in Int /\ e \in Int
    BY <1>1
  <2>4. p + (d - 1) = q + (e - 1)
    BY <2>1, <2>2, <2>3
  <2> QED BY <2>4 DEF p, q
<1>4. /\ (Width * (b - 1) + (d - 1)) \div Width = b - 1 /\ (Width * (b - 1) + (d - 1)) % Width = d - 1
      /\ (Width * (c - 1) + (e - 1)) \div Width = c - 1 /\ (Width * (c - 1) + (e - 1)) % Width = e - 1
  BY <1>1, Quotient
<1>5. b - 1 = c - 1 /\ d - 1 = e - 1
  BY <1>3, <1>4
<1> QED BY <1>1, <1>5

\* Where the child number j of a row is.
LEMMA RowsChild ==
  ASSUME NEW h, Heap(h), NEW s, Filled(h, s), NEW t, Rows(h, s, t), NEW j \in 1 .. Len(t)
  PROVE  /\ (j - 1) \div Width \in Nat /\ ((j - 1) \div Width) + 1 \in 1 .. Len(s)
         /\ ((j - 1) % Width) + 1 \in 1 .. Len(h[s[((j - 1) \div Width) + 1]])
         /\ j = Pos(((j - 1) \div Width) + 1, ((j - 1) % Width) + 1)
         /\ t[j] = Child(h, s, j)
<1> DEFINE q == (j - 1) \div Width
           r == (j - 1) % Width
           n == Len(s)
           z == Len(h[s[Len(s)]])
<1>1. n \in Nat /\ n >= 1 /\ z \in Nat /\ z <= Width /\ Width \in Nat \ {0}
  BY Node, VectorAssumption DEF Filled
<1>2. Len(t) = Width * (n - 1) + z /\ Width * (n - 1) \in Nat
  <2>1. Width * (n - 1) \in Nat
    BY <1>1, Z3
  <2> QED BY <2>1 DEF Rows, Pos
<1>3. j - 1 \in Nat /\ j \in Nat /\ j <= Width * (n - 1) + z
  <2>1. Len(t) \in Nat
    <3> HIDE DEF n, z
    <3> QED BY <1>1, <1>2
  <2> QED BY <1>2, <2>1
<1>4. q \in Nat /\ r \in 0 .. Width - 1 /\ j - 1 = Width * q + r
  BY <1>1, <1>3, DivMod
<1> HIDE DEF q, r, n, z
<1>5. q + 1 <= n
  <2> SUFFICES ASSUME q >= n PROVE FALSE
    BY <1>1, <1>4
  <2>1. PICK k \in Nat : q = n + k
    BY <1>1, <1>4
  <2>2. Width * q = Width * (n - 1) + Width + Width * k /\ Width * k \in Nat
    BY <1>1, <2>1, Z3
  <2> QED BY <1>1, <1>2, <1>3, <1>4, <2>2
<1>6. r + 1 \in 1 .. Len(h[s[q + 1]])
  <2>1. CASE q + 1 = n
    <3>1. q = n - 1
      BY <1>1, <1>4, <2>1
    <3>2. r + 1 <= z
      BY <1>1, <1>2, <1>3, <1>4, <3>1
    <3>3. z = Len(h[s[q + 1]])
      BY <2>1 DEF z, n
    <3> QED BY <1>1, <1>4, <3>2, <3>3
  <2>2. CASE q + 1 < n
    <3>1. Len(h[s[q + 1]]) = Width
      BY <1>1, <1>4, <2>2 DEF Filled, n
    <3> QED BY <1>1, <1>4, <3>1
  <2> QED BY <1>1, <1>4, <1>5, <2>1, <2>2
<1>7. q + 1 \in 1 .. Len(s) /\ (q + 1) - 1 = q
  BY <1>1, <1>4, <1>5 DEF n
<1>8. j = Width * q + (r + 1)
  <2>1. Width * q \in Nat
    BY <1>1, <1>4, Z3
  <2> QED BY <1>3, <1>4, <2>1
<1>9. t[Pos(q + 1, r + 1)] = h[s[q + 1]][r + 1]
  BY <1>6, <1>7 DEF Rows
<1>10. Pos(q + 1, r + 1) = j
  BY <1>7, <1>8 DEF Pos
<1> QED BY <1>4, <1>6, <1>7, <1>8, <1>9, <1>10 DEF Child, q, r

LEMMA Known ==
  ASSUME NEW h, NEW g, Extends(h, g), NEW s, Filled(h, s)
  PROVE  /\ Heap(h) /\ Heap(g) /\ Len(h) \in Nat /\ Len(g) \in Nat
         /\ Len(s) \in Nat /\ Len(s) >= 1 /\ Len(s) \in 1 .. Len(s)
         /\ \A c \in 1 .. Len(s) : /\ s[c] \in 1 .. Len(h) /\ h[s[c]] \in Seq(Data)
                                   /\ g[s[c]] = h[s[c]] /\ Len(h[s[c]]) \in Nat
         /\ \A n \in 1 .. Len(g) : g[n] \in Seq(Data)
         /\ s \in Seq(1 .. Len(g))
<1>1. Heap(h) /\ Heap(g)
  BY DEF Extends
<1>2. /\ Len(h) \in Nat /\ Len(s) \in Nat /\ Len(s) >= 1
      /\ \A c \in 1 .. Len(s) : s[c] \in 1 .. Len(h) /\ h[s[c]] \in Seq(Data) /\ Len(h[s[c]]) \in Nat
  BY <1>1, Node
<1>3. Len(g) \in Nat /\ \A n \in 1 .. Len(g) : g[n] \in Seq(Data)
  BY <1>1 DEF Heap
<1>4. \A c \in 1 .. Len(s) : g[s[c]] = h[s[c]]
  BY <1>2 DEF Extends
<1>5. s \in Seq(1 .. Len(g))
  <2>1. s \in Seq(1 .. Len(h)) /\ Len(h) <= Len(g)
    BY DEF Filled, Extends
  <2>2. \A c \in 1 .. Len(s) : s[c] \in 1 .. Len(g)
    BY <1>2, <1>3, <2>1
  <2> QED BY <2>1, <2>2
<1>6. Len(s) \in 1 .. Len(s)
  BY <1>2
<1> QED BY <1>1, <1>2, <1>3, <1>4, <1>5, <1>6

\* What was made before stays.
LEMMA ExtendRows ==
  ASSUME NEW h, NEW g, Extends(h, g), NEW s, Filled(h, s)
  PROVE  /\ Filled(g, s)
         /\ \A t : Rows(h, s, t) => Rows(g, s, t)
<1>1. Len(s) \in Nat /\ Len(s) >= 1
  BY Known
<1>2. \A b \in 1 .. Len(s) : g[s[b]] = h[s[b]]
  BY Known
<1>3. s \in Seq(1 .. Len(g))
  BY Known
<1>4. Filled(g, s)
  BY <1>2, <1>3 DEF Filled
<1>5. Len(s) \in 1 .. Len(s)
  BY <1>1
<1> QED BY <1>2, <1>4, <1>5 DEF Rows

\* A copy of a node, with another child.
LEMMA RowsSet ==
  ASSUME NEW h, NEW g, Extends(h, g), NEW s, Filled(h, s),
         NEW X, NEW t \in Seq(X), Rows(h, s, t),
         NEW b \in 1 .. Len(s), NEW d \in 1 .. Len(h[s[b]]), NEW x \in X, NEW n \in 1 .. Len(g),
         Copy(g[n], h[s[b]], d, x),
         NEW s1, s1 = [s EXCEPT ![b] = n], NEW t1, t1 = [t EXCEPT ![Pos(b, d)] = x]
  PROVE  /\ Pos(b, d) \in 1 .. Len(t)
         /\ Filled(g, s1) /\ Rows(g, s1, t1) /\ AsFull(g, s1, h, s)
<1>0. ASSUME NEW c \in 1 .. Len(s), NEW e \in 1 .. Len(h[s[c]]), Pos(c, e) = Pos(b, d)
      PROVE  c = b /\ e = d
  <2>1. Heap(h)
    BY Known
  <2> QED BY <2>1, <1>0, PlaceOnce
<1>1. /\ Heap(h) /\ Heap(g) /\ Len(s) \in Nat /\ Len(s) >= 1 /\ Len(g) \in Nat
      /\ \A c \in 1 .. Len(s) : s[c] \in 1 .. Len(h) /\ h[s[c]] \in Seq(Data)
      /\ Len(t) = Pos(Len(s), Len(h[s[Len(s)]]))
  BY Known DEF Rows
<1>2. \A c \in 1 .. Len(s) : g[s[c]] = h[s[c]]
  BY Known
<1>3. s \in Seq(1 .. Len(g)) /\ Filled(g, s)
  BY Known, ExtendRows
<1>4. /\ s1 \in Seq(1 .. Len(g)) /\ Len(s1) = Len(s)
      /\ \A c \in 1 .. Len(s) : s1[c] = IF c = b THEN n ELSE s[c]
  BY <1>3, ExceptFacts
<1>5. /\ Len(g[n]) = Len(h[s[b]])
      /\ \A e \in 1 .. Len(h[s[b]]) : g[n][e] = IF e = d THEN x ELSE h[s[b]][e]
  BY DEF Copy
<1>6. \A c \in 1 .. Len(s) : Len(g[s1[c]]) = Len(h[s[c]])
  BY <1>2, <1>4, <1>5
<1>7. Filled(g, s1)
  <2>1. s1 # <<>>
    BY <1>1, <1>4
  <2> QED BY <1>4, <1>6, <2>1 DEF Filled
<1>8. Pos(b, d) \in 1 .. Len(t)
  BY <1>1, Place
<1>9. t1 \in Seq(X) /\ Len(t1) = Len(t) /\ \A i \in 1 .. Len(t) : t1[i] = IF i = Pos(b, d) THEN x ELSE t[i]
  BY <1>8, ExceptFacts
<1>10. ASSUME NEW c \in 1 .. Len(s1), NEW e \in 1 .. Len(g[s1[c]])
       PROVE  t1[Pos(c, e)] = g[s1[c]][e]
  <2>1. c \in 1 .. Len(s) /\ e \in 1 .. Len(h[s[c]])
    BY <1>4, <1>6
  <2>2. Pos(c, e) \in 1 .. Len(t)
    BY <1>1, <2>1, Place
  <2>3. t[Pos(c, e)] = h[s[c]][e]
    BY <2>1 DEF Rows
  <2>4. Pos(c, e) = Pos(b, d) => c = b /\ e = d
    <3> SUFFICES ASSUME Pos(c, e) = Pos(b, d) PROVE c = b /\ e = d
      OBVIOUS
    <3> QED BY <1>0, <2>1
  <2>5. CASE c = b /\ e = d
    BY <1>4, <1>5, <1>9, <2>1, <2>2, <2>5
  <2>6. CASE c = b /\ e # d
    <3>1. t1[Pos(c, e)] = t[Pos(c, e)]
      BY <1>9, <2>2, <2>4, <2>6
    <3>2. s1[c] = n
      BY <1>4, <2>1, <2>6
    <3>3. g[n][e] = h[s[b]][e]
      BY <1>5, <2>1, <2>6
    <3> QED BY <2>3, <2>6, <3>1, <3>2, <3>3
  <2>7. CASE c # b
    <3>1. t1[Pos(c, e)] = t[Pos(c, e)]
      BY <1>9, <2>2, <2>4, <2>7
    <3>2. s1[c] = s[c]
      BY <1>4, <2>1, <2>7
    <3>3. g[s[c]] = h[s[c]]
      BY <1>2, <2>1
    <3> QED BY <2>3, <3>1, <3>2, <3>3
  <2> QED BY <2>5, <2>6, <2>7
<1>11. Len(t1) = Pos(Len(s1), Len(g[s1[Len(s1)]]))
  <2>1. Len(s) \in 1 .. Len(s)
    BY <1>1
  <2> QED BY <1>1, <1>4, <1>6, <1>9, <2>1
<1>12. Rows(g, s1, t1)
  <2> QED BY <1>10, <1>11 DEF Rows
<1> QED BY <1>4, <1>6, <1>7, <1>8, <1>12 DEF AsFull

\* A last node with a child more.
LEMMA RowsLonger ==
  ASSUME NEW h, NEW g, Extends(h, g), NEW s, Filled(h, s),
         NEW X, NEW t \in Seq(X), Rows(h, s, t),
         Len(h[s[Len(s)]]) < Width, NEW x \in X, x \in Data, NEW n \in 1 .. Len(g),
         g[n] = Append(h[s[Len(s)]], x),
         NEW s1, s1 = [s EXCEPT ![Len(s)] = n], NEW t1, t1 = Append(t, x)
  PROVE  Filled(g, s1) /\ Rows(g, s1, t1)
<1> DEFINE b == Len(s)
           z == Len(h[s[b]])
<1>1. /\ Heap(h) /\ Heap(g) /\ b \in Nat /\ b >= 1 /\ Len(g) \in Nat /\ b \in 1 .. Len(s)
      /\ \A c \in 1 .. Len(s) : s[c] \in 1 .. Len(h) /\ h[s[c]] \in Seq(Data)
      /\ Len(t) = Pos(b, z) /\ z \in Nat
  BY Known DEF Rows
<1>2. \A c \in 1 .. Len(s) : g[s[c]] = h[s[c]]
  BY Known
<1>3. s \in Seq(1 .. Len(g)) /\ Filled(g, s)
  BY Known, ExtendRows
<1>4. /\ s1 \in Seq(1 .. Len(g)) /\ Len(s1) = Len(s)
      /\ \A c \in 1 .. Len(s) : s1[c] = IF c = b THEN n ELSE s[c]
  BY <1>1, <1>3, ExceptFacts
<1>5. Len(g[n]) = z + 1 /\ g[n][z + 1] = x /\ \A e \in 1 .. z : g[n][e] = h[s[b]][e]
  BY <1>1, AppendFacts
<1>6. Filled(g, s1)
  <2>1. s1 # <<>>
    BY <1>1, <1>4
  <2>2. z + 1 <= Width
    BY <1>1, VectorAssumption
  <2>3. \A c \in 1 .. Len(s) : c < Len(s) => Len(h[s[c]]) = Width /\ Len(h[s[c]]) <= Width
    BY DEF Filled
  <2>4. ASSUME NEW c \in 1 .. Len(s1) PROVE Len(g[s1[c]]) <= Width /\ (c < Len(s1) => Len(g[s1[c]]) = Width)
    <3>1. CASE c = b
      <4>1. Len(s1) = Len(s) /\ s1[c] = n /\ ~(c < Len(s1))
        BY <1>1, <1>4, <3>1
      <4> HIDE DEF z
      <4> QED BY <1>5, <2>2, <4>1
    <3>2. CASE c # b
      <4>0. Len(s1) = Len(s) /\ Len(s) \in Nat /\ c \in 1 .. Len(s1) /\ c # Len(s)
        BY <1>1, <1>4, <3>2
      <4>1. c \in 1 .. Len(s) /\ c < Len(s)
        BY ONLY <4>0
      <4>2. g[s1[c]] = h[s[c]]
        <5>1. s1[c] = s[c]
          BY <1>4, <3>2, <4>1
        <5>2. g[s[c]] = h[s[c]]
          BY <1>2, <4>1
        <5> QED BY <5>1, <5>2
      <4>3. Len(h[s[c]]) = Width /\ Len(h[s[c]]) <= Width
        BY <2>3, <4>1
      <4> QED BY <4>2, <4>3
    <3> QED BY <3>1, <3>2
  <2> QED BY <1>4, <2>1, <2>4 DEF Filled
<1>7. t1 \in Seq(X) /\ Len(t1) = Len(t) + 1 /\ (\A i \in 1 .. Len(t) : t1[i] = t[i]) /\ t1[Len(t) + 1] = x
  BY AppendFacts
<1>8. Pos(b, z + 1) = Len(t) + 1
  <2>1. b \in Nat \ {0} /\ z \in Nat /\ Len(t) = Pos(b, z)
    BY <1>1
  <2> HIDE DEF b, z
  <2> QED BY <2>1, PosFacts
<1>9. ASSUME NEW c \in 1 .. Len(s1), NEW e \in 1 .. Len(g[s1[c]])
      PROVE  t1[Pos(c, e)] = g[s1[c]][e]
  <2>1. CASE c = b /\ e = z + 1
    <3>1. g[s1[c]] = g[n]
      <4>1. c \in 1 .. Len(s)
        BY <1>4
      <4>2. s1[c] = n
        BY <1>4, <2>1, <4>1
      <4> QED BY <4>2
    <3> HIDE DEF z
    <3> QED BY <1>5, <1>7, <1>8, <2>1, <3>1
  <2>2. CASE ~(c = b /\ e = z + 1)
    <3>1. c \in 1 .. Len(s) /\ e \in 1 .. Len(h[s[c]]) /\ g[s1[c]][e] = h[s[c]][e]
      <4>1. c \in 1 .. Len(s)
        BY <1>4
      <4>2. CASE c = b
        <5>1. g[s1[c]] = g[n]
          BY <1>4, <4>1, <4>2
        <5>2. e \in 1 .. z
          BY <1>1, <1>5, <2>2, <4>2, <5>1
        <5> QED BY <1>5, <4>1, <4>2, <5>1, <5>2
      <4>3. CASE c # b
        <5>1. g[s1[c]] = h[s[c]]
          <6>1. s1[c] = s[c]
            BY <1>4, <4>1, <4>3
          <6>2. g[s[c]] = h[s[c]]
            BY <1>2, <4>1
          <6> QED BY <6>1, <6>2
        <5> QED BY <4>1, <5>1
      <4> QED BY <4>2, <4>3
    <3>2. Pos(c, e) \in 1 .. Len(t)
      BY <1>1, <3>1, Place
    <3>3. t[Pos(c, e)] = h[s[c]][e]
      BY <3>1 DEF Rows
    <3> QED BY <1>7, <3>1, <3>2, <3>3
  <2> QED BY <2>1, <2>2
<1>10. Len(t1) = Pos(Len(s1), Len(g[s1[Len(s1)]]))
  <2>1. g[s1[Len(s1)]] = g[n] /\ Len(s1) = b
    BY <1>1, <1>4
  <2> QED BY <1>5, <1>7, <1>8, <2>1
<1>11. Rows(g, s1, t1)
  <2> QED BY <1>9, <1>10 DEF Rows
<1> QED BY <1>6, <1>11

\* A new last node.
LEMMA RowsNext ==
  ASSUME NEW h, NEW g, Extends(h, g), NEW s, Filled(h, s),
         NEW X, NEW t \in Seq(X), Rows(h, s, t),
         Len(h[s[Len(s)]]) = Width, NEW x \in X, NEW n \in 1 .. Len(g), g[n] = <<x>>,
         NEW s1, s1 = Append(s, n), NEW t1, t1 = Append(t, x)
  PROVE  Filled(g, s1) /\ Rows(g, s1, t1)
<1> DEFINE b == Len(s)
<1>1. /\ Heap(h) /\ b \in Nat \ {0} /\ b \in 1 .. Len(s) /\ Width \in Nat \ {0}
      /\ Len(t) = Pos(b, Width) /\ Width >= 1
  BY Known, VectorAssumption DEF Rows
<1>2. \A c \in 1 .. Len(s) : g[s[c]] = h[s[c]]
  BY Known
<1>3. s \in Seq(1 .. Len(g)) /\ Filled(g, s)
  BY Known, ExtendRows
<1>4. /\ s1 \in Seq(1 .. Len(g)) /\ Len(s1) = b + 1 /\ s1[b + 1] = n
      /\ \A c \in 1 .. Len(s) : s1[c] = s[c]
  BY <1>3, AppendFacts
<1>5. Len(g[n]) = 1 /\ g[n][1] = x
  OBVIOUS
<1>6. ASSUME NEW c \in 1 .. Len(s1)
      PROVE  c = b + 1 \/ (c \in 1 .. Len(s) /\ c # b + 1 /\ s1[c] = s[c] /\ g[s1[c]] = h[s[c]])
  <2>1. Len(s) \in Nat
    BY <1>1
  <2> QED BY <1>2, <1>4, <2>1
<1>7. Filled(g, s1)
  <2>1. s1 # <<>>
    BY <1>1, <1>4
  <2>2. ASSUME NEW c \in 1 .. Len(s1) PROVE Len(g[s1[c]]) <= Width /\ (c < Len(s1) => Len(g[s1[c]]) = Width)
    <3>1. CASE c = b + 1
      <4> HIDE DEF b
      <4>1. s1[c] = n /\ ~(c < Len(s1))
        BY <1>1, <1>4, <3>1
      <4> QED BY <1>1, <1>5, <4>1
    <3>2. CASE c # b + 1
      <4>1. c \in 1 .. Len(s) /\ g[s1[c]] = h[s[c]]
        BY <1>6, <3>2
      <4>2. CASE c = b
        <5> QED BY <1>1, <4>1, <4>2
      <4>3. CASE c # b
        <5>1. c < Len(s)
          BY <1>1, <4>1, <4>3
        <5> QED BY <4>1, <5>1 DEF Filled
      <4> QED BY <4>2, <4>3
    <3> QED BY <3>1, <3>2
  <2> QED BY <1>4, <2>1, <2>2 DEF Filled
<1>8. t1 \in Seq(X) /\ Len(t1) = Len(t) + 1 /\ (\A i \in 1 .. Len(t) : t1[i] = t[i]) /\ t1[Len(t) + 1] = x
  BY AppendFacts
<1>9. Pos(b + 1, 1) = Len(t) + 1
  <2> HIDE DEF b
  <2>1. Pos(b + 1, 0 + 1) = Pos(b + 1, 0) + 1
    BY <1>1, PosFacts
  <2>2. Pos(b + 1, 0) = Pos(b, Width)
    BY <1>1, PosFacts
  <2> QED BY <1>1, <2>1, <2>2
<1>10. ASSUME NEW c \in 1 .. Len(s1), NEW e \in 1 .. Len(g[s1[c]])
       PROVE  t1[Pos(c, e)] = g[s1[c]][e]
  <2>1. CASE c = b + 1
    <3> HIDE DEF b
    <3>1. g[s1[c]] = g[n]
      BY <1>4, <2>1
    <3>2. e = 1
      BY <1>5, <3>1
    <3> QED BY <1>5, <1>8, <1>9, <2>1, <3>1, <3>2
  <2>2. CASE c # b + 1
    <3>1. c \in 1 .. Len(s) /\ g[s1[c]] = h[s[c]] /\ e \in 1 .. Len(h[s[c]])
      BY <1>6, <2>2
    <3>2. Pos(c, e) \in 1 .. Pos(Len(s), Len(h[s[Len(s)]]))
      BY <1>1, <3>1, Place
    <3>3. Pos(c, e) \in 1 .. Len(t)
      BY <3>2 DEF Rows
    <3>4. t[Pos(c, e)] = h[s[c]][e]
      BY <3>1 DEF Rows
    <3> QED BY <1>8, <3>1, <3>3, <3>4
  <2> QED BY <2>1, <2>2
<1>11. Len(t1) = Pos(Len(s1), Len(g[s1[Len(s1)]]))
  <2>1. g[s1[Len(s1)]] = g[n] /\ Len(s1) = b + 1
    BY <1>1, <1>4
  <2> QED BY <1>5, <1>8, <1>9, <2>1
<1>12. Rows(g, s1, t1)
  <2> QED BY <1>10, <1>11 DEF Rows
<1> QED BY <1>7, <1>12

\* A last node with a child less.
LEMMA RowsShorter ==
  ASSUME NEW h, NEW g, Extends(h, g), NEW s, Filled(h, s),
         NEW X, NEW t \in Seq(X), Rows(h, s, t), h[s[Len(s)]] # <<>>,
         NEW n \in 1 .. Len(g), g[n] = Front(h[s[Len(s)]]),
         NEW s1, s1 = [s EXCEPT ![Len(s)] = n], NEW t1, t1 = Front(t)
  PROVE  t # <<>> /\ Filled(g, s1) /\ Rows(g, s1, t1)
<1> DEFINE b == Len(s)
           z == Len(h[s[b]])
<1>1. /\ Heap(h) /\ b \in Nat \ {0} /\ b \in 1 .. Len(s) /\ h[s[b]] \in Seq(Data)
      /\ Len(t) = Pos(b, z) /\ z \in Nat
  BY Known DEF Rows
<1>2. \A c \in 1 .. Len(s) : g[s[c]] = h[s[c]]
  BY Known
<1>3. s \in Seq(1 .. Len(g)) /\ Filled(g, s)
  BY Known, ExtendRows
<1>4. /\ s1 \in Seq(1 .. Len(g)) /\ Len(s1) = Len(s)
      /\ \A c \in 1 .. Len(s) : s1[c] = IF c = b THEN n ELSE s[c]
  BY <1>1, <1>3, ExceptFacts
<1>5. Len(g[n]) = z - 1 /\ z - 1 \in Nat /\ \A e \in 1 .. z - 1 : g[n][e] = h[s[b]][e]
  BY <1>1, FrontFacts
<1>6. Len(t) - 1 = Pos(b, z - 1) /\ Pos(b, z - 1) \in Nat
  <2> DEFINE y == z - 1
  <2>1. y \in Nat /\ y + 1 = z /\ b \in Nat \ {0} /\ Len(t) = Pos(b, z)
    BY <1>1, <1>5
  <2> HIDE DEF b, z, y
  <2>2. Pos(b, y + 1) = Pos(b, y) + 1 /\ Pos(b, y) \in Nat
    BY <2>1, PosFacts
  <2>3. Len(t) - 1 = Pos(b, y) /\ Pos(b, y) \in Nat
    BY <2>1, <2>2
  <2> QED BY <2>3 DEF y
<1>7. t # <<>>
  BY <1>6
<1>8. t1 \in Seq(X) /\ Len(t1) = Len(t) - 1 /\ (\A i \in 1 .. Len(t) - 1 : t1[i] = t[i])
  BY <1>7, FrontFacts
<1>9. ASSUME NEW c \in 1 .. Len(s1)
      PROVE  /\ c \in 1 .. Len(s) /\ Len(g[s1[c]]) <= Len(h[s[c]]) /\ (c # b => g[s1[c]] = h[s[c]])
             /\ \A e \in 1 .. Len(g[s1[c]]) : e \in 1 .. Len(h[s[c]]) /\ g[s1[c]][e] = h[s[c]][e]
  <2>1. c \in 1 .. Len(s) /\ Len(h[s[c]]) \in Nat
    BY <1>4, Known
  <2>2. CASE c = b
    <3>1. g[s1[c]] = g[n] /\ h[s[c]] = h[s[b]]
      BY <1>4, <2>1, <2>2
    <3> QED BY <1>1, <1>5, <2>1, <2>2, <3>1
  <2>3. CASE c # b
    <3>1. s1[c] = s[c]
      BY <1>4, <2>1, <2>3
    <3>2. g[s[c]] = h[s[c]]
      BY <1>2, <2>1
    <3>3. g[s1[c]] = h[s[c]]
      BY <3>1, <3>2
    <3>4. Len(h[s[c]]) <= Len(h[s[c]])
      BY <2>1
    <3> HIDE DEF b
    <3> QED BY <2>1, <2>3, <3>3, <3>4
  <2> QED BY <2>2, <2>3
<1>10. Filled(g, s1)
  <2>1. s1 # <<>>
    BY <1>1, <1>4
  <2>2. ASSUME NEW c \in 1 .. Len(s1) PROVE Len(g[s1[c]]) <= Width /\ (c < Len(s1) => Len(g[s1[c]]) = Width)
    <3>1. c \in 1 .. Len(s) /\ Len(h[s[c]]) <= Width /\ Len(h[s[c]]) \in Nat
      BY <1>9, Known DEF Filled
    <3>2. Len(g[s1[c]]) \in Nat /\ Width \in Nat
      <4>1. s1[c] \in 1 .. Len(g)
        <5>1. s1 \in Seq(1 .. Len(g)) /\ c \in 1 .. Len(s1)
          BY <1>4
        <5> QED BY ONLY <5>1
      <4>2. g[s1[c]] \in Seq(Data)
        BY <4>1, Known
      <4> QED BY <4>2, VectorAssumption
    <3>3. Len(g[s1[c]]) <= Width
      BY <1>9, <3>1, <3>2
    <3>4. c < Len(s1) => Len(g[s1[c]]) = Width
      <4> SUFFICES ASSUME c < Len(s1) PROVE Len(g[s1[c]]) = Width
        OBVIOUS
      <4>1. c # b /\ c < Len(s)
        <5>1. Len(s1) = Len(s) /\ Len(s) \in Nat /\ c < Len(s1) /\ c \in Nat
          BY <1>1, <1>4, <3>1
        <5>2. c # Len(s) /\ c < Len(s)
          BY ONLY <5>1
        <5> QED BY <5>2
      <4> QED BY <1>9, <4>1, <3>1 DEF Filled
    <3> QED BY <3>3, <3>4
  <2> QED BY <1>4, <2>1, <2>2 DEF Filled
<1>11. Len(t1) = Pos(Len(s1), Len(g[s1[Len(s1)]]))
  <2>1. g[s1[Len(s1)]] = g[n] /\ Len(s1) = b
    BY <1>1, <1>4
  <2> QED BY <1>5, <1>6, <1>8, <2>1
<1>12. ASSUME NEW c \in 1 .. Len(s1), NEW e \in 1 .. Len(g[s1[c]])
       PROVE  t1[Pos(c, e)] = g[s1[c]][e]
  <2>1. c \in 1 .. Len(s) /\ e \in 1 .. Len(h[s[c]]) /\ g[s1[c]][e] = h[s[c]][e]
    BY <1>9
  <2>2. t[Pos(c, e)] = h[s[c]][e]
    BY <2>1 DEF Rows
  <2>3. Pos(c, e) \in 1 .. Pos(Len(s1), Len(g[s1[Len(s1)]]))
    <3>1. Heap(g)
      BY Known
    <3> QED BY <1>10, <3>1, Place
  <2>4. Pos(c, e) \in 1 .. Len(t) - 1
    BY <1>8, <1>11, <2>3
  <2> QED BY <1>8, <2>1, <2>2, <2>4
<1>13. Rows(g, s1, t1)
  <2> QED BY <1>11, <1>12 DEF Rows
<1> QED BY <1>7, <1>10, <1>13

\* A last node that goes with its only child.
LEMMA RowsCut ==
  ASSUME NEW h, Heap(h), NEW s, Filled(h, s), Len(s) > 1,
         NEW X, NEW t \in Seq(X), Rows(h, s, t), Len(h[s[Len(s)]]) = 1,
         NEW s1, s1 = Front(s), NEW t1, t1 = Front(t)
  PROVE  t # <<>> /\ Filled(h, s1) /\ Rows(h, s1, t1) /\ t[Len(t)] = h[s[Len(s)]][1]
<1> DEFINE b == Len(s) - 1
<1>1. /\ b \in Nat \ {0} /\ Len(s) = b + 1 /\ Len(s) \in 1 .. Len(s) /\ b \in 1 .. Len(s)
      /\ Len(t) = Pos(Len(s), 1) /\ s \in Seq(1 .. Len(h)) /\ s # <<>>
  BY Node DEF Rows, Filled
<1>2. Pos(b + 1, 1) = Pos(b, Width) + 1 /\ Pos(b, Width) \in Nat
  <2> HIDE DEF b
  <2>1. Pos(b + 1, 0 + 1) = Pos(b + 1, 0) + 1
    BY <1>1, PosFacts
  <2>2. Pos(b + 1, 0) = Pos(b, Width) /\ Pos(b, Width) \in Nat
    BY <1>1, PosFacts, VectorAssumption
  <2> QED BY <2>1, <2>2
<1>3. t # <<>>
  BY <1>1, <1>2
<1>4. /\ s1 \in Seq(1 .. Len(h)) /\ Len(s1) = b /\ \A c \in 1 .. b : s1[c] = s[c]
      /\ t1 \in Seq(X) /\ Len(t1) = Len(t) - 1 /\ \A i \in 1 .. Len(t) - 1 : t1[i] = t[i]
  BY <1>1, <1>3, FrontFacts
<1>5. \A c \in 1 .. b : c \in 1 .. Len(s) /\ c < Len(s) /\ Len(h[s1[c]]) = Width
  <2>1. \A c \in 1 .. b : c \in 1 .. Len(s) /\ c < Len(s)
    BY <1>1
  <2> QED BY <1>4, <2>1 DEF Filled
<1>6. Filled(h, s1)
  <2>1. s1 # <<>>
    BY <1>1, <1>4
  <2>2. Width <= Width
    BY VectorAssumption
  <2> HIDE DEF b
  <2> QED BY <1>4, <1>5, <2>1, <2>2 DEF Filled
<1>7. Len(t1) = Pos(Len(s1), Len(h[s1[Len(s1)]]))
  <2>1. b \in 1 .. b
    BY <1>1
  <2>2. Len(h[s1[Len(s1)]]) = Width /\ Len(t) = Pos(b + 1, 1)
    BY <1>1, <1>4, <1>5, <2>1
  <2> HIDE DEF b
  <2> QED BY <1>2, <1>4, <2>2
<1>8. ASSUME NEW c \in 1 .. Len(s1), NEW e \in 1 .. Len(h[s1[c]])
      PROVE  t1[Pos(c, e)] = h[s1[c]][e]
  <2> HIDE DEF b
  <2>1. c \in 1 .. Len(s) /\ h[s1[c]] = h[s[c]]
    BY <1>4, <1>5
  <2>2. t[Pos(c, e)] = h[s1[c]][e]
    BY <2>1 DEF Rows
  <2>3. Pos(c, e) \in 1 .. Pos(Len(s1), Len(h[s1[Len(s1)]]))
    BY <1>6, Place
  <2> QED BY <1>4, <1>7, <2>2, <2>3
<1>9. Rows(h, s1, t1)
  <2> QED BY <1>7, <1>8 DEF Rows
<1>10. t[Len(t)] = h[s[Len(s)]][1]
  <2>1. 1 \in 1 .. Len(h[s[Len(s)]])
    OBVIOUS
  <2>2. t[Pos(Len(s), 1)] = h[s[Len(s)]][1]
    BY <1>1, <2>1 DEF Rows
  <2> QED BY <1>1, <2>2
<1> QED BY <1>3, <1>6, <1>9, <1>10

\* A row of one node.
LEMMA RowsRoot ==
  ASSUME NEW g, Heap(g), NEW n \in 1 .. Len(g), NEW s1, s1 = <<n>>, NEW t1, t1 = g[n], Len(t1) <= Width
  PROVE  s1 \in Seq(1 .. Len(g)) /\ Filled(g, s1) /\ Rows(g, s1, t1)
<1>1. s1 \in Seq(1 .. Len(g)) /\ Len(s1) = 1 /\ s1[1] = n /\ s1 # <<>>
  OBVIOUS
<1>2. Len(t1) \in Nat
  BY DEF Heap
<1>3. Filled(g, s1)
  BY <1>1 DEF Filled
<1>4. \A d \in Nat : Pos(1, d) = d
  BY PosFacts
<1>5. Rows(g, s1, t1)
  <2>1. ASSUME NEW b \in 1 .. Len(s1), NEW d \in 1 .. Len(g[s1[b]]) PROVE t1[Pos(b, d)] = g[s1[b]][d]
    <3>1. b = 1 /\ d \in Nat
      BY <1>1
    <3> QED BY <1>1, <1>4, <3>1
  <2> QED BY <1>1, <1>2, <1>4, <2>1 DEF Rows
<1> QED BY <1>1, <1>3, <1>5

-----------------------------------------------------------------------------
(* Vectors *)

\* The vector v has the elements E, and A are the rows of its tree.
Upright(h, v, A, E) ==
  /\ Heap(h) /\ E \in Seq(Data)
  /\ v \in [cnt : Nat, shift : Nat, root : Nat, tail : Nat] /\ v.shift >= 1 /\ v.cnt = Len(E)
  /\ A \in [0 .. v.shift -> Seq(1 .. Len(h))] /\ A[v.shift] = <<v.root>>
  /\ \A l \in 1 .. v.shift : Filled(h, A[l]) /\ Rows(h, A[l], A[l - 1])
  /\ Filled(h, Append(A[0], v.tail)) /\ Rows(h, Append(A[0], v.tail), E)
  /\ E # <<>> => h[v.tail] # <<>>
  /\ \/ A[0] = <<>> /\ v.shift = 1
     \/ A[0] # <<>> /\ \A l \in 1 .. v.shift : h[A[l][Len(A[l])]] # <<>>

\* And the tree is no higher than it needs to be.
Good(h, v, A, E) == Upright(h, v, A, E) /\ (v.shift > 1 => Len(h[v.root]) > 1)

LEMMA PosOrder ==
  ASSUME NEW b \in Nat \ {0}, NEW c \in Nat \ {0}, b < c, NEW d \in 0 .. Width
  PROVE  Pos(b, d) <= Pos(c, 0) /\ Pos(c, 0) \in Nat /\ Pos(b, d) \in Nat
<1>1. PICK k \in Nat : c = b + 1 + k
  <2>1. c - b - 1 \in Nat /\ c = b + 1 + (c - b - 1)
    OBVIOUS
  <2> QED BY <2>1
<1> DEFINE p == Width * (b - 1)
           w == Width * k
<1>2. Width \in Nat /\ d \in Nat /\ d <= Width
  BY VectorAssumption
<1>3. p \in Nat /\ w \in Nat /\ Width * (c - 1) = p + Width + w
  BY <1>1, <1>2, Z3
<1>4. Pos(b, d) = p + d /\ Pos(c, 0) = p + Width + w + 0
  BY <1>3 DEF Pos
<1> HIDE DEF p, w
<1> QED BY <1>2, <1>3, <1>4

\* What the parts of Good say of the rows.
LEMMA GoodRows ==
  ASSUME NEW h, NEW v, NEW A, NEW E, Good(h, v, A, E)
  PROVE  /\ Heap(h) /\ Len(h) \in Nat /\ v.shift \in Nat /\ v.shift >= 1 /\ v.cnt = Len(E) /\ Len(E) \in Nat
         /\ \A l \in 0 .. v.shift : A[l] \in Seq(1 .. Len(h)) /\ Len(A[l]) \in Nat
         /\ \A l \in 0 .. v.shift : l # 0 => /\ l - 1 \in 0 .. v.shift /\ l \in 1 .. v.shift
                                             /\ Filled(h, A[l]) /\ Rows(h, A[l], A[l - 1]) /\ Len(A[l]) \in 1 .. Len(A[l])
         /\ A[v.shift] = <<v.root>> /\ v.root \in 1 .. Len(h)
         /\ Append(A[0], v.tail) \in Seq(1 .. Len(h)) /\ v.tail \in 1 .. Len(h)
         /\ h[v.tail] \in Seq(Data) /\ Len(h[v.tail]) \in 0 .. Width
         /\ \A b \in 1 .. Len(A[0]) : Append(A[0], v.tail)[b] = A[0][b] /\ Len(h[A[0][b]]) = Width
         /\ Append(A[0], v.tail)[Len(A[0]) + 1] = v.tail /\ Len(Append(A[0], v.tail)) = Len(A[0]) + 1
<1>1. Heap(h) /\ v.shift \in Nat /\ v.shift >= 1 /\ v.cnt = Len(E) /\ Len(E) \in Nat /\ Len(h) \in Nat
  BY DEF Good, Upright, Heap
<1>2. \A l \in 0 .. v.shift : A[l] \in Seq(1 .. Len(h)) /\ Len(A[l]) \in Nat
  <2>1. A \in [0 .. v.shift -> Seq(1 .. Len(h))]
    BY DEF Good, Upright
  <2> QED BY <2>1
<1>3. ASSUME NEW l \in 0 .. v.shift, l # 0
      PROVE  /\ l - 1 \in 0 .. v.shift /\ l \in 1 .. v.shift
             /\ Filled(h, A[l]) /\ Rows(h, A[l], A[l - 1]) /\ Len(A[l]) \in 1 .. Len(A[l])
  <2>1. l - 1 \in 0 .. v.shift /\ l \in 1 .. v.shift
    BY <1>1, <1>3
  <2>2. Filled(h, A[l]) /\ Rows(h, A[l], A[l - 1])
    BY <2>1 DEF Good, Upright
  <2>3. Len(A[l]) \in 1 .. Len(A[l])
    BY <1>1, <2>2, Node
  <2> QED BY <2>1, <2>2, <2>3
<1>4. A[v.shift] = <<v.root>> /\ v.root \in 1 .. Len(h)
  <2>1. A[v.shift] = <<v.root>>
    BY DEF Good, Upright
  <2>2. <<v.root>> \in Seq(1 .. Len(h))
    <3>1. v.shift \in 0 .. v.shift
      BY <1>1
    <3> QED BY <1>2, <2>1, <3>1
  <2> QED BY <2>1, <2>2
<1>5. A[0] \in Seq(1 .. Len(h)) /\ Len(A[0]) \in Nat
  BY <1>1, <1>2
<1>6. /\ Append(A[0], v.tail) \in Seq(1 .. Len(h)) /\ Append(A[0], v.tail)[Len(A[0]) + 1] = v.tail
      /\ Len(Append(A[0], v.tail)) = Len(A[0]) + 1
      /\ \A b \in 1 .. Len(A[0]) : Append(A[0], v.tail)[b] = A[0][b]
  <2>1. Append(A[0], v.tail) \in Seq(1 .. Len(h))
    BY DEF Good, Upright, Filled
  <2> QED BY <1>5, <2>1
<1> DEFINE s == Append(A[0], v.tail)
<1> HIDE DEF s
<1>7. /\ v.tail = s[Len(s)] /\ Len(s) \in 1 .. Len(s) /\ s \in Seq(1 .. Len(h)) /\ Filled(h, s)
      /\ Len(s) = Len(A[0]) + 1 /\ \A b \in 1 .. Len(A[0]) : s[b] = A[0][b]
  <2>1. Len(s) \in 1 .. Len(s)
    BY <1>5, <1>6 DEF s
  <2>2. Filled(h, s)
    BY DEF Good, Upright, s
  <2> QED BY <1>6, <2>1, <2>2 DEF s
<1>8. v.tail \in 1 .. Len(h) /\ h[v.tail] \in Seq(Data) /\ Len(h[v.tail]) \in 0 .. Width
  <2>1. s[Len(s)] \in 1 .. Len(h) /\ h[s[Len(s)]] \in Seq(Data) /\ Len(h[s[Len(s)]]) \in Nat
    BY <1>1, <1>7, Node
  <2>2. Len(h[s[Len(s)]]) <= Width
    BY <1>7 DEF Filled
  <2> QED BY <1>7, <2>1, <2>2, VectorAssumption
<1>9. ASSUME NEW b \in 1 .. Len(A[0]) PROVE Len(h[A[0][b]]) = Width
  <2>1. b \in 1 .. Len(s) /\ b < Len(s)
    BY <1>5, <1>7
  <2>2. Len(h[s[b]]) = Width
    BY <1>7, <2>1 DEF Filled
  <2> QED BY <1>7, <2>2
<1> QED BY <1>1, <1>2, <1>3, <1>4, <1>6, <1>8, <1>9

\* All leaves are full.
LEMMA LeavesFull ==
  ASSUME NEW h, NEW v, NEW A, NEW E, Good(h, v, A, E)
  PROVE  \A b \in 1 .. Len(A[0]) : Len(h[A[0][b]]) = Width
<1> TAKE b \in 1 .. Len(A[0])
<1>1. Append(A[0], v.tail)[b] = A[0][b] /\ Len(h[A[0][b]]) = Width
  BY GoodRows
<1> QED BY <1>1

\* What was made before stays.
LEMMA GoodStays ==
  ASSUME NEW h, NEW g, Extends(h, g), NEW v, NEW A, NEW E, Good(h, v, A, E)
  PROVE  Good(g, v, A, E)
<1>1. Heap(h) /\ Heap(g) /\ Len(h) \in Nat /\ Len(g) \in Nat /\ Len(h) <= Len(g)
  BY DEF Extends, Heap
<1>2. A \in [0 .. v.shift -> Seq(1 .. Len(g))]
  <2>1. 1 .. Len(h) \subseteq 1 .. Len(g)
    BY <1>1
  <2>2. \A s \in Seq(1 .. Len(h)) : s \in Seq(1 .. Len(g))
    <3> TAKE s \in Seq(1 .. Len(h))
    <3>1. \A c \in 1 .. Len(s) : s[c] \in 1 .. Len(g)
      BY <2>1
    <3> QED BY <3>1
  <2> QED BY <2>2 DEF Good, Upright
<1>3. \A l \in 1 .. v.shift : Filled(g, A[l]) /\ Rows(g, A[l], A[l - 1])
  <2> TAKE l \in 1 .. v.shift
  <2>1. Filled(h, A[l]) /\ Rows(h, A[l], A[l - 1])
    BY DEF Good, Upright
  <2> QED BY <2>1, ExtendRows
<1>4. Filled(g, Append(A[0], v.tail)) /\ Rows(g, Append(A[0], v.tail), E)
  <2>1. Filled(h, Append(A[0], v.tail)) /\ Rows(h, Append(A[0], v.tail), E)
    BY DEF Good, Upright
  <2> QED BY <2>1, ExtendRows
<1>5. g[v.tail] = h[v.tail] /\ g[v.root] = h[v.root]
  <2>1. v.tail \in 1 .. Len(h) /\ v.root \in 1 .. Len(h)
    BY GoodRows
  <2> QED BY <2>1 DEF Extends
<1>6. \A l \in 1 .. v.shift : g[A[l][Len(A[l])]] = h[A[l][Len(A[l])]]
  <2> TAKE l \in 1 .. v.shift
  <2>1. Filled(h, A[l])
    BY DEF Good, Upright
  <2> QED BY <2>1, Known
<1>7. /\ E \in Seq(Data)
      /\ v \in [cnt : Nat, shift : Nat, root : Nat, tail : Nat] /\ v.shift >= 1 /\ v.cnt = Len(E)
      /\ A[v.shift] = <<v.root>>
      /\ E # <<>> => h[v.tail] # <<>>
      /\ \/ A[0] = <<>> /\ v.shift = 1
         \/ A[0] # <<>> /\ \A l \in 1 .. v.shift : h[A[l][Len(A[l])]] # <<>>
      /\ v.shift > 1 => Len(h[v.root]) > 1
  BY DEF Good, Upright
<1> QED BY <1>1, <1>2, <1>3, <1>4, <1>5, <1>6, <1>7 DEF Good, Upright

\* The last nodes of the rows are the ones that a walk to the last child meets.
LEMMA SpineGood ==
  ASSUME NEW h, NEW v, NEW A, NEW E, Good(h, v, A, E)
  PROVE  \A l \in 0 .. v.shift : Spine(h, v)[l] = Last(A[l])
<1> DEFINE g == [l \in 0 .. v.shift |-> Last(A[l])]
<1>1. v.shift \in Nat /\ v.shift >= 1 /\ v.shift \in 0 .. v.shift
  BY GoodRows
<1>2. Last(A[v.shift]) = v.root
  <2>1. A[v.shift] = <<v.root>>
    BY GoodRows
  <2> QED BY <2>1 DEF Last
<1>3. ASSUME NEW l \in 0 .. v.shift, l # v.shift
      PROVE  Last(A[l]) = Last(h[Last(A[l + 1])])
  <2>1. PICK k \in 0 .. v.shift : k = l + 1 /\ l = k - 1 /\ k # 0
    BY <1>1, <1>3
  <2> DEFINE s == A[k]  t == A[k - 1]  z == Len(h[s[Len(s)]])
  <2>2. Filled(h, s) /\ Rows(h, s, t) /\ Heap(h) /\ t \in Seq(1 .. Len(h))
    BY <2>1, GoodRows
  <2>3. /\ Len(s) \in Nat \ {0} /\ Len(s) \in 1 .. Len(s) /\ h[s[Len(s)]] \in Seq(Data) /\ z \in Nat
        /\ Len(t) = Pos(Len(s), z) /\ Len(t) \in Nat
    <3> HIDE DEF s, t
    <3> QED BY <2>2, Node DEF Rows
  <2>4. CASE A[0] = <<>> /\ v.shift = 1
    <3>1. k = 1 /\ k - 1 = 0 /\ k = v.shift
      BY <1>1, <2>1, <2>4
    <3>2. s = <<v.root>> /\ t = <<>> /\ Len(s) = 1
      <4>1. A[v.shift] = <<v.root>>
        BY GoodRows
      <4>2. s = <<v.root>> /\ t = <<>>
        BY <2>4, <3>1, <4>1
      <4> HIDE DEF s
      <4> QED BY <4>2
    <3>3. Pos(1, z) = z
      BY <2>3, PosFacts
    <3>4. z = 0
      <4> HIDE DEF s, t, z
      <4> QED BY <2>3, <3>2, <3>3
    <3>5. h[s[Len(s)]] = <<>>
      <4> HIDE DEF s, t
      <4> QED BY <2>3, <3>4
    <3> QED BY <2>1, <3>2, <3>5 DEF Last
  <2>5. CASE \A j \in 1 .. v.shift : h[A[j][Len(A[j])]] # <<>>
    <3>1. h[s[Len(s)]] # <<>>
      BY <1>1, <2>1, <2>5
    <3>2. z \in 1 .. z
      <4> HIDE DEF s, t
      <4> QED BY <2>3, <3>1
    <3>3. t[Pos(Len(s), z)] = h[s[Len(s)]][z]
      <4> HIDE DEF s, t
      <4> QED BY <2>2, <2>3, <3>2 DEF Rows
    <3> QED BY <2>1, <2>3, <3>3 DEF Last
  <2> QED BY <2>4, <2>5 DEF Good, Upright
<1>4. g = [l \in 0 .. v.shift |-> IF l = v.shift THEN v.root ELSE Last(h[g[l + 1]])]
  <2>1. ASSUME NEW l \in 0 .. v.shift
        PROVE  g[l] = IF l = v.shift THEN v.root ELSE Last(h[g[l + 1]])
    <3>1. CASE l = v.shift
      BY <1>2, <3>1
    <3>2. CASE l # v.shift
      <4>1. l + 1 \in 0 .. v.shift
        BY <1>1, <3>2
      <4>2. g[l] = Last(A[l]) /\ g[l + 1] = Last(A[l + 1])
        BY <4>1
      <4> HIDE DEF g
      <4> QED BY <1>3, <3>2, <4>2
    <3> QED BY <3>1, <3>2
  <2>2. g = [l \in 0 .. v.shift |-> g[l]]
    OBVIOUS
  <2> HIDE DEF g
  <2> QED BY <2>1, <2>2
<1> DEFINE p == Spine(h, v)
<1>5. p = [l \in 0 .. v.shift |-> IF l = v.shift THEN v.root ELSE Last(h[p[l + 1]])]
  <2>1. \E f : f = [l \in 0 .. v.shift |-> IF l = v.shift THEN v.root ELSE Last(h[f[l + 1]])]
    <3> HIDE DEF g
    <3> QED BY <1>4
  <2> QED BY <2>1, Zenon DEF Spine
<1> HIDE DEF p, g
<1>6. p[v.shift] = g[v.shift]
  BY <1>1, <1>4, <1>5
<1>7. ASSUME NEW l \in 0 .. v.shift - 1, p[l + 1] = g[l + 1] PROVE p[l] = g[l]
  <2>1. l \in 0 .. v.shift /\ l # v.shift
    BY <1>1
  <2>2. p[l] = Last(h[p[l + 1]])
    BY <1>5, <2>1
  <2>3. g[l] = Last(h[g[l + 1]])
    BY <1>4, <2>1
  <2> QED BY <1>7, <2>2, <2>3
<1>8. \A l \in 0 .. v.shift : p[l] = g[l]
  BY <1>1, <1>6, <1>7, Downwards
<1> QED BY <1>8 DEF p, g

\* The rows are the levels of the tree.
LEMMA LevelsGood ==
  ASSUME NEW h, NEW v, NEW A, NEW E, Good(h, v, A, E)
  PROVE  \A l \in 0 .. v.shift : Levels(h, v)[l] = A[l]
<1>1. v.shift \in Nat /\ v.shift >= 1 /\ v.shift \in 0 .. v.shift
  BY GoodRows
<1>2. ASSUME NEW k \in 0 .. v.shift, k # 0
      PROVE  A[k - 1] = [j \in 1 .. Children(h, A[k]) |-> Child(h, A[k], j)]
  <2> DEFINE s == A[k]  t == A[k - 1]
  <2>1. Filled(h, s) /\ Rows(h, s, t) /\ Heap(h)
    BY <1>2, GoodRows
  <2>2. t \in Seq(1 .. Len(h))
    <3>1. k - 1 \in 0 .. v.shift
      BY <1>2, GoodRows
    <3> QED BY <3>1, GoodRows
  <2> HIDE DEF s, t
  <2>3. Children(h, s) = Len(t)
    BY <2>1 DEF Children, Rows, Pos, Last
  <2>4. \A j \in 1 .. Len(t) : t[j] = Child(h, s, j)
    BY <2>1, <2>2, RowsChild
  <2>5. t = [j \in 1 .. Len(t) |-> t[j]]
    BY <2>2
  <2>6. t = [j \in 1 .. Children(h, s) |-> Child(h, s, j)]
    BY <2>3, <2>4, <2>5
  <2> QED BY <2>6 DEF s, t
<1>3. A = [l \in 0 .. v.shift |-> IF l = v.shift THEN <<v.root>>
                                  ELSE [j \in 1 .. Children(h, A[l + 1]) |-> Child(h, A[l + 1], j)]]
  <2>1. ASSUME NEW l \in 0 .. v.shift
        PROVE  A[l] = IF l = v.shift THEN <<v.root>>
                      ELSE [j \in 1 .. Children(h, A[l + 1]) |-> Child(h, A[l + 1], j)]
    <3>1. CASE l = v.shift
      BY <3>1, GoodRows
    <3>2. CASE l # v.shift
      <4>1. PICK k \in 0 .. v.shift : k = l + 1 /\ l = k - 1 /\ k # 0
        BY <1>1, <3>2
      <4> QED BY <1>2, <3>2, <4>1
    <3> QED BY <3>1, <3>2
  <2>2. A = [l \in 0 .. v.shift |-> A[l]]
    BY DEF Good, Upright
  <2> QED BY <2>1, <2>2
<1> DEFINE p == Levels(h, v)
<1>4. p = [l \in 0 .. v.shift |-> IF l = v.shift THEN <<v.root>>
                                  ELSE [j \in 1 .. Children(h, p[l + 1]) |-> Child(h, p[l + 1], j)]]
  <2>1. \E f : f = [l \in 0 .. v.shift |-> IF l = v.shift THEN <<v.root>>
                                           ELSE [j \in 1 .. Children(h, f[l + 1]) |-> Child(h, f[l + 1], j)]]
    BY <1>3
  <2> QED BY <2>1, Zenon DEF Levels
<1> HIDE DEF p
<1>5. p[v.shift] = A[v.shift]
  <2>1. p[v.shift] = <<v.root>>
    BY <1>1, <1>4
  <2> QED BY <2>1, GoodRows
<1>6. ASSUME NEW l \in 0 .. v.shift - 1, p[l + 1] = A[l + 1] PROVE p[l] = A[l]
  <2>1. l \in 0 .. v.shift /\ l # v.shift
    BY <1>1
  <2>2. p[l] = [j \in 1 .. Children(h, p[l + 1]) |-> Child(h, p[l + 1], j)]
    BY <1>4, <2>1
  <2>3. A[l] = [j \in 1 .. Children(h, A[l + 1]) |-> Child(h, A[l + 1], j)]
    BY <1>3, <2>1
  <2> QED BY <1>6, <2>2, <2>3
<1>7. \A l \in 0 .. v.shift : p[l] = A[l]
  BY <1>1, <1>5, <1>6, Downwards
<1> QED BY <1>7 DEF p

\* The node of a row on the way to index i.
Slot(i, l) == (i \div Power[l + 1]) + 1

\* The digits of an index, from the lowest.
LEMMA Digits ==
  ASSUME NEW i \in Nat, NEW l \in Nat
  PROVE  /\ i \div Power[l] \in Nat /\ Slot(i, l) = ((i \div Power[l]) \div Width) + 1
         /\ i \div Power[0] = i /\ (l >= 1 => i \div Power[l] = Slot(i, l - 1) - 1 /\ Slot(i, l - 1) \in Nat)
<1>1. Power[l] \in Nat \ {0} /\ Power[l + 1] = Width * Power[l] /\ Width \in Nat \ {0} /\ Power[0] = 1
  <2>1. Width \in Nat \ {0}
    BY VectorAssumption
  <2>2. l \in Nat
    OBVIOUS
  <2> QED BY <2>1, <2>2, PowerDef
<1>2. i \div Power[l] \in Nat
  BY <1>1, DivMod
<1>3. Slot(i, l) = ((i \div Power[l]) \div Width) + 1
  BY <1>1, DivDiv DEF Slot
<1>4. i \div Power[0] = i
  BY <1>1, Z3
<1>5. ASSUME l >= 1 PROVE i \div Power[l] = Slot(i, l - 1) - 1 /\ Slot(i, l - 1) \in Nat
  <2>1. (l - 1) + 1 = l
    BY <1>5
  <2>2. Slot(i, l - 1) = (i \div Power[l]) + 1
    BY <2>1 DEF Slot
  <2> QED BY <1>2, <2>2
<1> QED BY <1>2, <1>3, <1>4, <1>5

\* The step from a row to the one above: where the node number j of a row is.
LEMMA Upwards ==
  ASSUME NEW h, NEW v, NEW A, NEW E, Good(h, v, A, E), NEW i \in Nat,
         NEW l \in 1 .. v.shift, Slot(i, l - 1) \in 1 .. Len(A[l - 1])
  PROVE  /\ Slot(i, l) \in 1 .. Len(A[l]) /\ Digit(i, l) \in 1 .. Len(h[A[l][Slot(i, l)]])
         /\ Pos(Slot(i, l), Digit(i, l)) = Slot(i, l - 1)
         /\ A[l - 1][Slot(i, l - 1)] = h[A[l][Slot(i, l)]][Digit(i, l)]
<1> DEFINE s == A[l]  t == A[l - 1]  j == Slot(i, l - 1)
<1>1. Filled(h, s) /\ Rows(h, s, t) /\ Heap(h) /\ l \in Nat /\ l >= 1
  BY GoodRows DEF Good, Upright
<1>2. j \in Nat /\ i \div Power[l] = j - 1 /\ Slot(i, l) = ((j - 1) \div Width) + 1
  BY <1>1, Digits
<1>3. Digit(i, l) = ((j - 1) % Width) + 1
  BY <1>2 DEF Digit
<1>4. j \in 1 .. Len(t)
  OBVIOUS
<1> HIDE DEF s, t, j
<1>5. /\ ((j - 1) \div Width) + 1 \in 1 .. Len(s)
      /\ ((j - 1) % Width) + 1 \in 1 .. Len(h[s[((j - 1) \div Width) + 1]])
      /\ j = Pos(((j - 1) \div Width) + 1, ((j - 1) % Width) + 1)
      /\ t[j] = Child(h, s, j)
  BY <1>1, <1>4, RowsChild
<1>6. t[j] = h[s[Slot(i, l)]][Digit(i, l)]
  BY <1>2, <1>3, <1>5 DEF Child
<1> QED BY <1>2, <1>3, <1>5, <1>6 DEF s, t, j

\* The row of leaves and the tail: which of them has index i.
LEMMA LeafGood ==
  ASSUME NEW h, NEW v, NEW A, NEW E, Good(h, v, A, E), NEW i \in 0 .. v.cnt - 1
  PROVE  /\ IF i >= tailoff(h, v) THEN Slot(i, 0) = Len(A[0]) + 1 ELSE Slot(i, 0) \in 1 .. Len(A[0])
         /\ Slot(i, 0) \in 1 .. Len(Append(A[0], v.tail))
         /\ Digit(i, 0) \in 1 .. Len(h[Append(A[0], v.tail)[Slot(i, 0)]])
         /\ Pos(Slot(i, 0), Digit(i, 0)) = i + 1 /\ i + 1 \in 1 .. Len(E)
         /\ E[i + 1] = h[Append(A[0], v.tail)[Slot(i, 0)]][Digit(i, 0)]
<1> DEFINE s == Append(A[0], v.tail)  n == Len(A[0])  j == i + 1
<1>1. /\ Filled(h, s) /\ Rows(h, s, E) /\ Heap(h) /\ i \in Nat /\ j \in 1 .. Len(E) /\ j - 1 = i
      /\ n \in Nat /\ Len(s) = n + 1 /\ s[n + 1] = v.tail /\ v.cnt = Len(E)
      /\ Len(h[v.tail]) \in 0 .. Width /\ Width \in Nat /\ Len(E) \in Nat
  <2>1. /\ Heap(h) /\ Len(E) \in Nat /\ v.cnt = Len(E) /\ n \in Nat /\ Len(s) = n + 1 /\ s[n + 1] = v.tail
        /\ Len(h[v.tail]) \in 0 .. Width
    BY GoodRows
  <2>2. i \in Nat /\ j \in 1 .. Len(E) /\ j - 1 = i
    BY <2>1
  <2> QED BY <2>1, <2>2, VectorAssumption DEF Good, Upright
<1>2. i \div Power[0] = i /\ Slot(i, 0) = (i \div Width) + 1 /\ Digit(i, 0) = (i % Width) + 1
  <2>1. i \in Nat /\ 0 \in Nat
    BY <1>1
  <2>2. i \div Power[0] = i /\ Slot(i, 0) = ((i \div Power[0]) \div Width) + 1
    BY <2>1, Digits
  <2> QED BY <2>2 DEF Digit
<1>3. /\ Slot(i, 0) \in 1 .. Len(s) /\ Digit(i, 0) \in 1 .. Len(h[s[Slot(i, 0)]])
      /\ Pos(Slot(i, 0), Digit(i, 0)) = j /\ E[j] = h[s[Slot(i, 0)]][Digit(i, 0)]
  <2> HIDE DEF s, n, j
  <2>1. /\ ((j - 1) \div Width) + 1 \in 1 .. Len(s)
        /\ ((j - 1) % Width) + 1 \in 1 .. Len(h[s[((j - 1) \div Width) + 1]])
        /\ j = Pos(((j - 1) \div Width) + 1, ((j - 1) % Width) + 1)
        /\ E[j] = Child(h, s, j)
    <3>1. E \in Seq(Data)
      BY DEF Good, Upright
    <3>2. Filled(h, s) /\ Rows(h, s, E) /\ Heap(h) /\ j \in 1 .. Len(E)
      BY <1>1
    <3> QED BY <3>1, <3>2, RowsChild
  <2> QED BY <1>1, <1>2, <2>1 DEF Child
<1>4. tailoff(h, v) = Pos(n + 1, 0) /\ Pos(n + 1, 0) \in Nat
  <2> DEFINE z == Len(h[v.tail])
  <2>1. Len(E) = Pos(n + 1, z) /\ z \in Nat /\ n + 1 \in Nat \ {0}
    BY <1>1 DEF Rows
  <2> HIDE DEF n, z
  <2>2. Pos(n + 1, z) = Pos(n + 1, 0) + z /\ Pos(n + 1, 0) \in Nat
    BY <2>1, PosFacts
  <2>3. tailoff(h, v) = Len(E) - z
    BY <1>1 DEF tailoff, z
  <2> QED BY <2>1, <2>2, <2>3
<1>5. Digit(i, 0) \in 1 .. Width
  <2>1. i % Width \in 0 .. Width - 1
    <3>1. i \in Nat /\ Width \in Nat \ {0}
      BY <1>1, VectorAssumption
    <3> QED BY <3>1, DivMod
  <2> QED BY <1>1, <1>2, <2>1
<1> HIDE DEF n, s
<1>6. CASE Slot(i, 0) = n + 1
  <2>1. Pos(n + 1, Digit(i, 0)) = j
    BY <1>3, <1>6
  <2>2. Pos(n + 1, Digit(i, 0)) = Pos(n + 1, 0) + Digit(i, 0)
    <3>1. n + 1 \in Nat \ {0} /\ Digit(i, 0) \in Nat
      BY <1>1, <1>5
    <3> QED BY <3>1, PosFacts
  <2>3. i >= tailoff(h, v)
    BY <1>1, <1>4, <1>5, <2>1, <2>2
  <2> QED BY <1>1, <1>3, <1>6, <2>3 DEF s, n
<1>7. CASE Slot(i, 0) # n + 1
  <2>1. Slot(i, 0) \in Nat \ {0} /\ Slot(i, 0) < n + 1 /\ Slot(i, 0) \in 1 .. n
    BY <1>1, <1>3, <1>7
  <2>2. Digit(i, 0) \in 0 .. Width /\ n + 1 \in Nat \ {0}
    BY <1>1, <1>5
  <2>3. j <= Pos(n + 1, 0)
    BY <1>3, <2>1, <2>2, PosOrder
  <2>4. ~(i >= tailoff(h, v))
    BY <1>1, <1>4, <2>3
  <2> QED BY <1>3, <2>1, <2>4, <1>1 DEF s, n
<1> QED BY <1>6, <1>7

\* A walk by the digits of an index goes along the rows.
LEMMA WayGood ==
  ASSUME NEW h, NEW v, NEW A, NEW E, Good(h, v, A, E), NEW i \in 0 .. v.cnt - 1, i < tailoff(h, v)
  PROVE  \A l \in 0 .. v.shift : /\ Slot(i, l) \in 1 .. Len(A[l])
                                 /\ Path(h, v, i)[l] = A[l][Slot(i, l)]
<1>1. /\ v.shift \in Nat /\ v.shift >= 1 /\ v.shift \in 0 .. v.shift /\ i \in Nat
      /\ Slot(i, 0) \in 1 .. Len(A[0])
  <2>1. v.shift \in Nat /\ v.shift >= 1 /\ v.cnt \in Nat
    BY GoodRows
  <2>2. ~(i >= tailoff(h, v))
    <3>1. v.cnt \in Nat /\ Len(h[v.tail]) \in Nat
      BY GoodRows
    <3> QED BY <3>1 DEF tailoff
  <2>3. Slot(i, 0) \in 1 .. Len(A[0])
    BY <2>2, LeafGood
  <2> QED BY <2>1, <2>3
<1> DEFINE S == {l \in Nat : l <= v.shift => Slot(i, l) \in 1 .. Len(A[l])}
<1>2. 0 \in S
  BY <1>1
<1>3. ASSUME NEW n \in Nat, n \in S PROVE n + 1 \in S
  <2>1. CASE n + 1 <= v.shift
    <3>1. PICK l \in 1 .. v.shift : l = n + 1 /\ l - 1 = n
      BY <1>1, <2>1
    <3>2. Slot(i, l - 1) \in 1 .. Len(A[l - 1])
      BY <1>1, <1>3, <3>1
    <3>3. Slot(i, l) \in 1 .. Len(A[l])
      BY <1>1, <3>2, Upwards
    <3> QED BY <3>1, <3>3
  <2>2. CASE ~(n + 1 <= v.shift)
    BY <2>2
  <2> QED BY <2>1, <2>2
<1>4. Nat \subseteq S
  <2> HIDE DEF S
  <2> QED BY <1>2, <1>3, Induction
<1>5. \A l \in 0 .. v.shift : Slot(i, l) \in 1 .. Len(A[l])
  BY <1>1, <1>4
<1> HIDE DEF S
<1> DEFINE g == [l \in 0 .. v.shift |-> A[l][Slot(i, l)]]
           p == Path(h, v, i)
<1>6. g[v.shift] = v.root
  <2>1. A[v.shift] = <<v.root>>
    BY GoodRows
  <2>2. Slot(i, v.shift) = 1
    <3>1. Slot(i, v.shift) \in 1 .. Len(A[v.shift])
      BY <1>1, <1>5
    <3> QED BY <2>1, <3>1
  <2> QED BY <1>1, <2>1, <2>2
<1>7. g = [l \in 0 .. v.shift |-> IF l = v.shift THEN v.root ELSE h[g[l + 1]][Digit(i, l + 1)]]
  <2>1. ASSUME NEW l \in 0 .. v.shift
        PROVE  g[l] = IF l = v.shift THEN v.root ELSE h[g[l + 1]][Digit(i, l + 1)]
    <3>1. CASE l = v.shift
      BY <1>6, <3>1
    <3>2. CASE l # v.shift
      <4>1. PICK k \in 1 .. v.shift : k = l + 1 /\ k - 1 = l /\ k \in 0 .. v.shift
        BY <1>1, <3>2
      <4>2. Slot(i, k - 1) \in 1 .. Len(A[k - 1])
        BY <1>5, <4>1
      <4>3. A[k - 1][Slot(i, k - 1)] = h[A[k][Slot(i, k)]][Digit(i, k)]
        BY <1>1, <4>2, Upwards
      <4>4. g[l] = A[k - 1][Slot(i, k - 1)] /\ g[k] = A[k][Slot(i, k)]
        BY <4>1
      <4> HIDE DEF g
      <4> QED BY <3>2, <4>1, <4>3, <4>4
    <3> QED BY <3>1, <3>2
  <2>2. g = [l \in 0 .. v.shift |-> g[l]]
    OBVIOUS
  <2> HIDE DEF g
  <2> QED BY <2>1, <2>2
<1>8. p = [l \in 0 .. v.shift |-> IF l = v.shift THEN v.root ELSE h[p[l + 1]][Digit(i, l + 1)]]
  <2>1. \E f : f = [l \in 0 .. v.shift |-> IF l = v.shift THEN v.root ELSE h[f[l + 1]][Digit(i, l + 1)]]
    <3> HIDE DEF g
    <3> QED BY <1>7
  <2> QED BY <2>1, Zenon DEF Path
<1> HIDE DEF p, g
<1>9. p[v.shift] = g[v.shift]
  BY <1>1, <1>6, <1>8
<1>10. ASSUME NEW l \in 0 .. v.shift - 1, p[l + 1] = g[l + 1] PROVE p[l] = g[l]
  <2>1. l \in 0 .. v.shift /\ l # v.shift
    BY <1>1
  <2>2. p[l] = h[p[l + 1]][Digit(i, l + 1)]
    BY <1>8, <2>1
  <2>3. g[l] = h[g[l + 1]][Digit(i, l + 1)]
    BY <1>7, <2>1
  <2> QED BY <1>10, <2>2, <2>3
<1>11. \A l \in 0 .. v.shift : p[l] = g[l]
  <2> DEFINE n == v.shift
  <2>1. n \in Nat /\ p[n] = g[n] /\ \A l \in 0 .. n - 1 : p[l + 1] = g[l + 1] => p[l] = g[l]
    BY <1>1, <1>9, <1>10
  <2> HIDE DEF n
  <2>2. \A l \in 0 .. n : p[l] = g[l]
    BY ONLY <2>1, Downwards
  <2> QED BY <2>2 DEF n
<1> QED BY <1>5, <1>11 DEF p, g

\* Reading by index gives the elements.
LEMMA ReadGood ==
  ASSUME NEW h, NEW v, NEW A, NEW E, Good(h, v, A, E), NEW i \in 0 .. v.cnt - 1
  PROVE  At(h, v, i) = E[i + 1]
<1> DEFINE s == Append(A[0], v.tail)
<1>1. E[i + 1] = h[s[Slot(i, 0)]][Digit(i, 0)]
  BY LeafGood
<1>2. CASE i >= tailoff(h, v)
  <2>1. Slot(i, 0) = Len(A[0]) + 1
    BY <1>2, LeafGood
  <2>2. s[Slot(i, 0)] = v.tail
    BY <2>1, GoodRows
  <2> HIDE DEF s
  <2> QED BY <1>1, <1>2, <2>2 DEF At
<1>3. CASE ~(i >= tailoff(h, v))
  <2>1. i < tailoff(h, v)
    <3>1. v.cnt \in Nat /\ Len(h[v.tail]) \in Nat
      BY GoodRows
    <3> QED BY <1>3, <3>1 DEF tailoff
  <2>2. 0 \in 0 .. v.shift
    BY GoodRows
  <2>3. Slot(i, 0) \in 1 .. Len(A[0]) /\ Path(h, v, i)[0] = A[0][Slot(i, 0)]
    BY <2>1, <2>2, WayGood
  <2>4. s[Slot(i, 0)] = A[0][Slot(i, 0)]
    BY <2>3, GoodRows
  <2> HIDE DEF s
  <2> QED BY <1>1, <1>3, <2>3, <2>4 DEF At
<1> QED BY <1>2, <1>3

-----------------------------------------------------------------------------
(* What the operations make *)

\* The heap h with the nodes of made behind it.
LEMMA MadeFacts ==
  ASSUME NEW h, Heap(h), NEW made \in Seq(Seq(Data))
  PROVE  /\ Extends(h, h \o made) /\ Len(h) \in Nat /\ Len(made) \in Nat
         /\ Len(h \o made) = Len(h) + Len(made)
         /\ \A l \in 1 .. Len(made) : Len(h) + l \in 1 .. Len(h \o made) /\ (h \o made)[Len(h) + l] = made[l]
<1> DEFINE g == h \o made
<1>1. h \in Seq(Seq(Data))
  BY DEF Heap
<1>2. /\ g \in Seq(Seq(Data)) /\ Len(g) = Len(h) + Len(made) /\ Len(h) \in Nat /\ Len(made) \in Nat
      /\ \A a \in 1 .. Len(h) : g[a] = h[a]
      /\ \A l \in 1 .. Len(made) : g[Len(h) + l] = made[l]
  BY <1>1, ConcatFacts
<1> HIDE DEF g
<1>3. Extends(h, g)
  BY <1>1, <1>2 DEF Extends, Heap
<1>4. \A l \in 1 .. Len(made) : Len(h) + l \in 1 .. Len(g)
  BY <1>2
<1> QED BY <1>2, <1>3, <1>4 DEF g

LEMMA NewFacts ==
  ASSUME NEW h, Heap(h), NEW d \in Seq(Data)
  PROVE  /\ Extends(h, New(h, d).h) /\ New(h, d).n = Len(h) + 1 /\ Len(h) \in Nat
         /\ Len(New(h, d).h) = Len(h) + 1 /\ Len(h) + 1 \in 1 .. Len(New(h, d).h)
         /\ New(h, d).h[Len(h) + 1] = d
<1> DEFINE g == Append(h, d)
<1>1. h \in Seq(Seq(Data))
  BY DEF Heap
<1>2. /\ g \in Seq(Seq(Data)) /\ Len(g) = Len(h) + 1 /\ Len(h) \in Nat
      /\ \A a \in 1 .. Len(h) : g[a] = h[a]
      /\ g[Len(h) + 1] = d
  BY <1>1, AppendFacts
<1>3. New(h, d).h = g /\ New(h, d).n = Len(h) + 1
  BY DEF New
<1> HIDE DEF g
<1>4. Extends(h, g)
  BY <1>1, <1>2 DEF Extends, Heap
<1>5. Len(h) + 1 \in 1 .. Len(g)
  BY <1>2
<1> QED BY <1>2, <1>3, <1>4, <1>5

LEMMA ExtendsTwice ==
  ASSUME NEW f, NEW g, NEW h, Extends(f, g), Extends(g, h)
  PROVE  Extends(f, h)
<1>1. Len(f) \in Nat /\ Len(g) \in Nat /\ Len(h) \in Nat
  BY DEF Extends, Heap
<1>2. \A a \in 1 .. Len(f) : a \in 1 .. Len(g)
  BY <1>1 DEF Extends
<1> QED BY <1>1, <1>2 DEF Extends

\* vector_create_empty() makes a vector without elements.
LEMMA EmptyGood ==
  ASSUME NEW h, Heap(h)
  PROVE  Extends(h, Empty(h).h) /\ \E B : Good(Empty(h).h, Empty(h).v, B, <<>>)
<1> DEFINE made == <<<<>>, <<>>>>
           g == h \o made
           v == [cnt |-> 0, shift |-> 1, root |-> Len(h) + 1, tail |-> Len(h) + 2]
           B == [l \in 0 .. 1 |-> IF l = 1 THEN <<Len(h) + 1>> ELSE <<>>]
<1>1. <<>> \in Seq(Data) /\ made \in Seq(Seq(Data)) /\ Len(made) = 2 /\ made[1] = <<>> /\ made[2] = <<>>
  OBVIOUS
<1>2. Empty(h).h = g /\ Empty(h).v = v
  BY DEF Empty
<1> HIDE DEF made
<1>3. /\ Extends(h, g) /\ Len(h) \in Nat /\ Len(g) = Len(h) + 2
      /\ \A l \in 1 .. 2 : Len(h) + l \in 1 .. Len(g) /\ g[Len(h) + l] = made[l]
  BY <1>1, MadeFacts
<1> HIDE DEF g
<1>4. g[Len(h) + 1] = <<>> /\ g[Len(h) + 2] = <<>> /\ Len(h) + 1 \in 1 .. Len(g) /\ Len(h) + 2 \in 1 .. Len(g)
  BY <1>1, <1>3
<1>5. ASSUME NEW n \in 1 .. Len(g), g[n] = <<>>
      PROVE  <<n>> \in Seq(1 .. Len(g)) /\ Filled(g, <<n>>) /\ \A t : t = <<>> => Rows(g, <<n>>, t)
  <2> DEFINE s == <<n>>
  <2>1. s \in Seq(1 .. Len(g)) /\ Len(s) = 1 /\ s[1] = n /\ s # <<>>
    OBVIOUS
  <2> HIDE DEF s
  <2>2. Len(g[n]) = 0 /\ 0 <= Width
    BY <1>5, VectorAssumption
  <2>3. Filled(g, s)
    BY <2>1, <2>2 DEF Filled
  <2>4. Pos(1, 0) = 0
    BY PosFacts
  <2>5. ASSUME NEW t, t = <<>> PROVE Rows(g, s, t)
    <3>1. Len(t) = 0
      BY <2>5
    <3>2. \A b \in 1 .. Len(s) : \A d \in 1 .. Len(g[s[b]]) : FALSE
      BY <2>1, <2>2
    <3> QED BY <2>1, <2>2, <2>4, <3>1, <3>2 DEF Rows
  <2> QED BY <2>1, <2>3, <2>5 DEF s
<1>6. B[0] = <<>> /\ B[1] = <<Len(h) + 1>>
  OBVIOUS
<1>7. B \in [0 .. 1 -> Seq(1 .. Len(g))]
  <2>1. <<Len(h) + 1>> \in Seq(1 .. Len(g)) /\ <<>> \in Seq(1 .. Len(g))
    BY <1>4, <1>5
  <2> QED BY <2>1
<1>8. Append(<<>>, Len(h) + 2) = <<Len(h) + 2>>
  OBVIOUS
<1> HIDE DEF B
<1>9. Filled(g, B[1]) /\ Rows(g, B[1], B[0])
  BY <1>4, <1>5, <1>6
<1>10. Filled(g, Append(B[0], v.tail)) /\ Rows(g, Append(B[0], v.tail), <<>>)
  BY <1>4, <1>5, <1>6, <1>8
<1>11. v \in [cnt : Nat, shift : Nat, root : Nat, tail : Nat] /\ Heap(g) /\ Len(<<>>) = 0
  BY <1>3 DEF Extends
<1>12. \A l \in 1 .. v.shift : Filled(g, B[l]) /\ Rows(g, B[l], B[l - 1])
  BY <1>9
<1>13. Good(g, v, B, <<>>)
  BY <1>1, <1>6, <1>7, <1>10, <1>11, <1>12 DEF Good, Upright
<1> QED BY <1>2, <1>3, <1>13

\* A vector with another tail.
LEMMA TailGood ==
  ASSUME NEW h, NEW v, NEW A, NEW E, Good(h, v, A, E), NEW g, Extends(h, g),
         NEW F \in Seq(Data), NEW n \in 1 .. Len(g), F # <<>> => g[n] # <<>>,
         Filled(g, Append(A[0], n)), Rows(g, Append(A[0], n), F)
  PROVE  Good(g, [v EXCEPT !.cnt = Len(F), !.tail = n], A, F)
<1> DEFINE w == [v EXCEPT !.cnt = Len(F), !.tail = n]
<1>1. Good(g, v, A, E)
  BY GoodStays
<1>2. Heap(g) /\ n \in Nat
  BY DEF Extends
<1>3. v \in [cnt : Nat, shift : Nat, root : Nat, tail : Nat]
  BY DEF Good, Upright
<1>4. /\ w \in [cnt : Nat, shift : Nat, root : Nat, tail : Nat]
      /\ w.shift = v.shift /\ w.root = v.root /\ w.tail = n /\ w.cnt = Len(F)
  <2> DEFINE c == Len(F)
  <2>1. c \in Nat
    OBVIOUS
  <2> HIDE DEF c
  <2>2. [v EXCEPT !.cnt = c, !.tail = n] \in [cnt : Nat, shift : Nat, root : Nat, tail : Nat]
    BY <1>2, <1>3, <2>1
  <2>3. /\ [v EXCEPT !.cnt = c, !.tail = n].shift = v.shift /\ [v EXCEPT !.cnt = c, !.tail = n].root = v.root
        /\ [v EXCEPT !.cnt = c, !.tail = n].tail = n /\ [v EXCEPT !.cnt = c, !.tail = n].cnt = c
    BY <1>3
  <2> QED BY <2>2, <2>3 DEF c
<1> HIDE DEF w
<1>5. /\ v.shift >= 1
      /\ A \in [0 .. v.shift -> Seq(1 .. Len(g))] /\ A[v.shift] = <<v.root>>
      /\ \A l \in 1 .. v.shift : Filled(g, A[l]) /\ Rows(g, A[l], A[l - 1])
      /\ \/ A[0] = <<>> /\ v.shift = 1
         \/ A[0] # <<>> /\ \A l \in 1 .. v.shift : g[A[l][Len(A[l])]] # <<>>
      /\ v.shift > 1 => Len(g[v.root]) > 1
  BY <1>1 DEF Good, Upright
<1>6. Good(g, w, A, F)
  BY <1>2, <1>4, <1>5 DEF Good, Upright
<1> QED BY <1>6 DEF w

\* vector_set() makes a vector with one element changed.
LEMMA StoreGood ==
  ASSUME NEW h, NEW v, NEW A, NEW E, Good(h, v, A, E), NEW i \in 0 .. v.cnt - 1, NEW x \in Data
  PROVE  /\ Extends(h, Store(h, v, i, x).h)
         /\ \E B : Good(Store(h, v, i, x).h, Store(h, v, i, x).v, B, [E EXCEPT ![i + 1] = x])
<1> DEFINE s == Append(A[0], v.tail)  b == Slot(i, 0)  d == Digit(i, 0)
           F == [E EXCEPT ![i + 1] = x]
<1>1. /\ Heap(h) /\ Len(h) \in Nat /\ Filled(h, s) /\ Rows(h, s, E) /\ E \in Seq(Data)
      /\ v.shift \in Nat /\ v.shift >= 1 /\ s \in Seq(1 .. Len(h))
      /\ Len(A[0]) \in Nat /\ Len(s) = Len(A[0]) + 1 /\ s[Len(A[0]) + 1] = v.tail
      /\ 0 \in 0 .. v.shift /\ v.shift \in 0 .. v.shift
  <2>1. /\ Heap(h) /\ Len(h) \in Nat /\ v.shift \in Nat /\ v.shift >= 1 /\ s \in Seq(1 .. Len(h))
        /\ Len(s) = Len(A[0]) + 1 /\ s[Len(A[0]) + 1] = v.tail
        /\ 0 \in 0 .. v.shift /\ v.shift \in 0 .. v.shift
    BY GoodRows
  <2>2. Len(A[0]) \in Nat
    BY <2>1, GoodRows
  <2> QED BY <2>1, <2>2 DEF Good, Upright
<1>2. /\ b \in 1 .. Len(s) /\ d \in 1 .. Len(h[s[b]]) /\ Pos(b, d) = i + 1 /\ i + 1 \in 1 .. Len(E)
  BY LeafGood
<1>3. \A c \in 1 .. Len(s) : s[c] \in 1 .. Len(h) /\ h[s[c]] \in Seq(Data) /\ Len(h[s[c]]) \in Nat
  BY <1>1, Node
<1>4. F \in Seq(Data) /\ Len(F) = Len(E) /\ Len(E) >= 1 /\ F # <<>> /\ E # <<>>
  <2>1. F \in Seq(Data) /\ Len(F) = Len(E)
    BY <1>1, <1>2, ExceptFacts
  <2> HIDE DEF F
  <2> QED BY <1>1, <1>2, <2>1
<1> HIDE DEF F
<1>5. CASE i >= tailoff(h, v)
  <2> DEFINE r == [h[v.tail] EXCEPT ![d] = x]
             g == New(h, r).h
             n == New(h, r).n
  <2>1. b = Len(A[0]) + 1 /\ s[b] = v.tail
    BY <1>1, <1>5, LeafGood
  <2>2. r \in Seq(Data) /\ Copy(r, h[s[b]], d, x)
    <3>1. h[v.tail] \in Seq(Data) /\ d \in 1 .. Len(h[v.tail])
      BY <1>2, <1>3, <2>1
    <3> HIDE DEF d, b, s
    <3> QED BY <2>1, <3>1, CopyFacts
  <2> HIDE DEF r
  <2>3. Extends(h, g) /\ n \in 1 .. Len(g) /\ g[n] = r
    BY <1>1, <2>2, NewFacts
  <2> HIDE DEF g, n
  <2>4. Filled(g, [s EXCEPT ![b] = n]) /\ Rows(g, [s EXCEPT ![b] = n], [E EXCEPT ![Pos(b, d)] = x])
    <3>1. Copy(g[n], h[s[b]], d, x)
      BY <2>2, <2>3
    <3> HIDE DEF s, b, d
    <3>2. /\ Extends(h, g) /\ Filled(h, s) /\ E \in Seq(Data) /\ Rows(h, s, E)
          /\ b \in 1 .. Len(s) /\ d \in 1 .. Len(h[s[b]]) /\ x \in Data /\ n \in 1 .. Len(g)
      BY <1>1, <1>2, <2>3
    <3> QED BY <3>1, <3>2, RowsSet
  <2>5. [s EXCEPT ![b] = n] = Append(A[0], n)
    <3>1. A[0] \in Seq(1 .. Len(h))
      BY <1>1, GoodRows
    <3>2. n \in 1 .. Len(g) /\ v.tail \in 1 .. Len(h)
      BY <2>3, GoodRows
    <3>3. A[0] \in Seq(Nat) /\ n \in Nat /\ v.tail \in Nat
      BY <3>1, <3>2
    <3>4. [Append(A[0], v.tail) EXCEPT ![Len(A[0]) + 1] = n] = Append(A[0], n)
      <4> DEFINE q == A[0]  y == v.tail
      <4>1. q \in Seq(Nat) /\ n \in Nat /\ y \in Nat
        BY <3>3
      <4> HIDE DEF q, y
      <4>2. [Append(q, y) EXCEPT ![Len(q) + 1] = n] = Append(q, n)
        BY <4>1, AppendSet
      <4> QED BY <4>2 DEF q, y
    <3> QED BY <2>1, <3>4
  <2>6. [E EXCEPT ![Pos(b, d)] = x] = F
    BY <1>2 DEF F
  <2>7. g[n] # <<>>
    <3>1. Len(h[s[b]]) >= 1
      BY <1>2, <1>3
    <3>2. Len(g[n]) = Len(h[s[b]])
      BY <2>2, <2>3 DEF Copy
    <3> HIDE DEF s, b
    <3>3. g[n] = <<>> => Len(g[n]) = 0
      OBVIOUS
    <3> QED BY <3>1, <3>2, <3>3
  <2>8. Good(g, [v EXCEPT !.cnt = Len(F), !.tail = n], A, F)
    BY <1>4, <2>3, <2>4, <2>5, <2>6, <2>7, TailGood
  <2>9. Store(h, v, i, x) = [h |-> g, v |-> [v EXCEPT !.tail = n]]
    BY <1>5 DEF Store, CloneWith, g, n, r
  <2>10. [v EXCEPT !.cnt = Len(F), !.tail = n] = [v EXCEPT !.tail = n]
    <3>1. v \in [cnt : Nat, shift : Nat, root : Nat, tail : Nat] /\ v.cnt = Len(F)
      BY <1>4 DEF Good, Upright
    <3> QED BY <3>1
  <2> QED BY <2>3, <2>8, <2>9, <2>10 DEF F
<1>6. CASE ~(i >= tailoff(h, v))
  <2> DEFINE made == Insert(h, v, i, x)
             g == h \o made
             a == [l \in 0 .. v.shift |-> Len(h) + (v.shift + 1 - l)]
             B == [l \in 0 .. v.shift |-> [A[l] EXCEPT ![Slot(i, l)] = a[l]]]
             r(l) == [h[A[l][Slot(i, l)]] EXCEPT ![Digit(i, l)] = IF l = 0 THEN x ELSE a[l - 1]]
  <2>1. \A l \in 0 .. v.shift : Slot(i, l) \in 1 .. Len(A[l]) /\ Path(h, v, i)[l] = A[l][Slot(i, l)]
    <3>1. i < tailoff(h, v)
      <4>1. v.cnt \in Nat /\ Len(h[v.tail]) \in Nat
        BY GoodRows
      <4> QED BY <1>6, <4>1 DEF tailoff
    <3> QED BY <3>1, WayGood
  <2> DEFINE y(l) == IF l = 0 THEN x ELSE a[l - 1]
  <2>2. \A l \in 0 .. v.shift : /\ a[l] = Len(h) + (v.shift + 1 - l) /\ a[l] \in Nat
                                /\ v.shift + 1 - l \in 1 .. v.shift + 1
    <3> TAKE l \in 0 .. v.shift
    <3>1. v.shift \in Nat /\ Len(h) \in Nat /\ l \in Nat /\ l <= v.shift
      BY <1>1
    <3>2. a[l] = Len(h) + (v.shift + 1 - l)
      OBVIOUS
    <3>3. v.shift + 1 - l \in 1 .. v.shift + 1 /\ Len(h) + (v.shift + 1 - l) \in Nat
      <4> HIDE DEF a
      <4> QED BY <3>1
    <3> QED BY <3>2, <3>3
  <2>3. \A l \in 0 .. v.shift : /\ l # 0 => l \in 1 .. v.shift /\ l - 1 \in 0 .. v.shift
                                /\ l # 0 => a[l - 1] = Len(h) + (v.shift + 1 - l) + 1
    <3> TAKE l \in 0 .. v.shift
    <3>1. l # 0 => l \in 1 .. v.shift /\ l - 1 \in 0 .. v.shift
      BY <1>1
    <3>2. l # 0 => a[l - 1] = Len(h) + (v.shift + 1 - (l - 1))
      BY <2>2, <3>1
    <3>3. Len(h) + (v.shift + 1 - (l - 1)) = Len(h) + (v.shift + 1 - l) + 1
      <4>1. v.shift \in Nat /\ Len(h) \in Nat /\ l \in Nat
        BY <1>1
      <4> QED BY <4>1
    <3> HIDE DEF a
    <3> QED BY <3>1, <3>2, <3>3
  <2> HIDE DEF a
  <2>4. ASSUME NEW l \in 0 .. v.shift
        PROVE  /\ A[l] \in Seq(1 .. Len(h)) /\ A[l][Slot(i, l)] \in 1 .. Len(h)
               /\ h[A[l][Slot(i, l)]] \in Seq(Data)
               /\ Digit(i, l) \in 1 .. Len(h[A[l][Slot(i, l)]])
               /\ y(l) \in Data
               /\ r(l) \in Seq(Data) /\ Copy(r(l), h[A[l][Slot(i, l)]], Digit(i, l), y(l))
    <3>1. A[l] \in Seq(1 .. Len(h)) /\ A[l][Slot(i, l)] \in 1 .. Len(h)
      <4>1. \A m \in 0 .. v.shift : A[m] \in Seq(1 .. Len(h)) /\ Len(A[m]) \in Nat
        BY GoodRows
      <4>2. A[l] \in Seq(1 .. Len(h)) /\ Slot(i, l) \in 1 .. Len(A[l])
        BY <2>1, <4>1
      <4> QED BY <4>2
    <3>2. h[A[l][Slot(i, l)]] \in Seq(Data)
      BY <1>1, <3>1 DEF Heap
    <3>3. Digit(i, l) \in 1 .. Len(h[A[l][Slot(i, l)]])
      <4>1. CASE l = 0
        <5>1. Slot(i, 0) \in 1 .. Len(A[0])
          BY <1>1, <2>1
        <5>2. s[b] = A[0][b]
          BY <5>1, GoodRows
        <5> QED BY <1>2, <4>1, <5>2
      <4>2. CASE l # 0
        <5>1. l \in 1 .. v.shift /\ l - 1 \in 0 .. v.shift /\ i \in Nat
          BY <2>3, <4>2
        <5>2. Slot(i, l - 1) \in 1 .. Len(A[l - 1])
          BY <2>1, <5>1
        <5> QED BY <5>1, <5>2, Upwards
      <4> QED BY <4>1, <4>2
    <3>4. y(l) \in Data
      BY <2>2, <2>3 DEF Data
    <3> HIDE DEF y
    <3>5. [h[A[l][Slot(i, l)]] EXCEPT ![Digit(i, l)] = y(l)] \in Seq(Data)
      BY <3>2, <3>3, <3>4, CopyFacts
    <3>6. Copy([h[A[l][Slot(i, l)]] EXCEPT ![Digit(i, l)] = y(l)], h[A[l][Slot(i, l)]], Digit(i, l), y(l))
      BY <3>2, <3>3, <3>4, CopyFacts
    <3> QED BY <3>1, <3>2, <3>3, <3>4, <3>5, <3>6 DEF y
  <2>5. /\ made \in Seq(Seq(Data)) /\ Len(made) = v.shift + 1
        /\ \A l \in 0 .. v.shift : made[v.shift + 1 - l] = r(l)
    <3>1. ASSUME NEW k \in 1 .. v.shift + 1
          PROVE  /\ v.shift + 1 - k \in 0 .. v.shift
                 /\ made[k] = r(v.shift + 1 - k)
      <4>1. PICK l \in 0 .. v.shift : l = v.shift + 1 - k /\ k = v.shift + 1 - l
        BY <1>1
      <4>2. made[k] = [h[Path(h, v, i)[l]] EXCEPT ![Digit(i, l)] = IF l = 0 THEN x ELSE Len(h) + k + 1]
        BY <4>1 DEF Insert
      <4>3. Path(h, v, i)[l] = A[l][Slot(i, l)]
        BY <2>1
      <4>4. l # 0 => a[l - 1] = Len(h) + k + 1
        BY <2>3, <4>1
      <4>5. made[k] = r(l)
        BY <4>2, <4>3, <4>4
      <4> QED BY <4>1, <4>5
    <3>2. made = [k \in 1 .. v.shift + 1 |-> made[k]]
      BY DEF Insert
    <3> HIDE DEF made, r
    <3>3. \A k \in 1 .. v.shift + 1 : made[k] \in Seq(Data)
      BY <2>4, <3>1
    <3>4. v.shift + 1 \in Nat
      BY <1>1
    <3>5. made \in Seq(Seq(Data)) /\ Len(made) = v.shift + 1
      BY <3>2, <3>3, <3>4, SeqFacts
    <3>6. ASSUME NEW l \in 0 .. v.shift PROVE made[v.shift + 1 - l] = r(l)
      <4> DEFINE k == v.shift + 1 - l
      <4>1. k \in 1 .. v.shift + 1 /\ v.shift + 1 - k = l
        <5>1. v.shift \in Nat /\ l \in Nat /\ l <= v.shift
          BY <1>1
        <5> QED BY <5>1
      <4> HIDE DEF k
      <4>2. made[k] = r(l)
        BY <3>1, <4>1
      <4> QED BY <4>2 DEF k
    <3> QED BY <3>5, <3>6
  <2> HIDE DEF made, r
  <2>6. Extends(h, g) /\ \A l \in 0 .. v.shift : a[l] \in 1 .. Len(g) /\ g[a[l]] = r(l)
    <3>1. /\ Extends(h, g)
          /\ \A k \in 1 .. v.shift + 1 : Len(h) + k \in 1 .. Len(g) /\ g[Len(h) + k] = made[k]
      BY <1>1, <2>5, MadeFacts
    <3> HIDE DEF g
    <3> QED BY <2>2, <2>5, <3>1
  <2> HIDE DEF g, y
  <2>7. \A l \in 0 .. v.shift : B[l] = [A[l] EXCEPT ![Slot(i, l)] = a[l]] /\ B[l] \in Seq(1 .. Len(g))
    <3> TAKE l \in 0 .. v.shift
    <3>1. A[l] \in Seq(1 .. Len(g)) /\ Slot(i, l) \in 1 .. Len(A[l]) /\ a[l] \in 1 .. Len(g)
      <4>1. \A c \in 1 .. Len(A[l]) : A[l][c] \in 1 .. Len(g)
        <5>1. Len(h) \in Nat /\ Len(g) \in Nat /\ Len(h) <= Len(g)
          <6>1. Extends(h, g)
            BY <2>6
          <6> QED BY <6>1 DEF Extends, Heap
        <5>2. A[l] \in Seq(1 .. Len(h))
          BY <2>4
        <5> QED BY <5>1, <5>2
      <4>2. A[l] \in Seq(1 .. Len(h))
        BY <2>4
      <4>3. A[l] \in Seq(1 .. Len(g))
        BY <4>1, <4>2, SeqOther
      <4> QED BY <2>1, <2>6, <4>3
    <3>2. [A[l] EXCEPT ![Slot(i, l)] = a[l]] \in Seq(1 .. Len(g))
      BY <3>1, ExceptFacts
    <3> QED BY <3>2
  <2>8. B \in [0 .. v.shift -> Seq(1 .. Len(g))]
    BY <2>7
  <2> HIDE DEF B
  <2>9. ASSUME NEW l \in 1 .. v.shift
        PROVE  /\ Filled(g, B[l]) /\ Rows(g, B[l], B[l - 1]) /\ Len(B[l]) = Len(A[l])
               /\ \A c \in 1 .. Len(A[l]) : Len(g[B[l][c]]) = Len(h[A[l][c]])
    <3> DEFINE t == A[l]  q == A[l - 1]  b1 == Slot(i, l)  d1 == Digit(i, l)  n == a[l]  z == a[l - 1]
    <3>1. /\ l \in 0 .. v.shift /\ l - 1 \in 0 .. v.shift /\ l # 0 /\ i \in Nat
      BY <1>1
    <3>2. Filled(h, t) /\ Rows(h, t, q) /\ q \in Seq(Nat)
      <4>1. Filled(h, t) /\ Rows(h, t, q)
        BY DEF Good, Upright
      <4>2. q \in Seq(1 .. Len(h))
        BY <2>4, <3>1
      <4> QED BY <4>1, <4>2
    <3>3. /\ b1 \in 1 .. Len(t) /\ d1 \in 1 .. Len(h[t[b1]]) /\ Pos(b1, d1) = Slot(i, l - 1)
      <4>1. Slot(i, l - 1) \in 1 .. Len(A[l - 1])
        BY <2>1, <3>1
      <4> QED BY <2>1, <3>1, <4>1, Upwards
    <3>4. n \in 1 .. Len(g) /\ z \in Nat /\ Copy(g[n], h[t[b1]], d1, z)
      <4>1. y(l) = z
        BY <3>1 DEF y
      <4> QED BY <2>2, <2>4, <2>6, <3>1, <4>1
    <3> DEFINE s1 == B[l]  t1 == B[l - 1]
    <3>5. s1 = [t EXCEPT ![b1] = n] /\ t1 = [q EXCEPT ![Pos(b1, d1)] = z]
      BY <2>7, <3>1, <3>3
    <3> HIDE DEF t, q, b1, d1, n, z, s1, t1
    <3>6. Filled(g, s1) /\ Rows(g, s1, t1) /\ AsFull(g, s1, h, t)
      <4>1. Extends(h, g)
        BY <2>6
      <4> QED BY <4>1, <3>2, <3>3, <3>4, <3>5, RowsSet
    <3> QED BY <3>6 DEF t, s1, t1, AsFull
  <2>10. Filled(g, Append(B[0], v.tail)) /\ Rows(g, Append(B[0], v.tail), F)
    <3> DEFINE n == a[0]
    <3>1. n \in 1 .. Len(g) /\ Copy(g[n], h[s[b]], d, x)
      <4>1. s[b] = A[0][Slot(i, 0)]
        BY <1>1, <2>1, GoodRows
      <4>2. y(0) = x
        BY DEF y
      <4> QED BY <1>1, <2>4, <2>6, <4>1, <4>2
    <3>2. /\ Extends(h, g) /\ Filled(h, s) /\ E \in Seq(Data) /\ Rows(h, s, E)
          /\ b \in 1 .. Len(s) /\ d \in 1 .. Len(h[s[b]]) /\ x \in Data
      BY <1>1, <1>2, <2>6
    <3>3. Filled(g, [s EXCEPT ![b] = n]) /\ Rows(g, [s EXCEPT ![b] = n], [E EXCEPT ![Pos(b, d)] = x])
      <4> HIDE DEF n, s, b, d
      <4> QED BY <3>1, <3>2, RowsSet
    <3>4. [s EXCEPT ![b] = n] = Append(B[0], v.tail)
      <4> DEFINE q == A[0]  u == v.tail
      <4>1. q \in Seq(Nat) /\ n \in Nat /\ u \in Nat /\ b \in 1 .. Len(q) /\ B[0] = [q EXCEPT ![b] = n] /\ s = Append(q, u)
        <5>1. q \in Seq(1 .. Len(h)) /\ u \in 1 .. Len(h)
          BY <1>1, GoodRows
        <5>2. q \in Seq(Nat) /\ n \in Nat /\ u \in Nat
          BY <3>1, <5>1
        <5>3. b \in 1 .. Len(q) /\ B[0] = [q EXCEPT ![b] = n]
          BY <1>1, <2>1, <2>7
        <5> QED BY <5>2, <5>3
      <4> HIDE DEF q, u, n, b, s
      <4>2. [Append(q, u) EXCEPT ![b] = n] = Append([q EXCEPT ![b] = n], u)
        BY <4>1, AppendSet
      <4> QED BY <4>1, <4>2 DEF u
    <3> QED BY <1>2, <3>3, <3>4 DEF F
  <2> DEFINE w == [v EXCEPT !.root = Len(h) + 1]
  <2>11. /\ w \in [cnt : Nat, shift : Nat, root : Nat, tail : Nat] /\ w.shift = v.shift /\ w.tail = v.tail
         /\ w.cnt = Len(F) /\ w.root = a[v.shift]
    <3>1. v \in [cnt : Nat, shift : Nat, root : Nat, tail : Nat] /\ v.cnt = Len(E)
      BY DEF Good, Upright
    <3>2. a[v.shift] = Len(h) + 1 /\ Len(h) + 1 \in Nat
      <4>1. v.shift \in Nat /\ Len(h) \in Nat
        BY <1>1
      <4>2. v.shift \in 0 .. v.shift /\ Len(h) + (v.shift + 1 - v.shift) = Len(h) + 1
        BY ONLY <4>1
      <4>3. a[v.shift] = Len(h) + (v.shift + 1 - v.shift)
        BY <2>2, <4>2
      <4> HIDE DEF a
      <4> QED BY <4>1, <4>2, <4>3
    <3>3. w = [cnt |-> v.cnt, shift |-> v.shift, root |-> Len(h) + 1, tail |-> v.tail]
      BY <3>1
    <3>4. Len(F) = Len(E)
      BY <1>4
    <3> HIDE DEF w, F
    <3> QED BY <3>1, <3>2, <3>3, <3>4
  <2>12. B[v.shift] = <<a[v.shift]>> /\ Len(g[a[v.shift]]) = Len(h[v.root]) /\ v.shift \in 1 .. v.shift
    <3>1. A[v.shift] = <<v.root>> /\ Slot(i, v.shift) \in 1 .. Len(A[v.shift]) /\ v.shift \in 1 .. v.shift
      <4>1. v.shift \in 1 .. v.shift
        BY <1>1
      <4>2. Slot(i, v.shift) \in 1 .. Len(A[v.shift])
        BY <1>1, <2>1
      <4> QED BY <4>1, <4>2, GoodRows
    <3>2. Slot(i, v.shift) = 1
      BY <3>1
    <3>3. B[v.shift] = [<<v.root>> EXCEPT ![1] = a[v.shift]]
      BY <1>1, <2>7, <3>1, <3>2
    <3>4. B[v.shift] = <<a[v.shift]>>
      BY <3>3
    <3>5. Len(g[B[v.shift][1]]) = Len(h[A[v.shift][1]])
      <4>1. 1 \in 1 .. Len(A[v.shift])
        BY <3>1
      <4> QED BY <2>9, <3>1, <4>1
    <3> QED BY <3>1, <3>4, <3>5
  <2>13. B[0] # <<>> /\ \A l \in 1 .. v.shift : g[B[l][Len(B[l])]] # <<>>
    <3>1. A[0] # <<>> /\ Len(B[0]) = Len(A[0])
      <4>1. Slot(i, 0) \in 1 .. Len(A[0]) /\ A[0] \in Seq(1 .. Len(h)) /\ B[0] = [A[0] EXCEPT ![Slot(i, 0)] = a[0]]
        BY <1>1, <2>1, <2>4, <2>7
      <4> QED BY <4>1
    <3>2. B[0] # <<>>
      <4>1. B[0] \in Seq(1 .. Len(g)) /\ A[0] \in Seq(1 .. Len(h))
        BY <1>1, <2>4, <2>7
      <4>2. Len(A[0]) # 0
        BY <3>1, <4>1
      <4> QED BY <3>1, <4>1, <4>2
    <3>3. ASSUME NEW l \in 1 .. v.shift PROVE g[B[l][Len(B[l])]] # <<>>
      <4>1. Len(A[l]) \in 1 .. Len(A[l]) /\ Filled(h, A[l])
        BY GoodRows, <1>1
      <4>2. h[A[l][Len(A[l])]] # <<>> /\ h[A[l][Len(A[l])]] \in Seq(Data)
        <5>1. h[A[l][Len(A[l])]] # <<>>
          BY <3>1 DEF Good, Upright
        <5> QED BY <1>1, <4>1, <5>1, Node
      <4>3. Len(g[B[l][Len(B[l])]]) = Len(h[A[l][Len(A[l])]])
        BY <2>9, <4>1
      <4>4. Len(h[A[l][Len(A[l])]]) # 0
        BY <4>2
      <4> QED BY <4>3, <4>4
    <3> QED BY <3>2, <3>3
  <2>14. F # <<>> => g[v.tail] # <<>>
    <3>1. v.tail \in 1 .. Len(h) /\ h[v.tail] # <<>>
      BY <1>4, GoodRows DEF Good, Upright
    <3> QED BY <2>6, <3>1 DEF Extends
  <2>15. v.shift > 1 => Len(g[a[v.shift]]) > 1
    BY <2>12 DEF Good, Upright
  <2> HIDE DEF w
  <2>16. Good(g, w, B, F)
    <3>1. Heap(g)
      BY <2>6 DEF Extends
    <3> QED BY <1>1, <1>4, <2>8, <2>9, <2>10, <2>11, <2>12, <2>13, <2>14, <2>15, <3>1 DEF Good, Upright
  <2>17. Store(h, v, i, x) = [h |-> g, v |-> w]
    BY <1>6 DEF Store, g, w, made
  <2> QED BY <2>6, <2>16, <2>17 DEF F
<1> QED BY <1>5, <1>6

LEMMA MinFacts ==
  ASSUME NEW S, S \subseteq Nat, S # {}
  PROVE  Min(S) \in S /\ \A y \in S : Min(S) <= y
<1>1. PICK x \in S : \A y \in S : <<y, x>> \notin OpToRel(<, Nat)
  BY WFMin, NatLessThanWellFounded
<1>2. ASSUME NEW y \in S PROVE x <= y
  <2>1. <<y, x>> \notin OpToRel(<, Nat) /\ x \in Nat /\ y \in Nat
    BY <1>1
  <2>2. ~(y < x)
    BY <2>1 DEF OpToRel
  <2>3. x \in Nat /\ y \in Nat
    BY <2>1
  <2> QED BY <2>2, <2>3
<1>3. \E z \in S : \A y \in S : z <= y
  BY <1>2
<1> QED BY <1>3, Zenon DEF Min

\* The last nodes of the rows, and what a node at a level has of children.
LEMMA LastGood ==
  ASSUME NEW h, NEW v, NEW A, NEW E, Good(h, v, A, E), NEW l \in 1 .. v.shift
  PROVE  /\ l \in Nat /\ l \in 0 .. v.shift /\ l - 1 \in 0 .. v.shift
         /\ A[l] \in Seq(Nat) /\ Len(A[l]) \in 1 .. Len(A[l]) /\ Len(A[l]) \in Nat \ {0}
         /\ A[l][Len(A[l])] \in 1 .. Len(h)
         /\ h[Spine(h, v)[l]] = h[A[l][Len(A[l])]] /\ h[A[l][Len(A[l])]] \in Seq(Data)
         /\ Len(h[A[l][Len(A[l])]]) \in 0 .. Width
         /\ Filled(h, A[l]) /\ Rows(h, A[l], A[l - 1]) /\ A[l - 1] \in Seq(Nat)
<1>1. /\ l \in Nat /\ l \in 0 .. v.shift /\ l - 1 \in 0 .. v.shift /\ l # 0 /\ Heap(h) /\ Len(h) \in Nat
  <2>1. v.shift \in Nat /\ Heap(h) /\ Len(h) \in Nat
    BY GoodRows
  <2> QED BY <2>1
<1>2. /\ A[l] \in Seq(1 .. Len(h)) /\ A[l - 1] \in Seq(1 .. Len(h))
      /\ Filled(h, A[l]) /\ Rows(h, A[l], A[l - 1]) /\ Len(A[l]) \in 1 .. Len(A[l])
  BY <1>1, GoodRows
<1>3. \A k \in 0 .. v.shift : A[k] \in Seq(1 .. Len(h)) => A[k] \in Seq(Nat)
  <2> TAKE k \in 0 .. v.shift
  <2> SUFFICES ASSUME A[k] \in Seq(1 .. Len(h)) PROVE A[k] \in Seq(Nat)
    OBVIOUS
  <2>1. \A c \in 1 .. Len(A[k]) : A[k][c] \in Nat
    BY <1>1
  <2> QED BY <2>1, SeqOther
<1>4. /\ A[l][Len(A[l])] \in 1 .. Len(h) /\ h[A[l][Len(A[l])]] \in Seq(Data) /\ Len(h[A[l][Len(A[l])]]) \in Nat
  BY <1>1, <1>2, Node
<1>5. Len(h[A[l][Len(A[l])]]) <= Width
  BY <1>2 DEF Filled
<1>6. Spine(h, v)[l] = A[l][Len(A[l])]
  BY <1>1, SpineGood DEF Last
<1>7. Len(A[l]) \in Nat \ {0}
  BY <1>2
<1> QED BY <1>1, <1>2, <1>3, <1>4, <1>5, <1>6, <1>7, VectorAssumption

LEMMA RoomFacts ==
  ASSUME NEW h, NEW v, NEW A, NEW E, Good(h, v, A, E)
  PROVE  /\ Room(h, v) \in 1 .. v.shift + 1
         /\ \A l \in 1 .. v.shift : /\ l < Room(h, v) => Len(h[A[l][Len(A[l])]]) = Width
                                    /\ l = Room(h, v) => Len(h[A[l][Len(A[l])]]) < Width
<1> DEFINE S == {l \in 1 .. v.shift + 1 : l = v.shift + 1 \/ Len(h[Spine(h, v)[l]]) # Width}
<1>1. v.shift \in Nat /\ v.shift + 1 \in S
  BY GoodRows
<1>2. S \subseteq Nat /\ S # {}
  BY <1>1
<1>3. Room(h, v) = Min(S)
  BY DEF Room
<1>4. Room(h, v) \in S /\ \A y \in S : Room(h, v) <= y
  <2> HIDE DEF S
  <2> QED BY <1>2, <1>3, MinFacts
<1>5. ASSUME NEW l \in 1 .. v.shift
      PROVE  /\ l < Room(h, v) => Len(h[A[l][Len(A[l])]]) = Width
             /\ l = Room(h, v) => Len(h[A[l][Len(A[l])]]) < Width
  <2>1. h[Spine(h, v)[l]] = h[A[l][Len(A[l])]] /\ Len(h[A[l][Len(A[l])]]) \in 0 .. Width /\ l \in Nat
    BY LastGood
  <2>2. l < Room(h, v) => Len(h[A[l][Len(A[l])]]) = Width
    <3> SUFFICES ASSUME l < Room(h, v), Len(h[Spine(h, v)[l]]) # Width PROVE FALSE
      BY <2>1
    <3>1. l \in S
      BY <1>1
    <3>2. Room(h, v) <= l /\ Room(h, v) \in Nat
      BY <1>2, <1>4, <3>1
    <3> HIDE DEF S
    <3> QED BY <2>1, <3>2
  <2>3. l = Room(h, v) => Len(h[A[l][Len(A[l])]]) < Width
    <3> SUFFICES ASSUME l = Room(h, v) PROVE Len(h[A[l][Len(A[l])]]) < Width
      OBVIOUS
    <3>1. l # v.shift + 1
      BY <1>1
    <3>2. Len(h[Spine(h, v)[l]]) # Width
      BY <1>4, <3>1
    <3>3. Width \in Nat
      BY VectorAssumption
    <3> HIDE DEF S
    <3> QED BY <2>1, <3>2, <3>3
  <2> QED BY <2>2, <2>3
<1>6. Room(h, v) \in 1 .. v.shift + 1
  BY <1>4
<1> QED BY <1>5, <1>6

\* A push to a full tail, which makes nodes up to the level where there is room.
LEMMA GrowGood ==
  ASSUME NEW h, NEW v, NEW A, NEW E, Good(h, v, A, E), NEW x \in Data, Len(h[v.tail]) = Width,
         NEW made, made = NewSpine(h, v), NEW end, end = New(h \o made, <<x>>),
         NEW w, w = [cnt |-> v.cnt + 1, tail |-> end.n, shift |-> Len(made), root |-> Len(h) + Len(made)]
  PROVE  Extends(h, end.h) /\ \E B : Good(end.h, w, B, Append(E, x))
<1> DEFINE r == Room(h, v)
           last(l) == h[A[l][Len(A[l])]]
<1>1. /\ Heap(h) /\ Len(h) \in Nat /\ v.shift \in Nat /\ v.shift >= 1
      /\ r \in 1 .. v.shift + 1 /\ r \in Nat /\ v.tail \in 1 .. Len(h)
  <2>1. Heap(h) /\ Len(h) \in Nat /\ v.shift \in Nat /\ v.shift >= 1 /\ v.tail \in 1 .. Len(h)
    BY GoodRows
  <2>2. r \in 1 .. v.shift + 1
    BY RoomFacts
  <2> QED BY <2>1, <2>2
<1>2. \A l \in 1 .. v.shift : /\ l < r => Len(last(l)) = Width
                              /\ l = r => Len(last(l)) < Width
  BY RoomFacts
<1> HIDE DEF r
<1> DEFINE N == IF r > v.shift THEN r ELSE v.shift
           a == [l \in 0 .. N |-> IF l = 0 THEN v.tail ELSE Len(h) + l]
<1>3. /\ N \in Nat /\ N >= 1 /\ r <= N /\ v.shift <= N /\ Max({r, v.shift}) = N
      /\ (N > v.shift => r = N /\ N = v.shift + 1)
  <2>1. r \in Int /\ v.shift \in Int
    BY <1>1
  <2>2. N \in {r, v.shift} /\ \A y \in {r, v.shift} : N >= y
    BY <2>1
  <2>3. \A z \in {r, v.shift} : (\A y \in {r, v.shift} : z >= y) => z = N
    BY <2>1
  <2>4. Max({r, v.shift}) \in {r, v.shift} /\ \A y \in {r, v.shift} : Max({r, v.shift}) >= y
    <3> HIDE DEF N
    <3>1. \E z \in {r, v.shift} : \A y \in {r, v.shift} : z >= y
      BY <2>2
    <3> QED BY <3>1, Zenon DEF Max
  <2>5. Max({r, v.shift}) = N
    BY <2>3, <2>4
  <2> QED BY <1>1, <2>5
<1> HIDE DEF N
<1>4. \A l \in 1 .. N : /\ l \in 0 .. N /\ l - 1 \in 0 .. N /\ a[l] = Len(h) + l /\ a[l] \in Nat /\ a[l - 1] \in Nat
                        /\ a[l - 1] = IF l = 1 THEN v.tail ELSE Len(h) + l - 1
  <2> TAKE l \in 1 .. N
  <2>1. l \in 0 .. N /\ l - 1 \in 0 .. N /\ l # 0 /\ (l - 1 = 0 <=> l = 1) /\ l \in Nat
    BY <1>3
  <2>2. a[l] = Len(h) + l /\ a[l - 1] = IF l - 1 = 0 THEN v.tail ELSE Len(h) + (l - 1)
    BY <2>1
  <2>3. Len(h) + l \in Nat /\ v.tail \in Nat /\ Len(h) + (l - 1) = Len(h) + l - 1 /\ (l # 1 => Len(h) + l - 1 \in Nat)
    BY <1>1, <2>1
  <2> HIDE DEF a
  <2> QED BY <2>1, <2>2, <2>3
<1>5. a[0] = v.tail /\ a[0] \in Nat
  BY <1>1, <1>3
<1> HIDE DEF a
<1> DEFINE sp(k) == h[Spine(h, v)[k]]
           child(k) == IF k = 1 THEN v.tail ELSE Len(h) + k - 1
           node(k) == CASE k < r                 -> <<child(k)>>
                        [] k = r /\ k > v.shift  -> <<v.root, child(k)>>
                        [] k = r /\ k <= v.shift -> Append(sp(k), child(k))
                        [] k > r                 -> [sp(k) EXCEPT ![Len(sp(k))] = child(k)]
<1>m. made = [k \in 1 .. N |-> node(k)]
  BY <1>3, Zenon DEF NewSpine, r
<1>6. ASSUME NEW l \in 1 .. N
      PROVE  /\ l < r => made[l] = <<a[l - 1]>> /\ l \in 1 .. v.shift
             /\ l = r /\ l > v.shift => made[l] = <<v.root, a[l - 1]>>
             /\ l = r /\ l <= v.shift => made[l] = Append(last(l), a[l - 1])
             /\ l > r => made[l] = [last(l) EXCEPT ![Len(last(l))] = a[l - 1]] /\ l \in 1 .. v.shift
  <2>1. made[l] = node(l)
    <3> HIDE DEF node
    <3> QED BY <1>m
  <2>2. child(l) = a[l - 1]
    BY <1>4
  <2>3. l \in Nat /\ l >= 1 /\ l <= N
    BY <1>3
  <2>4. (l < r => l \in 1 .. v.shift) /\ (l > r => l \in 1 .. v.shift) /\ (l <= v.shift => l \in 1 .. v.shift)
    BY <1>1, <1>3, <2>3
  <2>5. l \in 1 .. v.shift => sp(l) = last(l)
    BY LastGood
  <2> HIDE DEF sp, last, child
  <2>6. /\ l < r => node(l) = <<child(l)>>
        /\ l = r /\ l > v.shift => node(l) = <<v.root, child(l)>>
        /\ l = r /\ l <= v.shift => node(l) = Append(sp(l), child(l))
        /\ l > r => node(l) = [sp(l) EXCEPT ![Len(sp(l))] = child(l)]
    BY <1>1, <2>3
  <2> HIDE DEF node
  <2> QED BY <2>1, <2>2, <2>4, <2>5, <2>6
<1> HIDE DEF sp, child, node
<1>7. ASSUME NEW l \in 1 .. v.shift
      PROVE  /\ last(l) \in Seq(Data) /\ Len(last(l)) \in 0 .. Width
             /\ l > r => last(l) # <<>> /\ Len(last(l)) \in 1 .. Len(last(l))
  <2>1. last(l) \in Seq(Data) /\ Len(last(l)) \in 0 .. Width /\ l \in Nat /\ l <= v.shift
    BY <1>1, LastGood
  <2>2. ASSUME l > r PROVE last(l) # <<>>
    <3>1. v.shift # 1
      BY <1>1, <2>1, <2>2
    <3> QED BY <3>1 DEF Good, Upright
  <2> HIDE DEF last
  <2>3. last(l) # <<>> => Len(last(l)) \in 1 .. Len(last(l))
    BY <2>1
  <2> QED BY <2>1, <2>2, <2>3
<1> HIDE DEF last
<1>8. \A k \in Nat : k \in Data
  BY DEF Data
<1>9. ASSUME NEW l \in 1 .. N PROVE made[l] \in Seq(Data) /\ made[l] # <<>>
  <2>1. l \in Nat /\ a[l - 1] \in Data /\ a[l - 1] \in Nat /\ v.root \in Data
    <3>1. v.root \in Nat
      BY <1>1, GoodRows
    <3> QED BY <1>3, <1>4, <1>8, <3>1
  <2>2. CASE l < r
    <3>1. made[l] = <<a[l - 1]>>
      BY <1>6, <2>2
    <3> QED BY <2>1, <3>1, OneFacts
  <2>3. CASE l = r /\ l > v.shift
    <3>1. made[l] = <<v.root, a[l - 1]>>
      BY <1>6, <2>3
    <3> QED BY <2>1, <3>1, OneFacts
  <2>4. CASE l = r /\ l <= v.shift
    <3>1. l \in 1 .. v.shift
      BY <1>1, <1>3, <2>4
    <3>2. last(l) \in Seq(Data) /\ made[l] = Append(last(l), a[l - 1])
      BY <1>6, <1>7, <2>4, <3>1
    <3> QED BY <2>1, <3>2
  <2>5. CASE l > r
    <3>1. l \in 1 .. v.shift /\ made[l] = [last(l) EXCEPT ![Len(last(l))] = a[l - 1]]
      BY <1>6, <2>5
    <3>2. last(l) \in Seq(Data) /\ last(l) # <<>> /\ Len(last(l)) \in 1 .. Len(last(l))
      BY <1>7, <2>5, <3>1
    <3>3. made[l] \in Seq(Data) /\ Len(made[l]) = Len(last(l))
      <4>1. [last(l) EXCEPT ![Len(last(l))] = a[l - 1]] \in Seq(Data)
        BY <2>1, <3>2, ExceptFacts
      <4>2. Len([last(l) EXCEPT ![Len(last(l))] = a[l - 1]]) = Len(last(l))
        BY <2>1, <3>2, ExceptFacts
      <4> QED BY <3>1, <4>1, <4>2
    <3>4. Len(made[l]) # 0
      BY <3>2, <3>3
    <3> QED BY <3>3, <3>4
  <2>6. l < r \/ (l = r /\ l > v.shift) \/ (l = r /\ l <= v.shift) \/ l > r
    BY <1>1, <2>1
  <2> QED BY <2>2, <2>3, <2>4, <2>5, <2>6
<1>10. made \in Seq(Seq(Data)) /\ Len(made) = N
  <2>1. made = [k \in 1 .. N |-> made[k]]
    BY <1>m
  <2> QED BY <1>3, <1>9, <2>1, SeqFacts
<1> DEFINE f == h \o made  g == end.h  n == end.n
<1>11. /\ Extends(h, f) /\ Heap(f) /\ Len(f) \in Nat
       /\ \A l \in 1 .. N : a[l] \in 1 .. Len(f) /\ f[a[l]] = made[l]
  <2>1. /\ Extends(h, f)
        /\ \A l \in 1 .. Len(made) : Len(h) + l \in 1 .. Len(f) /\ f[Len(h) + l] = made[l]
    BY <1>1, <1>10, MadeFacts
  <2> HIDE DEF f
  <2>2. Heap(f) /\ Len(f) \in Nat
    BY <2>1 DEF Extends, Heap
  <2> QED BY <1>4, <1>10, <2>1, <2>2
<1>12. /\ Extends(f, g) /\ n \in 1 .. Len(g) /\ g[n] = <<x>>
  <2> DEFINE y == <<x>>
  <2>1. y \in Seq(Data) /\ end = New(f, y)
    BY OneFacts
  <2> HIDE DEF f, y
  <2>2. /\ Extends(f, New(f, y).h) /\ New(f, y).n \in 1 .. Len(New(f, y).h)
        /\ New(f, y).h[New(f, y).n] = y
    <3>1. Heap(f) /\ y \in Seq(Data)
      BY <1>11, <2>1
    <3>2. /\ Extends(f, New(f, y).h) /\ New(f, y).n = Len(f) + 1
          /\ Len(f) + 1 \in 1 .. Len(New(f, y).h) /\ New(f, y).h[Len(f) + 1] = y
      BY <3>1, NewFacts
    <3> QED BY <3>2
  <2> QED BY <2>1, <2>2 DEF y
<1> HIDE DEF f, g, n
<1>13. /\ Extends(h, g) /\ Heap(g) /\ Len(g) \in Nat /\ v.tail \in 1 .. Len(g)
       /\ \A l \in 1 .. N : a[l] \in 1 .. Len(g) /\ g[a[l]] = made[l]
       /\ \A l \in 0 .. N : a[l] \in 1 .. Len(g)
  <2>1. Extends(h, g)
    BY <1>11, <1>12, ExtendsTwice
  <2>2. Heap(g) /\ Len(g) \in Nat /\ Len(f) <= Len(g) /\ Len(h) <= Len(g)
    BY <1>12, <2>1 DEF Extends, Heap
  <2>3. \A l \in 1 .. N : a[l] \in 1 .. Len(g) /\ g[a[l]] = made[l]
    BY <1>11, <1>12, <2>2 DEF Extends
  <2>4. v.tail \in 1 .. Len(g)
    BY <1>1, <2>2
  <2>5. \A l \in 0 .. N : l = 0 \/ l \in 1 .. N
    BY <1>3
  <2> QED BY <1>5, <2>1, <2>2, <2>3, <2>4, <2>5
<1> DEFINE B == [l \in 0 .. N |-> IF l < r THEN Append(A[l], a[l])
                                  ELSE IF l <= v.shift THEN [A[l] EXCEPT ![Len(A[l])] = a[l]]
                                  ELSE <<a[l]>>]
<1>14. ASSUME NEW l \in 0 .. N
       PROVE  /\ l < r => B[l] = Append(A[l], a[l]) /\ l \in 0 .. v.shift
              /\ l >= r /\ l <= v.shift => B[l] = [A[l] EXCEPT ![Len(A[l])] = a[l]] /\ l \in 1 .. v.shift
              /\ l >= r /\ l > v.shift => B[l] = <<a[l]>>
              /\ l < r \/ (l >= r /\ l <= v.shift) \/ (l >= r /\ l > v.shift)
  <2>1. l \in Nat /\ l <= N
    BY <1>3
  <2>2. /\ l < r => l \in 0 .. v.shift
        /\ l >= r /\ l <= v.shift => l \in 1 .. v.shift /\ ~(l < r)
        /\ l >= r /\ l > v.shift => ~(l < r) /\ ~(l <= v.shift)
        /\ l < r \/ (l >= r /\ l <= v.shift) \/ (l >= r /\ l > v.shift)
    BY <1>1, <2>1
  <2> QED BY <2>2
<1> HIDE DEF B
<1>15. ASSUME NEW l \in 0 .. v.shift PROVE A[l] \in Seq(1 .. Len(g))
  <2>1. A[l] \in Seq(1 .. Len(h)) /\ Len(h) <= Len(g)
    BY <1>13, GoodRows DEF Extends
  <2>2. \A c \in 1 .. Len(A[l]) : A[l][c] \in 1 .. Len(g)
    <3>1. \A c \in 1 .. Len(A[l]) : A[l][c] \in 1 .. Len(h)
      BY <2>1
    <3>2. \A c \in 1 .. Len(h) : c \in 1 .. Len(g)
      BY <1>1, <1>13, <2>1
    <3> QED BY <3>1, <3>2
  <2> QED BY <2>1, <2>2, SeqOther
<1>16. ASSUME NEW l \in 0 .. N
       PROVE  B[l] \in Seq(1 .. Len(g)) /\ B[l] # <<>> /\ (l >= 1 => B[l][Len(B[l])] = a[l])
  <2>1. a[l] \in 1 .. Len(g)
    BY <1>13
  <2>2. CASE l < r
    <3> DEFINE s == A[l]
    <3>1. s \in Seq(1 .. Len(g)) /\ B[l] = Append(s, a[l])
      BY <1>14, <1>15, <2>2
    <3> HIDE DEF s
    <3>2. /\ Append(s, a[l]) \in Seq(1 .. Len(g)) /\ Len(Append(s, a[l])) = Len(s) + 1
          /\ Append(s, a[l])[Len(s) + 1] = a[l] /\ Len(s) \in Nat
      BY <2>1, <3>1, AppendFacts
    <3> DEFINE q == Append(s, a[l])
    <3>3. q \in Seq(1 .. Len(g)) /\ Len(q) = Len(s) + 1 /\ q[Len(s) + 1] = a[l] /\ Len(s) \in Nat /\ B[l] = q
      BY <3>1, <3>2
    <3> HIDE DEF q
    <3>4. q # <<>>
      BY <3>3
    <3> QED BY <3>3, <3>4
  <2>3. CASE l >= r /\ l <= v.shift
    <3>1. l \in 1 .. v.shift /\ l \in 0 .. v.shift /\ B[l] = [A[l] EXCEPT ![Len(A[l])] = a[l]]
      BY <1>14, <2>3
    <3>2. A[l] \in Seq(1 .. Len(g)) /\ Len(A[l]) \in 1 .. Len(A[l])
      BY <1>15, <3>1, LastGood
    <3>3. /\ [A[l] EXCEPT ![Len(A[l])] = a[l]] \in Seq(1 .. Len(g))
          /\ Len([A[l] EXCEPT ![Len(A[l])] = a[l]]) = Len(A[l])
          /\ [A[l] EXCEPT ![Len(A[l])] = a[l]][Len(A[l])] = a[l]
      BY <2>1, <3>2, ExceptFacts
    <3>4. Len(B[l]) # 0 /\ B[l] \in Seq(1 .. Len(g)) /\ B[l][Len(B[l])] = a[l]
      <4>1. Len(B[l]) = Len(A[l]) /\ B[l] \in Seq(1 .. Len(g)) /\ B[l][Len(A[l])] = a[l]
        BY <3>1, <3>3
      <4> QED BY <3>2, <4>1
    <3> QED BY <3>4
  <2>4. CASE l >= r /\ l > v.shift
    <3>1. B[l] = <<a[l]>>
      BY <1>14, <2>4
    <3> QED BY <2>1, <3>1, OneFacts
  <2> QED BY <1>14, <2>2, <2>3, <2>4
<1>17. ASSUME NEW l \in 1 .. N PROVE Filled(g, B[l]) /\ Rows(g, B[l], B[l - 1])
  <2> DEFINE s == A[l]  t == A[l - 1]  y == a[l - 1]  m == a[l]  s1 == B[l]  t1 == B[l - 1]
  <2>1. /\ l \in Nat /\ l \in 0 .. N /\ l - 1 \in 0 .. N /\ y \in Nat /\ y \in Data
        /\ m \in 1 .. Len(g) /\ g[m] = made[l]
    <3>1. l \in Nat /\ l \in 0 .. N /\ l - 1 \in 0 .. N /\ y \in Nat
      BY <1>3, <1>4
    <3>2. m \in 1 .. Len(g) /\ g[m] = made[l]
      BY <1>13
    <3> HIDE DEF y, m
    <3> QED BY <1>8, <3>1, <3>2
  <2>2. CASE l > v.shift
    <3>1. l = r /\ l = v.shift + 1 /\ l - 1 = v.shift /\ l - 1 < r /\ l >= r
      BY <1>1, <1>3, <2>1, <2>2
    <3>2. made[l] = <<v.root, y>> /\ s1 = <<m>> /\ t1 = Append(A[v.shift], y)
      BY <1>6, <1>14, <2>1, <2>2, <3>1
    <3>3. t1 = <<v.root, y>>
      <4>1. A[v.shift] = <<v.root>>
        BY GoodRows
      <4>2. v.root \in Nat
        BY <1>1, GoodRows
      <4> HIDE DEF y, t1
      <4>3. Append(<<v.root>>, y) = <<v.root, y>>
        BY <2>1, <4>2, OneFacts
      <4> QED BY <3>2, <4>1, <4>3
    <3>4. Len(t1) <= Width
      BY <3>3, VectorAssumption
    <3>5. t1 = g[m] /\ s1 = <<m>> /\ m \in 1 .. Len(g) /\ Heap(g)
      BY <1>13, <2>1, <3>2, <3>3
    <3> HIDE DEF y, m, s1, t1
    <3>6. Filled(g, s1) /\ Rows(g, s1, t1)
      BY <3>4, <3>5, RowsRoot
    <3> QED BY <3>6 DEF s1, t1
  <2>3. CASE l <= v.shift
    <3>1. l \in 1 .. v.shift
      BY <1>1, <2>1, <2>3
    <3>2. /\ Extends(h, g) /\ Filled(h, s) /\ Rows(h, s, t) /\ t \in Seq(Nat) /\ Len(s) \in 1 .. Len(s)
          /\ last(l) = h[s[Len(s)]]
      BY <1>13, <3>1, LastGood DEF last
    <3>3. CASE l < r
      <4>1. Len(h[s[Len(s)]]) = Width /\ l - 1 < r
        <5>1. Len(last(l)) = Width
          BY <1>2, <3>1, <3>3
        <5>2. l - 1 < r
          BY <1>1, <2>1, <3>3
        <5> QED BY <3>2, <5>1, <5>2
      <4>2. g[m] = <<y>> /\ s1 = Append(s, m) /\ t1 = Append(t, y)
        BY <1>6, <1>14, <2>1, <3>3, <4>1
      <4> HIDE DEF s, t, y, m, s1, t1
      <4>3. Filled(g, s1) /\ Rows(g, s1, t1)
        BY <2>1, <3>2, <4>1, <4>2, RowsNext
      <4> QED BY <4>3 DEF s1, t1
    <3>4. CASE l = r
      <4>1. Len(h[s[Len(s)]]) < Width /\ l - 1 < r
        BY <1>1, <1>2, <2>1, <3>1, <3>2, <3>4
      <4>2. g[m] = Append(h[s[Len(s)]], y) /\ s1 = [s EXCEPT ![Len(s)] = m] /\ t1 = Append(t, y)
        <5>1. made[l] = Append(last(l), y)
          BY <1>6, <2>3, <3>4
        <5>2. l >= r
          BY <1>1, <2>1, <3>4
        <5>3. s1 = [s EXCEPT ![Len(s)] = m]
          BY <1>14, <2>1, <2>3, <5>2
        <5>4. t1 = Append(t, y)
          BY <1>14, <2>1, <4>1
        <5> QED BY <2>1, <3>2, <5>1, <5>3, <5>4
      <4> HIDE DEF s, t, y, m, s1, t1
      <4>3. Filled(g, s1) /\ Rows(g, s1, t1)
        BY <2>1, <3>2, <4>1, <4>2, RowsLonger
      <4> QED BY <4>3 DEF s1, t1
    <3>5. CASE l > r
      <4> DEFINE b == Len(s)  d == Len(last(l))
      <4>1. /\ last(l) \in Seq(Data) /\ d \in 1 .. Len(last(l)) /\ d \in Nat
            /\ l >= r /\ l - 1 >= r /\ l - 1 <= v.shift
        BY <1>1, <1>7, <2>1, <3>1, <3>5
      <4>2. made[l] = [last(l) EXCEPT ![d] = y]
        BY <1>6, <3>5
      <4>3. s1 = [s EXCEPT ![b] = m]
        BY <1>14, <2>1, <2>3, <4>1
      <4>4. t1 = [t EXCEPT ![Len(t)] = y]
        BY <1>14, <2>1, <4>1
      <4>5. Len(t) = Pos(b, d)
        BY <3>2 DEF Rows
      <4>6. Copy(g[m], h[s[b]], d, y)
        <5> DEFINE q == last(l)
        <5>1. q \in Seq(Data) /\ d \in 1 .. Len(q) /\ y \in Data
          BY <2>1, <4>1
        <5>2. Copy([q EXCEPT ![d] = y], q, d, y)
          <6> HIDE DEF q, y, d
          <6> QED BY <5>1, CopyFacts
        <5> QED BY <2>1, <3>2, <4>2, <5>2
      <4>7. d \in 1 .. Len(h[s[b]]) /\ b \in 1 .. Len(s) /\ t1 = [t EXCEPT ![Pos(b, d)] = y]
        BY <3>2, <4>1, <4>4, <4>5
      <4> HIDE DEF s, t, y, m, s1, t1, b, d
      <4>8. Filled(g, s1) /\ Rows(g, s1, t1)
        BY <2>1, <3>2, <4>3, <4>6, <4>7, RowsSet
      <4> QED BY <4>8 DEF s1, t1
    <3> QED BY <1>1, <2>1, <3>3, <3>4, <3>5
  <2> QED BY <1>1, <2>1, <2>2, <2>3
<1>18. Filled(g, Append(B[0], n)) /\ Rows(g, Append(B[0], n), Append(E, x))
  <2> DEFINE s == Append(A[0], v.tail)  s1 == Append(B[0], n)  t1 == Append(E, x)
  <2>1. 0 \in 0 .. N /\ 0 < r
    BY <1>1, <1>3
  <2>2. B[0] = s
    BY <1>5, <1>14, <2>1
  <2>3. Filled(h, s) /\ Rows(h, s, E) /\ E \in Seq(Data)
    BY DEF Good, Upright
  <2>4. s[Len(s)] = v.tail
    BY GoodRows
  <2>5. Len(h[s[Len(s)]]) = Width /\ s1 = Append(s, n) /\ t1 = Append(E, x)
    BY <2>2, <2>4
  <2> HIDE DEF s, s1, t1
  <2>6. Filled(g, s1) /\ Rows(g, s1, t1)
    <3>1. Extends(h, g) /\ n \in 1 .. Len(g) /\ g[n] = <<x>>
      BY <1>12, <1>13
    <3> QED BY <2>3, <2>5, <3>1, RowsNext
  <2> QED BY <2>6 DEF s1, t1
<1>19. B[N] = <<a[N]>> /\ (N > 1 => Len(made[N]) > 1)
  <2>1. N \in 1 .. N /\ N \in 0 .. N /\ N >= r /\ A[v.shift] = <<v.root>> /\ v.shift \in 1 .. v.shift
    BY <1>1, <1>3, GoodRows
  <2>2. CASE N > v.shift
    <3>1. N = r
      BY <1>3, <2>2
    <3>2. B[N] = <<a[N]>>
      BY <1>14, <2>1, <2>2
    <3>3. made[N] = <<v.root, a[N - 1]>>
      BY <1>6, <2>1, <2>2, <3>1
    <3>4. Len(made[N]) = 2
      BY <3>3
    <3> QED BY <3>2, <3>4
  <2>3. CASE N = v.shift
    <3>1. B[N] = [<<v.root>> EXCEPT ![1] = a[N]]
      <4>1. B[N] = [A[N] EXCEPT ![Len(A[N])] = a[N]]
        <5>1. N >= r /\ N <= v.shift
          BY <1>1, <2>1, <2>3
        <5> QED BY <1>14, <2>1, <5>1
      <4> QED BY <2>1, <2>3, <4>1
    <3>2. B[N] = <<a[N]>>
      BY <3>1
    <3>3. last(N) = h[v.root] /\ last(N) \in Seq(Data)
      <4>1. last(v.shift) \in Seq(Data)
        BY <1>7, <2>1
      <4>2. last(v.shift) = h[v.root]
        BY <2>1 DEF last
      <4> QED BY <2>3, <4>1, <4>2
    <3>4. ASSUME N > 1 PROVE Len(made[N]) > 1
      <4>1. Len(last(N)) > 1 /\ Len(last(N)) \in Nat
        BY <2>3, <3>3, <3>4 DEF Good, Upright
      <4>2. CASE N = r
        <5>1. made[N] = Append(last(N), a[N - 1])
          BY <1>1, <1>6, <2>1, <2>3, <4>2
        <5>2. a[N - 1] \in Data
          BY <1>4, <1>8, <2>1
        <5>3. Len(made[N]) = Len(last(N)) + 1
          BY <3>3, <5>1, <5>2, AppendFacts
        <5> QED BY <4>1, <5>3
      <4>3. CASE N > r
        <5>1. made[N] = [last(N) EXCEPT ![Len(last(N))] = a[N - 1]]
          BY <1>6, <2>1, <4>3
        <5>2. a[N - 1] \in Data /\ Len(last(N)) \in 1 .. Len(last(N))
          BY <1>4, <1>8, <2>1, <4>1
        <5>3. Len(made[N]) = Len(last(N))
          BY <3>3, <5>1, <5>2, ExceptFacts
        <5> QED BY <4>1, <5>3
      <4> QED BY <1>1, <1>3, <2>1, <4>2, <4>3
    <3> QED BY <3>2, <3>4
  <2> QED BY <1>1, <1>3, <2>2, <2>3
<1>20. /\ w \in [cnt : Nat, shift : Nat, root : Nat, tail : Nat] /\ w.shift = N /\ w.tail = n
       /\ w.cnt = Len(Append(E, x)) /\ w.root = a[N] /\ Append(E, x) \in Seq(Data)
  <2>1. v.cnt = Len(E) /\ Len(E) \in Nat /\ E \in Seq(Data)
    BY GoodRows DEF Good, Upright
  <2>2. Len(Append(E, x)) = Len(E) + 1 /\ Append(E, x) \in Seq(Data)
    BY <2>1, AppendFacts
  <2>3. n \in Nat /\ Len(h) + N = a[N] /\ a[N] \in Nat
    BY <1>3, <1>4, <1>12, <1>13
  <2>4. w = [cnt |-> Len(E) + 1, tail |-> n, shift |-> N, root |-> a[N]]
    BY <1>10, <2>1, <2>3 DEF n
  <2> QED BY <1>3, <2>1, <2>2, <2>3, <2>4
<1>21. B \in [0 .. N -> Seq(1 .. Len(g))]
  <2>1. B = [l \in 0 .. N |-> B[l]]
    BY DEF B
  <2> QED BY <1>16, <2>1
<1>22. \A l \in 1 .. N : g[B[l][Len(B[l])]] # <<>>
  <2> TAKE l \in 1 .. N
  <2>1. B[l][Len(B[l])] = a[l] /\ g[a[l]] = made[l] /\ made[l] # <<>>
    BY <1>3, <1>4, <1>9, <1>13, <1>16
  <2> QED BY <2>1
<1>23. B[0] # <<>> /\ g[n] # <<>> /\ (N > 1 => Len(g[a[N]]) > 1)
  BY <1>3, <1>12, <1>13, <1>16, <1>19
<1> DEFINE F == Append(E, x)
<1> HIDE DEF F
<1>24. Good(g, w, B, F)
  <2>1. w.cnt = Len(F) /\ F \in Seq(Data) /\ Filled(g, Append(B[0], n)) /\ Rows(g, Append(B[0], n), F)
    BY <1>18, <1>20 DEF F
  <2> QED BY <1>3, <1>13, <1>17, <1>19, <1>20, <1>21, <1>22, <1>23, <2>1 DEF Good, Upright
<1> QED BY <1>13, <1>24 DEF F, g

\* vector_push() makes a vector with one element more.
LEMMA PushGood ==
  ASSUME NEW h, NEW v, NEW A, NEW E, Good(h, v, A, E), NEW x \in Data,
         NEW m, m = PushOne([h |-> h, v |-> v], x)
  PROVE  Extends(h, m.h) /\ \E B : Good(m.h, m.v, B, Append(E, x))
<1>1. Len(h[v.tail]) \in 0 .. Width /\ Width \in Nat /\ v.cnt = Len(E) /\ Len(E) \in Nat /\ E \in Seq(Data) /\ Heap(h)
  BY GoodRows, VectorAssumption DEF Good, Upright
<1>2. CASE Len(h[v.tail]) < Width
  <2> DEFINE s == Append(A[0], v.tail)  y == Append(h[v.tail], x)
             g == New(h, y).h  n == New(h, y).n  F == Append(E, x)
  <2>1. h[v.tail] \in Seq(Data) /\ s[Len(s)] = v.tail
    BY GoodRows
  <2>2. y \in Seq(Data) /\ Len(y) = Len(h[v.tail]) + 1
    BY <2>1, AppendFacts
  <2>3. /\ Filled(h, s) /\ Rows(h, s, E) /\ y = Append(h[s[Len(s)]], x)
        /\ Len(h[s[Len(s)]]) < Width
    BY <1>2, <2>1 DEF Good, Upright
  <2>4. F \in Seq(Data) /\ Len(F) = v.cnt + 1
    BY <1>1, AppendFacts
  <2> HIDE DEF y
  <2>5. Extends(h, g) /\ n \in 1 .. Len(g) /\ g[n] = y
    BY <1>1, <2>2, NewFacts
  <2> HIDE DEF g, n
  <2>6. [s EXCEPT ![Len(s)] = n] = Append(A[0], n)
    <3> DEFINE q == A[0]  u == v.tail
    <3>1. q \in Seq(Nat) /\ u \in Nat /\ n \in Nat /\ Len(s) = Len(q) + 1
      <4>1. q \in Seq(1 .. Len(h)) /\ u \in 1 .. Len(h) /\ Len(s) = Len(q) + 1
        <5>1. 0 \in 0 .. v.shift
          BY GoodRows
        <5> QED BY <5>1, GoodRows
      <4>2. \A c \in 1 .. Len(q) : q[c] \in Nat
        BY <4>1
      <4>3. q \in Seq(Nat)
        BY <4>1, <4>2, SeqOther
      <4> QED BY <2>5, <4>1, <4>3
    <3> HIDE DEF q, u
    <3>2. [Append(q, u) EXCEPT ![Len(q) + 1] = n] = Append(q, n)
      BY <3>1, AppendSet
    <3> QED BY <3>1, <3>2 DEF q, u
  <2> DEFINE s1 == Append(A[0], n)
  <2>7. s1 = [s EXCEPT ![Len(s)] = n] /\ F = Append(E, x)
    BY <2>6
  <2>8. y # <<>>
    BY <1>1, <2>2
  <2> HIDE DEF s, s1, F
  <2>9. Filled(g, s1) /\ Rows(g, s1, F)
    BY <1>1, <2>3, <2>5, <2>7, RowsLonger
  <2>10. Good(g, [v EXCEPT !.cnt = Len(F), !.tail = n], A, F)
    BY <2>4, <2>5, <2>8, <2>9, TailGood DEF s1
  <2>11. m = [h |-> g, v |-> [v EXCEPT !.cnt = @ + 1, !.tail = n]]
    BY <1>2 DEF PushOne, Longer, g, n, y
  <2>12. [v EXCEPT !.cnt = @ + 1, !.tail = n] = [v EXCEPT !.cnt = Len(F), !.tail = n]
    <3>1. v \in [cnt : Nat, shift : Nat, root : Nat, tail : Nat]
      BY DEF Good, Upright
    <3> QED BY <2>4, <3>1
  <2> QED BY <2>5, <2>10, <2>11, <2>12 DEF F
<1>3. CASE ~(Len(h[v.tail]) < Width)
  <2> DEFINE made == NewSpine(h, v)
             end == New(h \o made, <<x>>)
             w == [cnt |-> v.cnt + 1, tail |-> end.n, shift |-> Len(made), root |-> Len(h) + Len(made)]
  <2>1. Len(h[v.tail]) = Width
    BY <1>1, <1>3
  <2>2. m = [h |-> end.h, v |-> w]
    BY <1>3 DEF PushOne
  <2>3. made = NewSpine(h, v) /\ end = New(h \o made, <<x>>)
        /\ w = [cnt |-> v.cnt + 1, tail |-> end.n, shift |-> Len(made), root |-> Len(h) + Len(made)]
    OBVIOUS
  <2> HIDE DEF made, end, w
  <2>4. Extends(h, end.h) /\ \E B : Good(end.h, w, B, Append(E, x))
    BY <2>1, <2>3, GrowGood
  <2> QED BY <2>2, <2>4
<1> QED BY <1>2, <1>3

\* In a tree that has more than one level of nodes, every row below the root has two.
LEMMA WideGood ==
  ASSUME NEW h, NEW v, NEW A, NEW E, Good(h, v, A, E), v.shift > 1
  PROVE  \A l \in 0 .. v.shift - 1 : Len(A[l]) > 1
<1> DEFINE S == {k \in Nat : k <= v.shift - 1 => Len(A[v.shift - 1 - k]) > 1}
<1>1. v.shift \in Nat /\ v.shift \in 1 .. v.shift /\ A[v.shift] = <<v.root>>
  BY GoodRows
<1>2. 0 \in S
  <2> DEFINE z == Len(h[v.root])
  <2>1. A[v.shift][Len(A[v.shift])] = v.root /\ Len(A[v.shift]) = 1
    BY <1>1
  <2>2. Len(A[v.shift - 1]) = Pos(1, z) /\ z \in 0 .. Width
    BY <1>1, <2>1, LastGood DEF Rows
  <2>3. z \in Nat /\ z > 1
    <3>1. z > 1
      BY DEF Good
    <3> QED BY <2>2, <3>1, VectorAssumption
  <2> HIDE DEF z
  <2>4. Pos(1, z) = z
    BY <2>3, PosFacts
  <2>5. v.shift - 1 - 0 = v.shift - 1
    BY <1>1
  <2> QED BY <2>2, <2>3, <2>4, <2>5
<1>3. ASSUME NEW k \in Nat, k \in S PROVE k + 1 \in S
  <2>1. CASE k + 1 <= v.shift - 1
    <3>1. PICK l \in 1 .. v.shift : l = v.shift - 1 - k /\ l - 1 = v.shift - 1 - (k + 1) /\ k <= v.shift - 1
      <4> DEFINE l == v.shift - 1 - k
      <4>1. l \in 1 .. v.shift /\ l - 1 = v.shift - 1 - (k + 1) /\ k <= v.shift - 1
        BY <1>1, <2>1
      <4> QED BY <4>1
    <3> DEFINE c == Len(A[l])  z == Len(h[A[l][Len(A[l])]])
    <3>2. c > 1
      BY <1>3, <3>1
    <3>3. c \in Nat \ {0} /\ z \in 0 .. Width /\ Len(A[l - 1]) = Pos(c, z)
      BY LastGood DEF Rows
    <3> HIDE DEF c, z
    <3>4. Pos(1, Width) <= Pos(c, 0) /\ Pos(c, 0) \in Nat /\ 1 \in Nat \ {0} /\ Width \in 0 .. Width
      BY <3>2, <3>3, PosOrder, VectorAssumption
    <3>5. Pos(c, z) = Pos(c, 0) + z /\ Pos(1, Width) = Width
      BY <3>3, PosFacts, VectorAssumption
    <3>6. Len(A[l - 1]) > 1
      BY <3>3, <3>4, <3>5, VectorAssumption
    <3> QED BY <3>1, <3>6
  <2>2. CASE ~(k + 1 <= v.shift - 1)
    BY <2>2
  <2> QED BY <2>1, <2>2
<1>4. Nat \subseteq S
  <2> HIDE DEF S
  <2> QED BY <1>2, <1>3, Induction
<1>5. ASSUME NEW l \in 0 .. v.shift - 1 PROVE Len(A[l]) > 1
  <2>1. v.shift - 1 - l \in Nat /\ v.shift - 1 - l <= v.shift - 1 /\ v.shift - 1 - (v.shift - 1 - l) = l
    BY <1>1
  <2>2. v.shift - 1 - l \in S
    BY <1>4, <2>1
  <2> QED BY <2>1, <2>2
<1> QED BY <1>5

LEMMA OthersFacts ==
  ASSUME NEW h, NEW v, NEW A, NEW E, Good(h, v, A, E)
  PROVE  /\ Others(h, v) \in 1 .. v.shift + 1
         /\ \A l \in 1 .. v.shift : /\ l < Others(h, v) => Len(h[A[l][Len(A[l])]]) = 1
                                    /\ l = Others(h, v) => Len(h[A[l][Len(A[l])]]) # 1
<1> DEFINE S == {l \in 1 .. v.shift + 1 : l = v.shift + 1 \/ Len(h[Spine(h, v)[l]]) # 1}
<1>1. v.shift \in Nat /\ v.shift + 1 \in S
  BY GoodRows
<1>2. S \subseteq Nat /\ S # {}
  BY <1>1
<1>3. Others(h, v) = Min(S)
  BY DEF Others
<1>4. Others(h, v) \in S /\ \A y \in S : Others(h, v) <= y
  <2> HIDE DEF S
  <2> QED BY <1>2, <1>3, MinFacts
<1>5. ASSUME NEW l \in 1 .. v.shift
      PROVE  /\ l < Others(h, v) => Len(h[A[l][Len(A[l])]]) = 1
             /\ l = Others(h, v) => Len(h[A[l][Len(A[l])]]) # 1
  <2>1. h[Spine(h, v)[l]] = h[A[l][Len(A[l])]] /\ l \in Nat
    BY LastGood
  <2>2. l < Others(h, v) => Len(h[A[l][Len(A[l])]]) = 1
    <3> SUFFICES ASSUME l < Others(h, v), Len(h[Spine(h, v)[l]]) # 1 PROVE FALSE
      BY <2>1
    <3>1. l \in S
      BY <1>1
    <3>2. Others(h, v) <= l /\ Others(h, v) \in Nat
      BY <1>2, <1>4, <3>1
    <3> HIDE DEF S
    <3> QED BY <2>1, <3>2
  <2>3. l = Others(h, v) => Len(h[A[l][Len(A[l])]]) # 1
    <3> SUFFICES ASSUME l = Others(h, v) PROVE Len(h[A[l][Len(A[l])]]) # 1
      OBVIOUS
    <3>1. l # v.shift + 1
      BY <1>1
    <3>2. Len(h[Spine(h, v)[l]]) # 1
      BY <1>4, <3>1
    <3> HIDE DEF S
    <3> QED BY <2>1, <3>2
  <2> QED BY <2>2, <2>3
<1>6. Others(h, v) \in 1 .. v.shift + 1
  BY <1>4
<1> QED BY <1>5, <1>6

\* The nodes that a pop of the only element of the tail makes, and the rows with them.
Cut(h, A, N, made, o) ==
  /\ made \in Seq(Seq(Data)) /\ Len(made) = N - o + 1
  /\ N > 1 => Len(h[A[o][Len(A[o])]]) > 1
  /\ \A l \in 1 .. N :
       /\ l < o => Len(h[A[l][Len(A[l])]]) = 1
       /\ h[A[l][Len(A[l])]] # <<>>
       /\ l = o => made[1] = Front(h[A[l][Len(A[l])]])
       /\ l > o => made[l - o + 1] = [h[A[l][Len(A[l])]] EXCEPT ![Len(h[A[l][Len(A[l])]])] = Len(h) + l - o]

LEMMA CutMade ==
  ASSUME NEW h, NEW v, NEW A, NEW E, Good(h, v, A, E), A[0] # <<>>,
         NEW made, made = CutSpine(h, v)
  PROVE  \E o \in 1 .. v.shift : Cut(h, A, v.shift, made, o)
<1> DEFINE N == v.shift
           last(l) == h[A[l][Len(A[l])]]
           o == Others(h, v)
           sp(l) == h[Spine(h, v)[l]]
<1>1. N \in Nat /\ N >= 1 /\ N \in 1 .. N /\ 1 \in 1 .. N /\ Heap(h) /\ Len(h) \in Nat
  BY GoodRows
<1>2. \A l \in 1 .. N : last(l) \in Seq(Data) /\ last(l) # <<>> /\ Len(last(l)) \in Nat /\ Len(last(l)) >= 1 /\ sp(l) = last(l)
  <2> TAKE l \in 1 .. N
  <2>1. last(l) # <<>>
    BY DEF Good, Upright
  <2>2. last(l) \in Seq(Data) /\ sp(l) = last(l)
    BY LastGood
  <2> HIDE DEF last, sp
  <2> QED BY <2>1, <2>2
<1>3. o \in 1 .. N + 1 /\ \A l \in 1 .. N : (l < o => Len(last(l)) = 1) /\ (l = o => Len(last(l)) # 1)
  BY OthersFacts
<1>4. o > N => N = 1
  <2> SUFFICES ASSUME o > N, N # 1 PROVE FALSE
    OBVIOUS
  <2>1. Len(last(N)) = 1
    BY <1>1, <1>3
  <2>2. last(N) = h[v.root]
    <3>1. A[N] = <<v.root>>
      BY GoodRows
    <3> QED BY <3>1
  <2>3. N > 1
    BY <1>1
  <2>4. Len(h[v.root]) > 1
    BY <2>3 DEF Good
  <2>5. Len(h[v.root]) = 1
    BY <2>1, <2>2
  <2> HIDE DEF last, N
  <2> QED BY <2>4, <2>5
<1> DEFINE r(p, k) == IF k = 1 THEN Front(sp(p)) ELSE [sp(p) EXCEPT ![Len(sp(p))] = Len(h) + k - 1]
<1>5. made = IF o > N THEN <<<<>>>> ELSE [k \in 1 .. N - o + 1 |-> r(o + k - 1, k)]
  BY DEF CutSpine
<1> HIDE DEF o, sp
<1>6. CASE o > N
  <2>1. N = 1 /\ Len(last(1)) = 1 /\ made = <<<<>>>>
    BY <1>1, <1>3, <1>4, <1>5, <1>6
  <2>2. Front(last(1)) = <<>>
    <3> HIDE DEF last
    <3>1. Front(last(1)) \in Seq(Data) /\ Len(Front(last(1))) = Len(last(1)) - 1
      BY <1>1, <1>2, FrontFacts
    <3> QED BY <2>1, <3>1
  <2>3. made \in Seq(Seq(Data)) /\ Len(made) = 1 /\ made[1] = <<>>
    <3>1. <<>> \in Seq(Data)
      OBVIOUS
    <3> QED BY <2>1, <3>1, OneFacts
  <2>4. Len(made) = v.shift - 1 + 1 /\ ~(v.shift > 1)
    BY <2>1, <2>3
  <2>5. ASSUME NEW l \in 1 .. v.shift
        PROVE  ~(l < 1) /\ last(l) # <<>> /\ (l = 1 => made[1] = Front(last(l))) /\ ~(l > 1)
    <3>1. l = 1
      BY <2>1
    <3> QED BY <1>2, <2>2, <2>3, <3>1
  <2> HIDE DEF last
  <2>6. 1 \in 1 .. v.shift
    BY <1>1
  <2>7. \A l \in 1 .. v.shift :
          /\ l < 1 => Len(last(l)) = 1
          /\ last(l) # <<>>
          /\ l = 1 => made[1] = Front(last(l))
          /\ l > 1 => made[l - 1 + 1] = [last(l) EXCEPT ![Len(last(l))] = Len(h) + l - 1]
    BY <2>5
  <2> QED BY <2>3, <2>4, <2>6, <2>7 DEF last, Cut
<1>7. CASE o <= N
  <2>1. o \in 1 .. N /\ o \in Nat /\ N - o + 1 \in Nat
    BY <1>1, <1>3, <1>7
  <2>2. made = [k \in 1 .. N - o + 1 |-> r(o + k - 1, k)]
    BY <1>1, <1>5, <2>1
  <2>3. ASSUME NEW l \in o .. N
        PROVE  /\ l \in 1 .. N /\ l - o + 1 \in 1 .. N - o + 1
               /\ l = o => made[1] = Front(last(l))
               /\ l > o => made[l - o + 1] = [last(l) EXCEPT ![Len(last(l))] = Len(h) + l - o]
    <3> DEFINE k == l - o + 1
    <3>1. l \in 1 .. N /\ k \in 1 .. N - o + 1 /\ o + k - 1 = l /\ (k = 1 <=> l = o) /\ Len(h) + k - 1 = Len(h) + l - o
      BY <1>1, <2>1
    <3>2. sp(l) = last(l)
      BY <1>2, <3>1
    <3> HIDE DEF k
    <3>3. made[k] = r(l, k)
      BY <2>2, <3>1
    <3> HIDE DEF last, sp
    <3>4. l = o => made[1] = Front(last(l))
      BY <3>1, <3>2, <3>3
    <3>5. l > o => made[k] = [last(l) EXCEPT ![Len(last(l))] = Len(h) + l - o]
      <4> SUFFICES ASSUME l > o PROVE made[k] = [last(l) EXCEPT ![Len(last(l))] = Len(h) + l - o]
        OBVIOUS
      <4>1. k # 1
        BY <2>1, <3>1
      <4> QED BY <3>1, <3>2, <3>3, <4>1
    <3> QED BY <3>1, <3>4, <3>5 DEF k
  <2> HIDE DEF last, r
  <2>4. ASSUME NEW k \in 1 .. N - o + 1 PROVE made[k] \in Seq(Data)
    <3>1. PICK l \in o .. N : k = l - o + 1
      <4>1. o + k - 1 \in o .. N /\ k = (o + k - 1) - o + 1
        BY <1>1, <2>1
      <4> QED BY <4>1
    <3>2. l \in 1 .. N
      BY <2>3
    <3>3. last(l) \in Seq(Data) /\ last(l) # <<>> /\ Len(last(l)) \in 1 .. Len(last(l))
      BY <1>2, <3>2
    <3>4. CASE l = o
      <4>1. k = 1
        BY <2>1, <3>1, <3>4
      <4>2. made[1] = Front(last(l))
        BY <2>3, <3>4
      <4> QED BY <3>3, <4>1, <4>2, FrontFacts
    <3>5. CASE l > o
      <4> DEFINE x == Len(h) + l - o
      <4>1. x \in Data
        <5>1. x \in Nat
          BY <1>1, <2>1, <3>5
        <5> QED BY <5>1 DEF Data
      <4>2. made[k] = [last(l) EXCEPT ![Len(last(l))] = x]
        BY <2>3, <3>1, <3>5
      <4> HIDE DEF x
      <4> QED BY <3>3, <4>1, <4>2, ExceptFacts
    <3> QED BY <2>1, <3>4, <3>5
  <2>5. made \in Seq(Seq(Data)) /\ Len(made) = N - o + 1
    <3> DEFINE n == N - o + 1
    <3>1. made = [k \in 1 .. n |-> made[k]] /\ n \in Nat
      BY <2>1, <2>2
    <3> HIDE DEF n
    <3>2. \A k \in 1 .. n : made[k] \in Seq(Data)
      BY <2>4 DEF n
    <3>3. made \in Seq(Seq(Data)) /\ Len(made) = n
      BY <3>1, <3>2, SeqFacts
    <3> QED BY <3>3 DEF n
  <2>6. Len(last(o)) > 1
    <3>1. Len(last(o)) \in Nat /\ Len(last(o)) >= 1 /\ Len(last(o)) # 1
      BY <1>2, <1>3, <2>1
    <3> QED BY <3>1
  <2>7. ASSUME NEW l \in 1 .. N
        PROVE  /\ l < o => Len(last(l)) = 1
               /\ last(l) # <<>>
               /\ l = o => made[1] = Front(last(l))
               /\ l > o => made[l - o + 1] = [last(l) EXCEPT ![Len(last(l))] = Len(h) + l - o]
    <3>1. l = o \/ l > o => l \in o .. N
      BY <1>1, <2>1
    <3> QED BY <1>2, <1>3, <2>3, <3>1
  <2> QED BY <2>1, <2>5, <2>6, <2>7 DEF last, Cut
<1>8. o > N \/ o <= N
  BY <1>1, <1>3
<1> QED BY <1>6, <1>7, <1>8

\* The tree that is left when the last leaf becomes the tail, before its root is left
\* out if it has one child.
Trimmed(h, v, made) ==
  [cnt |-> v.cnt - 1, shift |-> v.shift, root |-> Len(h) + Len(made), tail |-> Spine(h, v)[0]]

Topped(g, w, made) == made # <<>> /\ g[w.root] = made[Len(made)]

Cropped(g, w, B, F) ==
  /\ Upright(g, w, B, F)
  /\ w.shift > 1 /\ Len(g[w.root]) = 1 =>
       \A l \in 1 .. w.shift - 1 : Len(g[B[l][Len(B[l])]]) = Width

LEMMA CutGood ==
  ASSUME NEW h, NEW v, NEW A, NEW E, Good(h, v, A, E), v.cnt # 1, Len(h[v.tail]) = 1,
         NEW made, made = CutSpine(h, v), NEW g, g = h \o made,
         NEW w, w = Trimmed(h, v, made)
  PROVE  /\ Extends(h, g) /\ Topped(g, w, made)
         /\ \E B : Cropped(g, w, B, Front(E))
<1> DEFINE N == v.shift
           last(l) == h[A[l][Len(A[l])]]
           s0 == Append(A[0], v.tail)
           F == Front(E)
<1>w. w = [cnt |-> v.cnt - 1, shift |-> v.shift, root |-> Len(h) + Len(made), tail |-> Spine(h, v)[0]]
  BY DEF Trimmed
<1>1. /\ Heap(h) /\ Len(h) \in Nat /\ N \in Nat /\ N >= 1 /\ N \in 1 .. N /\ 1 \in 1 .. N /\ 0 \in 0 .. N
      /\ A[N] = <<v.root>> /\ v.cnt = Len(E) /\ Len(E) \in Nat /\ E \in Seq(Data)
      /\ Filled(h, s0) /\ Rows(h, s0, E) /\ s0 \in Seq(1 .. Len(h)) /\ v.tail \in 1 .. Len(h)
  <2>1. /\ Heap(h) /\ Len(h) \in Nat /\ N \in Nat /\ N >= 1 /\ A[N] = <<v.root>> /\ v.cnt = Len(E) /\ Len(E) \in Nat
        /\ s0 \in Seq(1 .. Len(h)) /\ v.tail \in 1 .. Len(h)
    BY GoodRows
  <2> QED BY <2>1 DEF Good, Upright
<1>2. /\ A[0] \in Seq(1 .. Len(h)) /\ Len(A[0]) \in Nat /\ Len(s0) = Len(A[0]) + 1 /\ s0[Len(s0)] = v.tail
      /\ s0[Len(A[0]) + 1] = v.tail
  BY <1>1, GoodRows
<1>3. A[0] # <<>> /\ Len(A[0]) >= 1 /\ Len(s0) > 1
  <2> SUFFICES ASSUME A[0] = <<>> PROVE FALSE
    BY <1>2
  <2>1. Len(s0) = 1
    BY <1>2
  <2>2. Len(E) = Pos(1, 1)
    BY <1>1, <1>2, <2>1 DEF Rows
  <2>3. Pos(1, 1) = 1
    BY PosFacts
  <2> QED BY <1>1, <2>2, <2>3
<1>4. PICK o \in 1 .. v.shift : Cut(h, A, v.shift, made, o)
  BY <1>3, CutMade
<1>c. made \in Seq(Seq(Data)) /\ Len(made) = N - o + 1
  BY <1>4 DEF Cut
<1>5. o \in Nat /\ o >= 1 /\ o <= N /\ N - o + 1 \in Nat
  BY <1>1
<1>6. \A l \in 1 .. N :
        /\ l < o => Len(last(l)) = 1
        /\ last(l) \in Seq(Data) /\ last(l) # <<>> /\ Len(last(l)) \in 1 .. Len(last(l)) /\ Len(last(l)) >= 1
        /\ l = o => made[1] = Front(last(l))
        /\ l > o => made[l - o + 1] = [last(l) EXCEPT ![Len(last(l))] = Len(h) + l - o]
  <2> TAKE l \in 1 .. N
  <2>1. /\ l < o => Len(last(l)) = 1
        /\ last(l) # <<>>
        /\ l = o => made[1] = Front(last(l))
        /\ l > o => made[l - o + 1] = [last(l) EXCEPT ![Len(last(l))] = Len(h) + l - o]
    BY <1>4 DEF Cut
  <2>2. last(l) \in Seq(Data)
    BY LastGood
  <2> HIDE DEF last
  <2>3. Len(last(l)) \in 1 .. Len(last(l)) /\ Len(last(l)) >= 1
    BY <2>1, <2>2
  <2> QED BY <2>1, <2>2, <2>3
<1>7. N > 1 => Len(last(o)) > 1
  BY <1>4 DEF Cut
<1>8. /\ Extends(h, g) /\ Heap(g) /\ Len(g) \in Nat /\ Len(h) <= Len(g)
      /\ \A k \in 1 .. N - o + 1 : Len(h) + k \in 1 .. Len(g) /\ g[Len(h) + k] = made[k]
  <2>1. /\ Extends(h, g)
        /\ \A k \in 1 .. Len(made) : Len(h) + k \in 1 .. Len(g) /\ g[Len(h) + k] = made[k]
    BY <1>1, <1>c, MadeFacts
  <2> QED BY <1>c, <2>1 DEF Extends, Heap
<1> HIDE DEF last
<1> DEFINE a == [l \in o .. N |-> Len(h) + (l - o + 1)]
<1>9. ASSUME NEW l \in o .. N
      PROVE  /\ l \in 1 .. N /\ l \in 0 .. N /\ a[l] \in 1 .. Len(g) /\ g[a[l]] = made[l - o + 1]
             /\ l > o => a[l - 1] = Len(h) + l - o /\ a[l - 1] \in Nat
  <2>0. N \in Nat /\ o \in Nat /\ o >= 1 /\ l \in Nat /\ l >= o /\ l <= N
    BY <1>1, <1>5
  <2>1. l \in 1 .. N /\ l \in 0 .. N /\ l - o + 1 \in 1 .. N - o + 1 /\ (l > o => l - 1 \in o .. N)
    BY ONLY <2>0
  <2>2. a[l] = Len(h) + (l - o + 1) /\ (l > o => a[l - 1] = Len(h) + ((l - 1) - o + 1))
    BY <2>1
  <2> HIDE DEF a
  <2>3. l > o => Len(h) + ((l - 1) - o + 1) = Len(h) + l - o /\ Len(h) + l - o \in Nat
    <3>1. Len(h) \in Nat
      BY <1>1
    <3> QED BY ONLY <2>0, <3>1
  <2> QED BY <1>8, <2>1, <2>2, <2>3
<1>10. a[N] = Len(h) + Len(made) /\ Len(made) \in 1 .. Len(made) /\ Len(made) >= 1
  <2>1. N \in o .. N
    BY <1>1, <1>5
  <2>2. a[N] = Len(h) + (N - o + 1)
    BY <2>1
  <2>3. Len(made) = N - o + 1 /\ N - o + 1 \in Nat /\ N - o + 1 >= 1
    BY <1>c, <1>1, <1>5
  <2> HIDE DEF a
  <2>4. Len(made) \in Nat /\ Len(made) >= 1
    BY <2>3
  <2>5. a[N] = Len(h) + Len(made)
    BY <2>2, <2>3
  <2> HIDE DEF N
  <2> QED BY <2>4, <2>5
<1> HIDE DEF a
<1> DEFINE B == [l \in 0 .. N |-> IF l < o THEN Front(A[l]) ELSE [A[l] EXCEPT ![Len(A[l])] = a[l]]]
<1>11. ASSUME NEW l \in 0 .. N
       PROVE  /\ l < o => B[l] = Front(A[l])
              /\ l >= o => B[l] = [A[l] EXCEPT ![Len(A[l])] = a[l]] /\ l \in o .. N /\ l \in 1 .. N
              /\ (l < o \/ l >= o) /\ l \in Nat
  <2>1. (l >= o => ~(l < o) /\ l \in o .. N /\ l \in 1 .. N) /\ (l < o \/ l >= o) /\ l \in Nat
    BY <1>1, <1>5
  <2> QED BY <2>1
<1>12. B = [l \in 0 .. N |-> B[l]]
  OBVIOUS
<1> HIDE DEF B
<1>13. ASSUME NEW l \in 0 .. N
       PROVE  A[l] \in Seq(1 .. Len(g)) /\ A[l] # <<>> /\ Len(A[l]) \in 1 .. Len(A[l]) /\ Len(A[l]) \in Nat
  <2>1. A[l] \in Seq(1 .. Len(h))
    BY GoodRows
  <2>2. \A c \in 1 .. Len(A[l]) : A[l][c] \in 1 .. Len(g)
    <3>1. \A c \in 1 .. Len(A[l]) : A[l][c] \in 1 .. Len(h)
      BY <2>1
    <3>2. \A c \in 1 .. Len(h) : c \in 1 .. Len(g)
      BY <1>1, <1>8
    <3> QED BY <3>1, <3>2
  <2>3. A[l] \in Seq(1 .. Len(g))
    BY <2>1, <2>2, SeqOther
  <2>4. A[l] # <<>>
    <3>1. CASE l = 0
      BY <1>3, <3>1
    <3>2. CASE l # 0
      <4>1. Filled(h, A[l])
        BY <3>2, GoodRows
      <4> QED BY <4>1 DEF Filled
    <3> QED BY <3>1, <3>2
  <2> DEFINE q == A[l]
  <2> HIDE DEF q
  <2>5. q \in Seq(1 .. Len(g)) /\ q # <<>>
    BY <2>3, <2>4 DEF q
  <2>6. Len(q) \in 1 .. Len(q) /\ Len(q) \in Nat
    BY <2>5, NoneFacts
  <2> QED BY <2>5, <2>6 DEF q
<1>14. ASSUME NEW l \in 0 .. N
       PROVE  B[l] \in Seq(1 .. Len(g)) /\ (l >= o => B[l][Len(B[l])] = a[l])
  <2>1. CASE l < o
    <3>1. B[l] = Front(A[l])
      BY <1>11, <2>1
    <3>3. ~(l >= o)
      <4>1. l \in Nat
        BY <1>11
      <4> QED BY <1>5, <2>1, <4>1
    <3>2. Front(A[l]) \in Seq(1 .. Len(g))
      BY <1>13, FrontFacts
    <3> QED BY <3>1, <3>2, <3>3
  <2>2. CASE l >= o
    <3>1. B[l] = [A[l] EXCEPT ![Len(A[l])] = a[l]] /\ a[l] \in 1 .. Len(g)
      BY <1>9, <1>11, <2>2
    <3> DEFINE q == A[l]  n == a[l]
    <3>2. q \in Seq(1 .. Len(g)) /\ n \in 1 .. Len(g) /\ Len(q) \in 1 .. Len(q) /\ B[l] = [q EXCEPT ![Len(q)] = n]
      BY <1>13, <3>1
    <3> HIDE DEF q, n
    <3>3. /\ [q EXCEPT ![Len(q)] = n] \in Seq(1 .. Len(g)) /\ Len([q EXCEPT ![Len(q)] = n]) = Len(q)
          /\ [q EXCEPT ![Len(q)] = n][Len(q)] = n
      BY <3>2, ExceptFacts
    <3> QED BY <3>2, <3>3 DEF n
  <2> QED BY <1>11, <2>1, <2>2
<1>15. ASSUME NEW l \in 1 .. N, l < o
       PROVE  Len(A[l]) > 1 /\ N > 1 /\ l \in 0 .. N - 1 /\ Len(h[A[l][Len(A[l])]]) = 1
  <2>1. N > 1 /\ l \in 0 .. N - 1
    BY <1>1, <1>5, <1>15
  <2>2. Len(A[l]) > 1
    BY <2>1, WideGood
  <2>3. Len(h[A[l][Len(A[l])]]) = 1
    BY <1>6, <1>15 DEF last
  <2> QED BY <2>1, <2>2, <2>3
<1>16. ASSUME NEW l \in 1 .. N PROVE Filled(g, B[l]) /\ Rows(g, B[l], B[l - 1])
  <2> DEFINE s == A[l]  t == A[l - 1]  s1 == B[l]  t1 == B[l - 1]
  <2>1. /\ l \in 0 .. N /\ l - 1 \in 0 .. N /\ l \in Nat /\ l - 1 < l
        /\ Filled(h, s) /\ Rows(h, s, t) /\ t \in Seq(Nat) /\ Len(s) \in 1 .. Len(s)
        /\ last(l) = h[s[Len(s)]]
    <3>1. l - 1 < l
      BY <1>1
    <3> QED BY <3>1, LastGood DEF last
  <2>2. CASE l < o
    <3>1. Len(s) > 1 /\ Len(h[s[Len(s)]]) = 1 /\ s1 = Front(s) /\ t1 = Front(t)
      <4>1. l - 1 < o
        BY <1>5, <2>1, <2>2
      <4>2. s1 = Front(s) /\ t1 = Front(t)
        BY <1>11, <2>1, <2>2, <4>1
      <4> QED BY <1>15, <2>2, <4>2
    <3> HIDE DEF s, t, s1, t1
    <3>2. Filled(h, s1) /\ Rows(h, s1, t1)
      BY <1>1, <2>1, <3>1, RowsCut
    <3>3. Filled(g, s1) /\ Rows(g, s1, t1)
      BY <1>8, <3>2, ExtendRows
    <3> QED BY <3>3 DEF s1, t1
  <2>3. CASE l = o
    <3> DEFINE n == a[l]
    <3>1. l - 1 < o /\ l >= o /\ l \in o .. N /\ l - o + 1 = 1
      BY <1>1, <1>5, <2>1, <2>3
    <3>2. n \in 1 .. Len(g) /\ g[n] = Front(h[s[Len(s)]]) /\ h[s[Len(s)]] # <<>>
      <4>1. n \in 1 .. Len(g) /\ g[n] = made[1]
        BY <1>9, <3>1
      <4>2. made[1] = Front(last(l)) /\ last(l) # <<>>
        BY <1>6, <2>3
      <4> QED BY <2>1, <4>1, <4>2
    <3>3. s1 = [s EXCEPT ![Len(s)] = n] /\ t1 = Front(t)
      BY <1>11, <2>1, <3>1
    <3> HIDE DEF s, t, s1, t1, n
    <3>4. Filled(g, s1) /\ Rows(g, s1, t1)
      BY <1>8, <2>1, <3>2, <3>3, RowsShorter
    <3> QED BY <3>4 DEF s1, t1
  <2>4. CASE l > o
    <3> DEFINE n == a[l]  y == a[l - 1]  b == Len(s)  d == Len(last(l))
    <3>1. l >= o /\ l \in o .. N /\ l - 1 >= o
      BY <1>1, <1>5, <2>1, <2>4
    <3>2. n \in 1 .. Len(g) /\ g[n] = made[l - o + 1] /\ y = Len(h) + l - o /\ y \in Nat
      BY <1>9, <2>4, <3>1
    <3>3. last(l) \in Seq(Data) /\ d \in 1 .. Len(last(l)) /\ made[l - o + 1] = [last(l) EXCEPT ![d] = y]
      BY <1>6, <2>4, <3>2
    <3>4. Copy(g[n], h[s[b]], d, y)
      <4> DEFINE q == last(l)
      <4>1. q \in Seq(Data) /\ d \in 1 .. Len(q) /\ y \in Data
        BY <3>2, <3>3 DEF Data
      <4>2. Copy([q EXCEPT ![d] = y], q, d, y)
        <5> HIDE DEF q, y, d
        <5> QED BY <4>1, CopyFacts
      <4> QED BY <2>1, <3>2, <3>3, <4>2
    <3>5. s1 = [s EXCEPT ![b] = n] /\ t1 = [t EXCEPT ![Len(t)] = y]
      BY <1>11, <2>1, <3>1
    <3>6. Len(t) = Pos(b, d)
      BY <2>1 DEF Rows
    <3>7. d \in 1 .. Len(h[s[b]]) /\ b \in 1 .. Len(s) /\ t1 = [t EXCEPT ![Pos(b, d)] = y]
      BY <2>1, <3>3, <3>5, <3>6
    <3>8. s1 = [s EXCEPT ![b] = n]
      BY <3>5
    <3>10. Filled(h, s) /\ Rows(h, s, t) /\ t \in Seq(Nat) /\ Extends(h, g)
      BY <1>8, <2>1
    <3>11. n \in 1 .. Len(g) /\ y \in Nat
      BY <3>2
    <3> HIDE DEF s, t, s1, t1, n, y, b, d
    <3>9. Filled(g, s1) /\ Rows(g, s1, t1)
      BY <3>4, <3>7, <3>8, <3>10, <3>11, RowsSet
    <3> QED BY <3>9 DEF s1, t1
  <2> QED BY <1>5, <2>1, <2>2, <2>3, <2>4
<1>17. E # <<>> /\ F \in Seq(Data) /\ Len(F) = Len(E) - 1 /\ Len(F) \in Nat
       /\ Filled(g, A[0]) /\ Rows(g, A[0], F)
  <2> DEFINE s1 == A[0]
  <2>1. s1 = Front(s0)
    <3> DEFINE q == A[0]  u == v.tail
    <3>1. q \in Seq(Nat) /\ u \in Nat
      <4>1. q \in Seq(1 .. Len(h)) /\ u \in 1 .. Len(h)
        BY <1>1, <1>2
      <4>2. \A c \in 1 .. Len(q) : q[c] \in Nat
        BY <4>1
      <4>3. q \in Seq(Nat)
        BY <4>1, <4>2, SeqOther
      <4> QED BY <4>1, <4>3
    <3> HIDE DEF q, u
    <3> DEFINE p == Append(q, u)
    <3>2. p \in Seq(Nat) /\ Len(p) = Len(q) + 1 /\ p # <<>> /\ Len(q) \in Nat /\ \A i \in 1 .. Len(q) : p[i] = q[i]
      <4>1. p \in Seq(Nat) /\ Len(p) = Len(q) + 1 /\ Len(q) \in Nat /\ \A i \in 1 .. Len(q) : p[i] = q[i]
        BY <3>1, AppendFacts
      <4> HIDE DEF p
      <4> QED BY <4>1
    <3> HIDE DEF p
    <3>3. Front(p) \in Seq(Nat) /\ Len(Front(p)) = Len(q) /\ \A i \in 1 .. Len(q) : Front(p)[i] = q[i]
      <4>1. /\ Front(p) \in Seq(Nat) /\ Len(Front(p)) = Len(p) - 1
            /\ \A i \in 1 .. Len(p) - 1 : Front(p)[i] = p[i]
        BY <3>2, FrontFacts
      <4>2. Len(p) - 1 = Len(q)
        BY <3>2
      <4> QED BY <3>2, <4>1, <4>2
    <3>4. Front(p) = q
      BY <3>1, <3>3, SameSeq
    <3> QED BY <3>4 DEF p, q, u
  <2>2. Len(h[s0[Len(s0)]]) = 1
    BY <1>2
  <2>3. F = Front(E)
    OBVIOUS
  <2> HIDE DEF F, s0, s1
  <2>4. E # <<>> /\ Filled(h, s1) /\ Rows(h, s1, F)
    BY <1>1, <1>3, <2>1, <2>2, <2>3, RowsCut
  <2>5. Filled(g, s1) /\ Rows(g, s1, F)
    BY <1>8, <2>4, ExtendRows
  <2>6. F \in Seq(Data) /\ Len(F) = Len(E) - 1 /\ Len(E) - 1 \in Nat
    BY <1>1, <2>3, <2>4, FrontFacts
  <2> QED BY <2>4, <2>5, <2>6 DEF s1
<1> HIDE DEF F, s0
<1>18. /\ w.tail = Last(A[0]) /\ w.tail \in 1 .. Len(g) /\ Append(B[0], w.tail) = A[0] /\ g[w.tail] # <<>>
       /\ B[0] = Front(A[0])
  <2>1. w.tail = Last(A[0])
    BY <1>1, <1>w, SpineGood
  <2>2. B[0] = Front(A[0])
    <3>1. 0 < o /\ 0 \in 0 .. N
      BY <1>1, <1>5
    <3> QED BY <1>11, <3>1
  <2> DEFINE q == A[0]
  <2>3. q \in Seq(1 .. Len(h)) /\ q # <<>> /\ Len(q) \in 1 .. Len(q) /\ Len(h[q[Len(q)]]) = Width
    <3>1. Len(A[0]) \in 1 .. Len(A[0])
      BY <1>2, <1>3
    <3>2. Len(h[A[0][Len(A[0])]]) = Width
      <4>1. \A b \in 1 .. Len(A[0]) : Len(h[A[0][b]]) = Width
        BY LeavesFull
      <4> QED BY ONLY <3>1, <4>1
    <3>3. q \in Seq(1 .. Len(h)) /\ q # <<>>
      BY <1>2, <1>3
    <3> QED BY ONLY <3>1, <3>2, <3>3
  <2> HIDE DEF q
  <2>4. Last(q) = q[Len(q)] /\ Last(q) \in 1 .. Len(h) /\ Front(q) \in Seq(1 .. Len(h)) /\ Len(Front(q)) = Len(q) - 1
        /\ \A i \in 1 .. Len(q) - 1 : Front(q)[i] = q[i]
    BY <2>3, FrontFacts
  <2>5. Append(Front(q), Last(q)) = q
    <3> DEFINE p == Append(Front(q), Last(q))
    <3>1. /\ p \in Seq(1 .. Len(h)) /\ Len(p) = Len(Front(q)) + 1 /\ p[Len(Front(q)) + 1] = Last(q)
          /\ \A i \in 1 .. Len(Front(q)) : p[i] = Front(q)[i]
      BY <2>4, AppendFacts
    <3> HIDE DEF p
    <3>2. Len(p) = Len(q)
      BY <2>3, <2>4, <3>1
    <3>3. ASSUME NEW i \in 1 .. Len(p) PROVE p[i] = q[i]
      <4>1. i \in 1 .. Len(q) - 1 \/ i = Len(q)
        BY <2>3, <3>2
      <4> QED BY <2>3, <2>4, <3>1, <4>1
    <3>4. p = q
      BY <2>3, <3>1, <3>2, <3>3, SameSeq
    <3> QED BY <3>4 DEF p
  <2>6. g[Last(q)] # <<>> /\ Last(q) \in 1 .. Len(g)
    <3>1. g[Last(q)] = h[q[Len(q)]] /\ Last(q) \in 1 .. Len(g)
      BY <1>1, <1>8, <2>4 DEF Extends
    <3>2. Len(g[Last(q)]) = Width /\ Width # 0
      BY <2>3, <3>1, VectorAssumption
    <3>3. ASSUME NEW z, Len(z) # 0 PROVE z # <<>>
      BY <3>3
    <3> QED BY <3>1, <3>2, <3>3
  <2> QED BY <2>1, <2>2, <2>5, <2>6 DEF q
<1>19. ASSUME NEW l \in 1 .. N, l < o PROVE Len(g[B[l][Len(B[l])]]) = Width
  <2> DEFINE s == A[l]
  <2>1. l \in 0 .. N /\ Filled(h, s) /\ Len(s) > 1 /\ B[l] = Front(s) /\ s \in Seq(1 .. Len(h)) /\ s # <<>>
    <3>1. l \in 0 .. N
      BY <1>1
    <3>2. Filled(h, s)
      BY <3>1, LastGood
    <3> QED BY <1>11, <1>15, <1>19, <3>1, <3>2 DEF Filled
  <2> HIDE DEF s
  <2>2. Len(Front(s)) = Len(s) - 1 /\ Len(s) - 1 \in 1 .. Len(s) - 1 /\ Len(s) - 1 \in 1 .. Len(s) /\ Len(s) - 1 < Len(s)
        /\ Front(s)[Len(s) - 1] = s[Len(s) - 1]
    <3>1. Len(Front(s)) = Len(s) - 1 /\ \A i \in 1 .. Len(s) - 1 : Front(s)[i] = s[i]
      BY <2>1, FrontFacts
    <3>2. Len(s) - 1 \in 1 .. Len(s) - 1 /\ Len(s) - 1 \in 1 .. Len(s) /\ Len(s) - 1 < Len(s)
      BY <2>1
    <3> QED BY <3>1, <3>2
  <2>3. Len(h[s[Len(s) - 1]]) = Width
    BY <2>1, <2>2 DEF Filled
  <2>4. g[s[Len(s) - 1]] = h[s[Len(s) - 1]]
    BY <1>8, <2>1, <2>2 DEF Extends
  <2> QED BY <2>1, <2>2, <2>3, <2>4
<1>20. ASSUME NEW l \in o .. N
       PROVE  /\ g[B[l][Len(B[l])]] = made[l - o + 1] /\ made[l - o + 1] \in Seq(Data)
              /\ l = o => Len(made[l - o + 1]) = Len(last(l)) - 1
              /\ l > o => Len(made[l - o + 1]) = Len(last(l))
  <2>1. l \in 1 .. N /\ l \in 0 .. N /\ l >= o /\ l - o + 1 \in 1 .. N - o + 1 /\ (l = o => l - o + 1 = 1)
    BY <1>1, <1>5
  <2>2. g[B[l][Len(B[l])]] = made[l - o + 1]
    BY <1>9, <1>14, <2>1
  <2>3. last(l) \in Seq(Data) /\ last(l) # <<>> /\ Len(last(l)) \in 1 .. Len(last(l))
    BY <1>6, <2>1
  <2>4. ASSUME l = o PROVE Len(made[l - o + 1]) = Len(last(l)) - 1
    <3>1. made[l - o + 1] = Front(last(l))
      BY <1>6, <2>1, <2>4
    <3> QED BY <2>3, <3>1, FrontFacts
  <2>5. ASSUME l > o PROVE Len(made[l - o + 1]) = Len(last(l))
    <3> DEFINE x == Len(h) + l - o
    <3>1. made[l - o + 1] = [last(l) EXCEPT ![Len(last(l))] = x]
      BY <1>6, <2>1, <2>5
    <3>2. x \in Data
      <4>1. x \in Nat
        BY <1>1, <1>5, <2>1
      <4> QED BY <4>1 DEF Data
    <3> HIDE DEF x
    <3> QED BY <2>3, <3>1, <3>2, ExceptFacts
  <2>6. made[l - o + 1] \in Seq(Data)
    BY <1>c, <2>1
  <2> QED BY <2>2, <2>4, <2>5, <2>6
<1>21. \/ B[0] = <<>> /\ N = 1
       \/ B[0] # <<>> /\ \A l \in 1 .. N : g[B[l][Len(B[l])]] # <<>>
  <2>1. Len(A[0]) > 1 => B[0] # <<>>
    <3>1. Len(Front(A[0])) = Len(A[0]) - 1
      BY <1>2, <1>3, FrontFacts
    <3>2. Len(A[0]) > 1 => Len(B[0]) # 0
      BY <1>2, <1>18, <3>1
    <3> QED BY <3>2
  <2>2. N > 1 => Len(A[0]) > 1
    <3> SUFFICES ASSUME N > 1 PROVE Len(A[0]) > 1
      OBVIOUS
    <3>1. 0 \in 0 .. N - 1
      BY <1>1
    <3> QED BY <3>1, WideGood
  <2>3. N = 1 /\ Len(A[0]) = 1 => B[0] = <<>>
    <3>1. Len(Front(A[0])) = Len(A[0]) - 1 /\ Front(A[0]) \in Seq(1 .. Len(h))
      BY <1>2, <1>3, FrontFacts
    <3>2. Len(A[0]) = 1 => Len(B[0]) = 0 /\ B[0] \in Seq(1 .. Len(h))
      BY <1>18, <3>1
    <3> QED BY <3>2
  <2>4. N = 1 => Len(last(o)) = Len(A[0])
    <3> SUFFICES ASSUME N = 1 PROVE Len(last(o)) = Len(A[0])
      OBVIOUS
    <3>1. o = 1 /\ Rows(h, A[1], A[0]) /\ A[1] = <<v.root>>
      <4>1. o = 1 /\ 1 \in 1 .. N /\ A[1] = <<v.root>>
        BY <1>1, <1>5
      <4>2. Rows(h, A[1], A[1 - 1])
        BY <4>1, LastGood
      <4> QED BY <4>1, <4>2
    <3> DEFINE z == Len(h[v.root])
    <3>2. Len(A[1]) = 1 /\ A[1][Len(A[1])] = v.root
      BY <3>1
    <3>3. z \in Nat
      <4>1. last(o) \in Seq(Data) /\ last(o) = h[v.root]
        BY <1>6, <3>1, <3>2 DEF last
      <4> QED BY <4>1
    <3>4. Len(A[0]) = Pos(1, z)
      BY <3>1, <3>2 DEF Rows
    <3> HIDE DEF z
    <3>5. Pos(1, z) = z
      BY <3>3, PosFacts
    <3> QED BY <3>1, <3>2, <3>4, <3>5 DEF z, last
  <2>5. ASSUME Len(A[0]) > 1, NEW l \in 1 .. N PROVE g[B[l][Len(B[l])]] # <<>>
    <3>1. Len(last(o)) > 1
      BY <1>1, <1>7, <2>4, <2>5
    <3>2. CASE l < o
      <4>1. Len(g[B[l][Len(B[l])]]) = Width
        BY <1>19, <3>2
      <4>2. Width # 0
        BY VectorAssumption
      <4>3. ASSUME NEW z, Len(z) # 0 PROVE z # <<>>
        BY <4>3
      <4> QED BY <4>1, <4>2, <4>3
    <3>3. CASE l >= o
      <4>1. l \in o .. N
        BY <1>1, <1>5, <3>3
      <4>2. Len(last(l)) >= 1 /\ Len(last(l)) \in Nat
        <5>1. Len(last(l)) \in 1 .. Len(last(l)) /\ Len(last(l)) >= 1 /\ last(l) \in Seq(Data)
          BY <1>6
        <5> QED BY <5>1
      <4>3. Len(made[l - o + 1]) # 0
        <5>1. l = o \/ l > o
          BY <1>5, <3>3, <1>1
        <5> QED BY <1>20, <3>1, <4>1, <4>2, <5>1
      <4>4. g[B[l][Len(B[l])]] = made[l - o + 1]
        BY <1>20, <4>1
      <4>5. ASSUME NEW z, Len(z) # 0 PROVE z # <<>>
        BY <4>5
      <4> QED BY <4>3, <4>4, <4>5
    <3>4. l < o \/ l >= o
      BY <1>1, <1>5
    <3> QED BY <3>2, <3>3, <3>4
  <2>6. Len(A[0]) > 1 \/ (Len(A[0]) = 1 /\ N = 1)
    <3> DEFINE c == Len(A[0])
    <3>1. c \in Nat /\ c >= 1 /\ (N > 1 => c > 1) /\ N \in Nat /\ N >= 1
      BY <1>1, <1>2, <1>3, <2>2
    <3> HIDE DEF c, N
    <3>2. c > 1 \/ (c = 1 /\ N = 1)
      BY <3>1
    <3> QED BY <3>2 DEF c
  <2> QED BY <2>1, <2>3, <2>5, <2>6
<1>22. w.root = a[N] /\ B[N] = <<w.root>>
  <2>1. N \in o .. N /\ N >= o /\ N \in 0 .. N
    BY <1>1, <1>5
  <2>2. B[N] = [<<v.root>> EXCEPT ![1] = a[N]]
    <3>1. B[N] = [A[N] EXCEPT ![Len(A[N])] = a[N]]
      BY <1>11, <2>1
    <3> QED BY <1>1, <3>1
  <2> QED BY <1>10, <1>w, <2>2
<1>23. made # <<>> /\ g[w.root] = made[Len(made)]
  <2>1. Len(made) # 0
    BY <1>10
  <2>2. made # <<>>
    BY <2>1
  <2>3. g[a[N]] = made[Len(made)]
    <3>1. N \in o .. N
      BY <1>1, <1>5
    <3> QED BY <1>c, <1>9, <3>1
  <2> QED BY <1>22, <2>2, <2>3
<1>24. /\ w \in [cnt : Nat, shift : Nat, root : Nat, tail : Nat] /\ w.shift = N /\ w.cnt = Len(F)
  <2>1. Len(h) + Len(made) \in Nat /\ Spine(h, v)[0] \in Nat
    <3>1. w.tail = Spine(h, v)[0]
      BY <1>w
    <3> QED BY <1>1, <1>8, <1>10, <1>18, <3>1
  <2>2. v.cnt - 1 = Len(F) /\ v.cnt - 1 \in Nat
    BY <1>1, <1>17
  <2> QED BY <1>1, <1>w, <2>1, <2>2
<1>25. Upright(g, w, B, F)
  <2>1. B \in [0 .. N -> Seq(1 .. Len(g))]
    BY <1>12, <1>14
  <2> QED BY <1>1, <1>8, <1>16, <1>17, <1>18, <1>21, <1>22, <1>24, <2>1 DEF Upright
<1>26. ASSUME N > 1, Len(g[w.root]) = 1, NEW l \in 1 .. N - 1 PROVE Len(g[B[l][Len(B[l])]]) = Width
  <2>1. o = N
    <3> SUFFICES ASSUME o # N PROVE FALSE
      OBVIOUS
    <3>1. N \in o .. N /\ N > o
      BY <1>1, <1>5
    <3>2. g[B[N][Len(B[N])]] = g[w.root]
      <4> DEFINE q == <<w.root>>
      <4>1. q[Len(q)] = w.root /\ B[N] = q
        BY <1>22
      <4> HIDE DEF q
      <4> QED BY <4>1
    <3>3. Len(last(N)) = 1
      BY <1>20, <1>26, <3>1, <3>2
    <3>4. last(N) = h[v.root]
      BY <1>1 DEF last
    <3>5. Len(h[v.root]) > 1
      BY <1>26 DEF Good
    <3>6. Len(h[v.root]) = 1
      BY <3>3, <3>4
    <3> QED BY <3>5, <3>6
  <2>2. l \in 1 .. N /\ l < o
    BY <1>1, <2>1
  <2> QED BY <1>19, <2>2
<1>27. Cropped(g, w, B, F)
  BY <1>24, <1>25, <1>26 DEF Cropped
<1> QED BY <1>8, <1>23, <1>27 DEF F, Topped

\* A root with one child is left out.
LEMMA LowerGood ==
  ASSUME NEW g, NEW v, NEW B, NEW F, Cropped(g, v, B, F), v.shift > 1, Len(g[v.root]) = 1,
         NEW w, w = [cnt |-> v.cnt, shift |-> v.shift - 1, root |-> g[v.root][1], tail |-> v.tail]
  PROVE  \E C : Good(g, w, C, F)
<1> DEFINE N == v.shift  m == g[v.root][1]
<1>u. Upright(g, v, B, F) /\ \A l \in 1 .. N - 1 : Len(g[B[l][Len(B[l])]]) = Width
  BY DEF Cropped
<1>1. /\ Heap(g) /\ N \in Nat /\ N > 1 /\ N \in 1 .. N /\ N - 1 \in 0 .. N /\ N - 1 >= 1 /\ N - 1 \in Nat
      /\ v \in [cnt : Nat, shift : Nat, root : Nat, tail : Nat]
      /\ B \in [0 .. N -> Seq(1 .. Len(g))] /\ B[N] = <<v.root>>
  <2>1. /\ Heap(g) /\ v \in [cnt : Nat, shift : Nat, root : Nat, tail : Nat]
        /\ B \in [0 .. N -> Seq(1 .. Len(g))] /\ B[N] = <<v.root>>
    BY <1>u DEF Upright
  <2>2. N \in Nat /\ N > 1
    BY <2>1
  <2> HIDE DEF N
  <2>3. N \in 1 .. N /\ N - 1 \in 0 .. N /\ N - 1 >= 1 /\ N - 1 \in Nat
    BY <2>2
  <2> QED BY <2>1, <2>2, <2>3
<1>2. Filled(g, B[N]) /\ Rows(g, B[N], B[N - 1])
  BY <1>1, <1>u DEF Upright
<1>3. B[N - 1] = <<m>> /\ m \in Nat
  <2> DEFINE s == B[N]  t == B[N - 1]
  <2>1. Filled(g, s) /\ Rows(g, s, t) /\ Len(s) = 1 /\ s[1] = v.root /\ t \in Seq(1 .. Len(g))
    BY <1>1, <1>2
  <2> HIDE DEF s, t
  <2>2. Pos(1, 1) = 1 /\ 1 \in 1 .. Len(s) /\ 1 \in 1 .. Len(g[s[1]])
    <3>1. Pos(1, 1) = 1
      BY PosFacts
    <3>2. 1 \in 1 .. Len(s)
      BY <2>1
    <3>3. Len(g[s[1]]) = 1
      BY <2>1
    <3>4. 1 \in 1 .. Len(g[s[1]])
      BY <3>3
    <3> QED BY <3>1, <3>2, <3>4
  <2>3. Len(t) = 1
    BY <2>1, <2>2 DEF Rows
  <2>4. t[1] = m
    BY <2>1, <2>2 DEF Rows
  <2> HIDE DEF m
  <2>5. t = <<m>> /\ m \in Nat
    BY <2>1, <2>3, <2>4
  <2> QED BY <2>5 DEF t
<1> DEFINE C == [l \in 0 .. N - 1 |-> B[l]]
<1>4. \A l \in 0 .. N - 1 : C[l] = B[l] /\ l \in 0 .. N
  BY <1>1
<1>5. C \in [0 .. N - 1 -> Seq(1 .. Len(g))]
  BY <1>1, <1>4
<1> HIDE DEF C
<1>6. /\ w \in [cnt : Nat, shift : Nat, root : Nat, tail : Nat] /\ w.shift = N - 1 /\ w.root = m /\ w.tail = v.tail
      /\ w.cnt = v.cnt
  BY <1>1, <1>3
<1>7. 0 \in 0 .. N - 1 /\ N - 1 \in 0 .. N - 1
  BY <1>1
<1>8. C[0] = B[0] /\ C[N - 1] = <<m>>
  BY <1>3, <1>4, <1>7
<1>9. ASSUME NEW l \in 1 .. N - 1
      PROVE  Filled(g, C[l]) /\ Rows(g, C[l], C[l - 1]) /\ C[l] = B[l] /\ l \in 1 .. N
  <2>1. l \in 0 .. N - 1 /\ l - 1 \in 0 .. N - 1 /\ l \in 1 .. N
    BY <1>1
  <2>2. Filled(g, B[l]) /\ Rows(g, B[l], B[l - 1])
    BY <1>u, <2>1 DEF Upright
  <2> QED BY <1>4, <2>1, <2>2
<1>10. B[0] # <<>> /\ \A l \in 1 .. N : g[B[l][Len(B[l])]] # <<>>
  <2>1. N # 1
    BY <1>1
  <2> QED BY <1>u, <2>1 DEF Upright
<1>11. \A l \in 1 .. N - 1 : g[C[l][Len(C[l])]] # <<>>
  BY <1>9, <1>10
<1>12. w.shift >= 1 /\ F \in Seq(Data) /\ w.cnt = Len(F) /\ Filled(g, Append(B[0], v.tail))
       /\ Rows(g, Append(B[0], v.tail), F) /\ (F # <<>> => g[v.tail] # <<>>)
  BY <1>1, <1>6, <1>u DEF Upright
<1>13. Upright(g, w, C, F)
  <2> HIDE DEF N, m
  <2> QED BY <1>1, <1>5, <1>6, <1>8, <1>9, <1>10, <1>11, <1>12 DEF Upright
<1>14. Len(g[m]) > 1
  <2>1. N - 1 \in 1 .. N - 1
    BY <1>1
  <2>2. Len(g[B[N - 1][Len(B[N - 1])]]) = Width
    BY <1>u, <2>1
  <2> HIDE DEF m, N
  <2>3. B[N - 1][Len(B[N - 1])] = m
    BY <1>3
  <2> QED BY <2>2, <2>3, VectorAssumption
<1>15. Good(g, w, C, F)
  BY <1>6, <1>13, <1>14 DEF Good
<1> QED BY <1>15

\* vector_pop() makes a vector with one element less.
LEMMA PopGood ==
  ASSUME NEW h, NEW v, NEW A, NEW E, Good(h, v, A, E), E # <<>>,
         NEW m, m = PopOne([h |-> h, v |-> v])
  PROVE  Extends(h, m.h) /\ \E B : Good(m.h, m.v, B, Front(E))
<1> DEFINE F == Front(E)
<1>1. /\ Len(h[v.tail]) \in 0 .. Width /\ Width \in Nat /\ v.cnt = Len(E) /\ Len(E) \in Nat /\ E \in Seq(Data)
      /\ Heap(h) /\ h[v.tail] \in Seq(Data) /\ h[v.tail] # <<>> /\ v.shift \in Nat
      /\ v \in [cnt : Nat, shift : Nat, root : Nat, tail : Nat]
  BY GoodRows, VectorAssumption DEF Good, Upright
<1>2. F \in Seq(Data) /\ Len(F) = Len(E) - 1
  BY <1>1, FrontFacts
<1>3. Len(h[v.tail]) \in Nat /\ Len(h[v.tail]) >= 1
  BY <1>1
<1>4. CASE v.cnt = 1
  <2>1. F = <<>>
    <3> HIDE DEF F
    <3> QED BY <1>1, <1>2, <1>4
  <2>2. m = Empty(h)
    BY <1>4 DEF PopOne
  <2> HIDE DEF F
  <2>3. Extends(h, m.h) /\ \E B : Good(m.h, m.v, B, F)
    BY <1>1, <2>1, <2>2, EmptyGood
  <2> QED BY <2>3 DEF F
<1>5. CASE v.cnt # 1 /\ Len(h[v.tail]) > 1
  <2> DEFINE s == Append(A[0], v.tail)  y == Front(h[v.tail])
             g == New(h, y).h  n == New(h, y).n
  <2>1. s[Len(s)] = v.tail
    BY GoodRows
  <2>2. y \in Seq(Data) /\ Len(y) = Len(h[v.tail]) - 1
    BY <1>1, FrontFacts
  <2>3. Filled(h, s) /\ Rows(h, s, E) /\ y = Front(h[s[Len(s)]]) /\ h[s[Len(s)]] # <<>>
    BY <1>1, <2>1 DEF Good, Upright
  <2> HIDE DEF y
  <2>4. y # <<>>
    BY <1>3, <1>5, <2>2
  <2>5. Extends(h, g) /\ n \in 1 .. Len(g) /\ g[n] = y
    BY <1>1, <2>2, NewFacts
  <2> HIDE DEF g, n
  <2>6. [s EXCEPT ![Len(s)] = n] = Append(A[0], n)
    <3> DEFINE q == A[0]  u == v.tail
    <3>1. q \in Seq(Nat) /\ u \in Nat /\ n \in Nat /\ Len(s) = Len(q) + 1
      <4>1. q \in Seq(1 .. Len(h)) /\ u \in 1 .. Len(h) /\ Len(s) = Len(q) + 1
        <5>1. 0 \in 0 .. v.shift
          BY <1>1
        <5> QED BY <5>1, GoodRows
      <4>2. \A c \in 1 .. Len(q) : q[c] \in Nat
        BY <4>1
      <4>3. q \in Seq(Nat)
        BY <4>1, <4>2, SeqOther
      <4> QED BY <2>5, <4>1, <4>3
    <3> HIDE DEF q, u
    <3>2. [Append(q, u) EXCEPT ![Len(q) + 1] = n] = Append(q, n)
      BY <3>1, AppendSet
    <3> QED BY <3>1, <3>2 DEF q, u
  <2> DEFINE s1 == Append(A[0], n)
  <2>7. s1 = [s EXCEPT ![Len(s)] = n] /\ F = Front(E)
    BY <2>6
  <2> HIDE DEF s, s1, F
  <2>8. Filled(g, s1) /\ Rows(g, s1, F)
    BY <1>1, <2>3, <2>5, <2>7, RowsShorter
  <2>9. Good(g, [v EXCEPT !.cnt = Len(F), !.tail = n], A, F)
    BY <1>2, <2>4, <2>5, <2>8, TailGood DEF s1
  <2>10. m = [h |-> g, v |-> [v EXCEPT !.cnt = @ - 1, !.tail = n]]
    BY <1>5 DEF PopOne, Shorter, g, n, y
  <2>11. [v EXCEPT !.cnt = @ - 1, !.tail = n] = [v EXCEPT !.cnt = Len(F), !.tail = n]
    BY <1>1, <1>2
  <2> QED BY <2>5, <2>9, <2>10, <2>11 DEF F
<1>6. CASE v.cnt # 1 /\ Len(h[v.tail]) = 1
  <2>0. PICK made, g, w0 : made = CutSpine(h, v) /\ g = h \o made /\ w0 = Trimmed(h, v, made)
    OBVIOUS
  <2> DEFINE lower == Lowers(v, Last(made))
  <2>1. m = [h |-> g,
             v |-> [cnt   |-> v.cnt - 1,
                    shift |-> IF lower THEN v.shift - 1 ELSE v.shift,
                    root  |-> IF lower THEN Last(made)[1] ELSE Len(h) + Len(made),
                    tail  |-> Spine(h, v)[0]]]
    <3>1. v.cnt # 1 /\ ~(Len(h[v.tail]) > 1)
      BY <1>6
    <3> QED BY <2>0, <3>1 DEF PopOne
  <2> HIDE DEF F
  <2>3. /\ Extends(h, g) /\ Topped(g, w0, made)
        /\ \E B : Cropped(g, w0, B, Front(E))
    <3>1. v.cnt # 1 /\ Len(h[v.tail]) = 1
      BY <1>6
    <3> QED BY <2>0, <3>1, CutGood
  <2>r. g[w0.root] = Last(made)
    BY <2>3 DEF Topped, Last
  <2>4. PICK B : Cropped(g, w0, B, F)
    BY <2>3 DEF F
  <2>5. /\ w0.shift = v.shift /\ w0.cnt = v.cnt - 1 /\ w0.tail = Spine(h, v)[0] /\ w0.root = Len(h) + Len(made)
    BY <2>0 DEF Trimmed
  <2>6. CASE lower
    <3>1. v.shift > 1 /\ Len(g[w0.root]) = 1 /\ Last(made)[1] = g[w0.root][1]
      BY <2>r, <2>6 DEF Lowers
    <3> DEFINE w == [cnt |-> w0.cnt, shift |-> w0.shift - 1, root |-> g[w0.root][1], tail |-> w0.tail]
    <3>2. m.h = g /\ m.v = w
      BY <2>1, <2>5, <2>6, <3>1
    <3>3. w = [cnt |-> w0.cnt, shift |-> w0.shift - 1, root |-> g[w0.root][1], tail |-> w0.tail]
      OBVIOUS
    <3> HIDE DEF w
    <3>4. w0.shift > 1
      BY <2>5, <3>1
    <3>5. \E C : Good(g, w, C, F)
      BY <2>4, <3>1, <3>3, <3>4, LowerGood
    <3> QED BY <2>3, <3>2, <3>5 DEF F
  <2>7. CASE ~lower
    <3>1. m.h = g /\ m.v = w0
      BY <2>0, <2>1, <2>7 DEF Trimmed
    <3>2. v.shift > 1 => Len(g[w0.root]) > 1
      <4> SUFFICES ASSUME v.shift > 1 PROVE Len(g[w0.root]) > 1
        OBVIOUS
      <4>1. Len(g[w0.root]) # 1
        BY <2>r, <2>7 DEF Lowers
      <4>2. v.shift \in 1 .. v.shift /\ v.shift # 1
        BY <1>1
      <4>3. /\ Heap(g) /\ B[v.shift] = <<w0.root>> /\ g[B[v.shift][Len(B[v.shift])]] # <<>>
            /\ Filled(g, B[v.shift])
        BY <2>4, <2>5, <4>2 DEF Upright, Cropped
      <4>4. B[v.shift][Len(B[v.shift])] = w0.root
        BY <4>3
      <4>5. g[w0.root] \in Seq(Data) /\ g[w0.root] # <<>>
        <5>1. Len(B[v.shift]) \in 1 .. Len(B[v.shift])
          BY <4>3
        <5>2. g[B[v.shift][Len(B[v.shift])]] \in Seq(Data)
          BY <4>3, <5>1, Node
        <5> QED BY <4>3, <4>4, <5>2
      <4>6. Len(g[w0.root]) \in Nat /\ Len(g[w0.root]) # 0
        BY <4>5
      <4> DEFINE z == Len(g[w0.root])
      <4>7. z \in Nat /\ z # 0 /\ z # 1
        BY <4>1, <4>6
      <4> HIDE DEF z
      <4>8. z > 1
        BY <4>7
      <4> QED BY <4>8 DEF z
    <3>3. Good(g, w0, B, F)
      BY <2>4, <2>5, <3>2 DEF Good, Cropped
    <3> QED BY <2>3, <3>1, <3>3 DEF F
  <2> QED BY <2>6, <2>7
<1>7. v.cnt = 1 \/ (v.cnt # 1 /\ Len(h[v.tail]) > 1) \/ (v.cnt # 1 /\ Len(h[v.tail]) = 1)
  <2> DEFINE z == Len(h[v.tail])
  <2>1. z \in Nat /\ z >= 1
    BY <1>3
  <2> HIDE DEF z
  <2>2. z > 1 \/ z = 1
    BY <2>1
  <2> QED BY <2>2 DEF z
<1> QED BY <1>4, <1>5, <1>6, <1>7

-----------------------------------------------------------------------------
(* Several operations in a row *)

LEMMA CutFacts ==
  ASSUME NEW S, NEW s \in Seq(S), NEW k \in 0 .. Len(s)
  PROVE  /\ SubSeq(s, 1, k) \in Seq(S) /\ Len(SubSeq(s, 1, k)) = k /\ k \in Nat
         /\ \A i \in 1 .. k : SubSeq(s, 1, k)[i] = s[i]
<1> DEFINE f == SubSeq(s, 1, k)
<1>1. Len(s) \in Nat /\ k \in Nat /\ k <= Len(s)
  OBVIOUS
<1>2. k \in Int /\ 1 \in Int /\ \A i \in 1 .. k : s[i] \in S
  BY <1>1
<1>3. /\ f \in Seq(S) /\ Len(f) = IF 1 <= k THEN k - 1 + 1 ELSE 0
      /\ \A i \in 1 .. k - 1 + 1 : f[i] = s[1 + i - 1]
  BY <1>2, SubSeqProperties
<1>4. Len(f) = k
  BY <1>1, <1>3
<1>5. ASSUME NEW i \in 1 .. k PROVE f[i] = s[i]
  <2>1. i \in 1 .. k - 1 + 1 /\ 1 + i - 1 = i
    BY <1>1
  <2> QED BY <1>3, <2>1
<1> QED BY <1>1, <1>3, <1>4, <1>5

LEMMA CutWhole ==
  ASSUME NEW S, NEW s \in Seq(S)
  PROVE  SubSeq(s, 1, Len(s)) = s /\ s \o SubSeq(s, 1, 0) = s
<1>1. Len(s) \in 0 .. Len(s) /\ 0 \in 0 .. Len(s)
  OBVIOUS
<1>2. SubSeq(s, 1, Len(s)) = s
  <2> DEFINE f == SubSeq(s, 1, Len(s))
  <2>1. f \in Seq(S) /\ Len(f) = Len(s) /\ \A i \in 1 .. Len(s) : f[i] = s[i]
    BY <1>1, CutFacts
  <2> HIDE DEF f
  <2>2. f = s
    BY <2>1, SameSeq
  <2> QED BY <2>2 DEF f
<1>3. s \o SubSeq(s, 1, 0) = s
  <2> DEFINE f == SubSeq(s, 1, 0)
  <2>1. f \in Seq(S) /\ Len(f) = 0
    BY <1>1, CutFacts
  <2> HIDE DEF f
  <2>2. f = <<>>
    BY <2>1
  <2>3. s \o <<>> = s
    OBVIOUS
  <2> QED BY <2>2, <2>3 DEF f
<1> QED BY <1>2, <1>3

LEMMA CutFront ==
  ASSUME NEW S, NEW s \in Seq(S), NEW k \in 0 .. Len(s), k # 0
  PROVE  k - 1 \in 0 .. Len(s) /\ SubSeq(s, 1, k) # <<>> /\ Front(SubSeq(s, 1, k)) = SubSeq(s, 1, k - 1)
<1> DEFINE f == SubSeq(s, 1, k)  g == SubSeq(s, 1, k - 1)
<1>1. k - 1 \in 0 .. Len(s) /\ k - 1 \in Nat /\ k \in Nat
  OBVIOUS
<1>2. f \in Seq(S) /\ Len(f) = k /\ \A i \in 1 .. k : f[i] = s[i]
  BY CutFacts
<1>3. g \in Seq(S) /\ Len(g) = k - 1 /\ \A i \in 1 .. k - 1 : g[i] = s[i]
  BY <1>1, CutFacts
<1> HIDE DEF f, g
<1>4. f # <<>>
  BY <1>2
<1> DEFINE p == Front(f)
<1>5. p \in Seq(S) /\ Len(p) = k - 1 /\ \A i \in 1 .. k - 1 : p[i] = f[i]
  BY <1>2, <1>4, FrontFacts
<1> HIDE DEF p
<1>6. ASSUME NEW i \in 1 .. Len(p) PROVE p[i] = g[i]
  BY <1>1, <1>2, <1>3, <1>5
<1>7. p = g
  BY <1>3, <1>5, <1>6, SameSeq
<1> QED BY <1>1, <1>4, <1>7 DEF p, f, g

LEMMA CutAppend ==
  ASSUME NEW S, NEW r \in Seq(S), NEW s \in Seq(S), NEW k \in Nat, k + 1 <= Len(s)
  PROVE  /\ k \in 0 .. Len(s) /\ s[k + 1] \in S
         /\ Append(r \o SubSeq(s, 1, k), s[k + 1]) = r \o SubSeq(s, 1, k + 1)
<1>1. Len(s) \in Nat /\ k \in 0 .. Len(s) /\ k + 1 \in 0 .. Len(s) /\ k + 1 \in 1 .. Len(s) /\ Len(r) \in Nat
  OBVIOUS
<1>2. s[k + 1] \in S
  BY <1>1
<1> DEFINE f == SubSeq(s, 1, k)  g == SubSeq(s, 1, k + 1)  x == s[k + 1]
<1>3. f \in Seq(S) /\ Len(f) = k /\ \A i \in 1 .. k : f[i] = s[i]
  BY <1>1, CutFacts
<1>4. g \in Seq(S) /\ Len(g) = k + 1 /\ \A i \in 1 .. k + 1 : g[i] = s[i]
  BY <1>1, CutFacts
<1> HIDE DEF f, g, x
<1> DEFINE p == r \o f  q == r \o g  a == Append(p, x)
<1>5. /\ p \in Seq(S) /\ Len(p) = Len(r) + k
      /\ (\A i \in 1 .. Len(r) : p[i] = r[i]) /\ \A i \in 1 .. k : p[Len(r) + i] = f[i]
  <2>1. /\ p \in Seq(S) /\ Len(p) = Len(r) + Len(f)
        /\ (\A i \in 1 .. Len(r) : p[i] = r[i]) /\ \A i \in 1 .. Len(f) : p[Len(r) + i] = f[i]
    <3>1. f \in Seq(S)
      BY <1>3
    <3> QED BY <3>1, ConcatFacts
  <2> HIDE DEF p
  <2> QED BY <1>3, <2>1
<1>6. /\ q \in Seq(S) /\ Len(q) = Len(r) + (k + 1)
      /\ (\A i \in 1 .. Len(r) : q[i] = r[i]) /\ \A i \in 1 .. k + 1 : q[Len(r) + i] = g[i]
  BY <1>4, ConcatFacts
<1> HIDE DEF p, q
<1>7. a \in Seq(S) /\ Len(a) = Len(p) + 1 /\ a[Len(p) + 1] = x /\ \A i \in 1 .. Len(p) : a[i] = p[i]
  <2>1. x \in S /\ p \in Seq(S)
    BY <1>2, <1>5 DEF x
  <2> QED BY <2>1, AppendFacts
<1> HIDE DEF a
<1>8. ASSUME NEW i \in 1 .. Len(a) PROVE a[i] = q[i]
  <2>1. CASE i \in 1 .. Len(r)
    <3>1. i \in 1 .. Len(p)
      BY <1>1, <1>5, <2>1
    <3> QED BY <1>5, <1>6, <1>7, <2>1, <3>1
  <2>2. CASE i > Len(r) /\ i <= Len(r) + k
    <3>1. PICK j \in 1 .. k : i = Len(r) + j
      <4>1. i - Len(r) \in 1 .. k /\ i = Len(r) + (i - Len(r))
        BY <1>1, <2>2
      <4> QED BY <4>1
    <3>2. i \in 1 .. Len(p) /\ j \in 1 .. k + 1
      BY <1>1, <1>5, <2>2
    <3>3. p[i] = f[j] /\ q[i] = g[j] /\ f[j] = g[j]
      BY <1>3, <1>4, <1>5, <1>6, <3>1, <3>2
    <3> QED BY <1>7, <3>2, <3>3
  <2>3. CASE i = Len(r) + (k + 1)
    <3>1. i = Len(p) + 1 /\ k + 1 \in 1 .. k + 1
      BY <1>1, <1>5, <2>3
    <3>2. a[i] = x
      BY <1>7, <3>1
    <3>3. q[i] = g[k + 1] /\ g[k + 1] = x
      BY <1>4, <1>6, <2>3, <3>1 DEF x
    <3> QED BY <3>2, <3>3
  <2>4. i \in 1 .. Len(r) \/ (i > Len(r) /\ i <= Len(r) + k) \/ i = Len(r) + (k + 1)
    BY <1>1, <1>5, <1>7
  <2> QED BY <2>1, <2>2, <2>3, <2>4
<1>9. a = q
  <2>1. Len(a) = Len(q)
    BY <1>1, <1>5, <1>6, <1>7
  <2> QED BY <1>6, <1>7, <1>8, <2>1, SameSeq
<1> QED BY <1>1, <1>2, <1>9 DEF a, p, q, f, g, x

\* f is what the loop of su_vector_push() goes through.
Runs(f, m, s, n) == f = [j \in 0 .. n |-> IF j = 0 THEN m ELSE PushOne(f[j - 1], s[j])]

\* It is there.
LEMMA Pushes ==
  ASSUME NEW m, NEW s, NEW n \in Nat
  PROVE  \E f : Runs(f, m, s, n)
<1> DEFINE Is(f, k) == f = [j \in 0 .. k |-> IF j = 0 THEN m ELSE PushOne(f[j - 1], s[j])]
           S == {k \in Nat : \E f : Is(f, k)}
<1>1. 0 \in S
  <2> DEFINE f == [j \in 0 .. 0 |-> m]
  <2>1. \A j \in 0 .. 0 : j = 0
    OBVIOUS
  <2>2. Is(f, 0)
    BY <2>1
  <2> QED BY <2>2
<1>2. ASSUME NEW k \in Nat, k \in S PROVE k + 1 \in S
  <2>1. PICK f : Is(f, k)
    BY <1>2
  <2> DEFINE g == [j \in 0 .. k + 1 |-> IF j = k + 1 THEN PushOne(f[k], s[k + 1]) ELSE f[j]]
  <2>2. ASSUME NEW j \in 0 .. k + 1 PROVE g[j] = IF j = 0 THEN m ELSE PushOne(g[j - 1], s[j])
    <3>1. CASE j = k + 1
      <4>1. j # 0 /\ j - 1 = k /\ k \in 0 .. k + 1 /\ k # k + 1
        BY <3>1
      <4>2. g[j] = PushOne(f[k], s[k + 1]) /\ g[j - 1] = f[k]
        BY <3>1, <4>1
      <4> HIDE DEF g
      <4> QED BY <3>1, <4>1, <4>2
    <3>2. CASE j # k + 1
      <4>1. j \in 0 .. k /\ (j # 0 => j - 1 \in 0 .. k + 1 /\ j - 1 # k + 1)
        BY <3>2
      <4>2. g[j] = f[j] /\ (j # 0 => g[j - 1] = f[j - 1])
        BY <3>2, <4>1
      <4>3. f[j] = IF j = 0 THEN m ELSE PushOne(f[j - 1], s[j])
        BY <2>1, <4>1
      <4> HIDE DEF g
      <4> QED BY <4>2, <4>3
    <3> QED BY <3>1, <3>2
  <2>3. g = [j \in 0 .. k + 1 |-> g[j]]
    OBVIOUS
  <2> HIDE DEF g
  <2>4. Is(g, k + 1)
    BY <2>2, <2>3
  <2> QED BY <2>4
<1>3. n \in S
  <2> HIDE DEF S
  <2> QED BY <1>1, <1>2, Induction
<1> QED BY <1>3 DEF Runs

LEMMA Pops ==
  ASSUME NEW m, NEW n \in Nat
  PROVE  \E f : f = [j \in 0 .. n |-> IF j = 0 THEN m ELSE PopOne(f[j - 1])]
<1> DEFINE Is(f, k) == f = [j \in 0 .. k |-> IF j = 0 THEN m ELSE PopOne(f[j - 1])]
           S == {k \in Nat : \E f : Is(f, k)}
<1>1. 0 \in S
  <2> DEFINE f == [j \in 0 .. 0 |-> m]
  <2>1. \A j \in 0 .. 0 : j = 0
    OBVIOUS
  <2>2. Is(f, 0)
    BY <2>1
  <2> QED BY <2>2
<1>2. ASSUME NEW k \in Nat, k \in S PROVE k + 1 \in S
  <2>1. PICK f : Is(f, k)
    BY <1>2
  <2> DEFINE g == [j \in 0 .. k + 1 |-> IF j = k + 1 THEN PopOne(f[k]) ELSE f[j]]
  <2>2. ASSUME NEW j \in 0 .. k + 1 PROVE g[j] = IF j = 0 THEN m ELSE PopOne(g[j - 1])
    <3>1. CASE j = k + 1
      <4>1. j # 0 /\ j - 1 = k /\ k \in 0 .. k + 1 /\ k # k + 1
        BY <3>1
      <4>2. g[j] = PopOne(f[k]) /\ g[j - 1] = f[k]
        BY <3>1, <4>1
      <4> HIDE DEF g
      <4> QED BY <3>1, <4>1, <4>2
    <3>2. CASE j # k + 1
      <4>1. j \in 0 .. k /\ (j # 0 => j - 1 \in 0 .. k + 1 /\ j - 1 # k + 1)
        BY <3>2
      <4>2. g[j] = f[j] /\ (j # 0 => g[j - 1] = f[j - 1])
        BY <3>2, <4>1
      <4>3. f[j] = IF j = 0 THEN m ELSE PopOne(f[j - 1])
        BY <2>1, <4>1
      <4> HIDE DEF g
      <4> QED BY <4>2, <4>3
    <3> QED BY <3>1, <3>2
  <2>3. g = [j \in 0 .. k + 1 |-> g[j]]
    OBVIOUS
  <2> HIDE DEF g
  <2>4. Is(g, k + 1)
    BY <2>2, <2>3
  <2> QED BY <2>4
<1>3. n \in S
  <2> HIDE DEF S
  <2> QED BY <1>1, <1>2, Induction
<1> QED BY <1>3

\* m is the heap h with more in it, and a vector with the elements E.
Holds(h, m, E) == Extends(h, m.h) /\ \E A : Good(m.h, m.v, A, E)

\* su_vector() and su_vector_push() add the elements of s.
LEMMA PushAllGood ==
  ASSUME NEW h, NEW m, NEW E, Holds(h, m, E), E \in Seq(Data), NEW s \in Seq(Data)
  PROVE  Holds(h, PushAll(m, s), E \o s)
<1> DEFINE n == Len(s)
<1>1. n \in Nat
  OBVIOUS
<1> DEFINE c == CHOOSE f : f = [j \in 0 .. n |-> IF j = 0 THEN m ELSE PushOne(f[j - 1], s[j])]
<1>2. PushAll(m, s) = c[n]
  BY Zenon DEF PushAll
<1>3. c = [j \in 0 .. n |-> IF j = 0 THEN m ELSE PushOne(c[j - 1], s[j])]
  <2>1. \E f : f = [j \in 0 .. n |-> IF j = 0 THEN m ELSE PushOne(f[j - 1], s[j])]
    <3>1. \E f : Runs(f, m, s, n)
      BY <1>1, Pushes
    <3> HIDE DEF n
    <3> QED BY <3>1, Zenon DEF Runs
  <2> QED BY <2>1, Zenon
<1> HIDE DEF c, n
<1> DEFINE S == {k \in Nat : k <= n => Holds(h, c[k], E \o SubSeq(s, 1, k))}
<1>4. 0 \in S
  <2>1. c[0] = m
    BY <1>1, <1>3
  <2>2. E \o SubSeq(s, 1, 0) = E
    <3> DEFINE f == SubSeq(s, 1, 0)
    <3>1. 0 \in 0 .. Len(s)
      BY <1>1 DEF n
    <3>2. f \in Seq(Data) /\ Len(f) = 0
      BY <3>1, CutFacts
    <3> HIDE DEF f
    <3>3. f = <<>> /\ E \o <<>> = E
      BY <3>2
    <3> QED BY <3>3 DEF f
  <2> QED BY <2>1, <2>2
<1>5. ASSUME NEW k \in Nat, k \in S PROVE k + 1 \in S
  <2> SUFFICES ASSUME k + 1 <= n PROVE Holds(h, c[k + 1], E \o SubSeq(s, 1, k + 1))
    OBVIOUS
  <2>1. k <= n /\ k + 1 \in 0 .. n /\ k + 1 # 0 /\ k + 1 - 1 = k
    BY <1>1
  <2>2. c[k + 1] = PushOne(c[k], s[k + 1])
    BY <1>3, <2>1
  <2> DEFINE F == E \o SubSeq(s, 1, k)  x == s[k + 1]
  <2>3. x \in Data /\ Append(F, x) = E \o SubSeq(s, 1, k + 1)
    BY CutAppend DEF n
  <2>4. Holds(h, c[k], F)
    BY <1>5, <2>1
  <2> DEFINE p == c[k]
  <2> HIDE DEF F, x, p, S
  <2>5. Extends(h, p.h) /\ \E A : Good(p.h, p.v, A, F)
    BY <2>4 DEF Holds, p
  <2>6. PICK A : Good(p.h, p.v, A, F)
    BY <2>5
  <2> DEFINE q == PushOne([h |-> p.h, v |-> p.v], x)
  <2>7. PushOne(p, x) = q
    BY DEF PushOne
  <2>8. q = PushOne([h |-> p.h, v |-> p.v], x)
    OBVIOUS
  <2> HIDE DEF q
  <2>9. Extends(p.h, q.h) /\ \E B : Good(q.h, q.v, B, Append(F, x))
    BY <2>3, <2>6, <2>8, PushGood
  <2>10. Extends(h, q.h)
    BY <2>5, <2>9, ExtendsTwice
  <2>11. Holds(h, q, Append(F, x))
    BY <2>9, <2>10 DEF Holds
  <2> QED BY <2>2, <2>3, <2>7, <2>11 DEF p, F, x
<1>6. n \in S
  <2> HIDE DEF S
  <2> QED BY <1>1, <1>4, <1>5, Induction
<1>7. SubSeq(s, 1, n) = s
  BY CutWhole DEF n
<1>8. n <= n
  BY <1>1
<1>9. Holds(h, c[n], E \o SubSeq(s, 1, n))
  BY <1>6, <1>8
<1> HIDE DEF S
<1> QED BY <1>2, <1>7, <1>9

\* su_vector_pop() takes the last n elements away.
LEMMA PopManyGood ==
  ASSUME NEW h, NEW m, NEW E, Holds(h, m, E), E \in Seq(Data), NEW n \in Nat, n <= Len(E)
  PROVE  Holds(h, PopMany(m, n), SubSeq(E, 1, Len(E) - n))
<1> DEFINE c == CHOOSE f : f = [j \in 0 .. n |-> IF j = 0 THEN m ELSE PopOne(f[j - 1])]
<1>1. PopMany(m, n) = c[n]
  BY Zenon DEF PopMany
<1>2. c = [j \in 0 .. n |-> IF j = 0 THEN m ELSE PopOne(c[j - 1])]
  <2>1. \E f : f = [j \in 0 .. n |-> IF j = 0 THEN m ELSE PopOne(f[j - 1])]
    BY Pops
  <2> QED BY <2>1, Zenon
<1> HIDE DEF c
<1> DEFINE z == Len(E)
           S == {k \in Nat : k <= n => Holds(h, c[k], SubSeq(E, 1, z - k))}
<1>3. z \in Nat /\ n <= z
  OBVIOUS
<1>4. 0 \in S
  <2>1. c[0] = m
    BY <1>2
  <2>2. SubSeq(E, 1, z - 0) = E
    BY CutWhole
  <2> QED BY <2>1, <2>2
<1>5. ASSUME NEW k \in Nat, k \in S PROVE k + 1 \in S
  <2> SUFFICES ASSUME k + 1 <= n PROVE Holds(h, c[k + 1], SubSeq(E, 1, z - (k + 1)))
    OBVIOUS
  <2> HIDE DEF z
  <2>1. /\ k <= n /\ k + 1 \in 0 .. n /\ k + 1 # 0 /\ k + 1 - 1 = k
        /\ z - k \in 0 .. z /\ z - k # 0 /\ z - k - 1 = z - (k + 1)
    BY <1>3
  <2>2. c[k + 1] = PopOne(c[k])
    BY <1>2, <2>1
  <2> DEFINE F == SubSeq(E, 1, z - k)
  <2>3. F # <<>> /\ Front(F) = SubSeq(E, 1, z - (k + 1))
    <3> DEFINE j == z - k
    <3>1. j \in 0 .. Len(E) /\ j # 0 /\ j - 1 = z - (k + 1)
      BY <2>1 DEF z
    <3> HIDE DEF j
    <3>2. SubSeq(E, 1, j) # <<>> /\ Front(SubSeq(E, 1, j)) = SubSeq(E, 1, j - 1)
      BY <3>1, CutFront
    <3>3. SubSeq(E, 1, j) # <<>> /\ Front(SubSeq(E, 1, j)) = SubSeq(E, 1, z - (k + 1))
      BY ONLY <3>1, <3>2
    <3> QED BY ONLY <3>3 DEF j, F
  <2>4. Holds(h, c[k], F)
    BY <1>5, <2>1
  <2> DEFINE p == c[k]
  <2> HIDE DEF F, p, S
  <2>5. Extends(h, p.h) /\ \E A : Good(p.h, p.v, A, F)
    BY <2>4 DEF Holds, p
  <2>6. PICK A : Good(p.h, p.v, A, F)
    BY <2>5
  <2> DEFINE q == PopOne([h |-> p.h, v |-> p.v])
  <2>7. PopOne(p) = q
    BY DEF PopOne
  <2>8. q = PopOne([h |-> p.h, v |-> p.v])
    OBVIOUS
  <2> HIDE DEF q
  <2>9. Extends(p.h, q.h) /\ \E B : Good(q.h, q.v, B, Front(F))
    BY <2>3, <2>6, <2>8, PopGood
  <2>10. Extends(h, q.h)
    BY <2>5, <2>9, ExtendsTwice
  <2>11. Holds(h, q, Front(F))
    BY <2>9, <2>10 DEF Holds
  <2> QED BY <2>2, <2>3, <2>7, <2>11 DEF p
<1>6. n \in S
  <2> HIDE DEF S
  <2> QED BY <1>4, <1>5, Induction
<1> QED BY <1>1, <1>6

-----------------------------------------------------------------------------
(* The specification *)

\* The elements of a vector, and of all vectors, in the heap h.
Listed(h, v) == [i \in 1 .. v.cnt |-> At(h, v, i - 1)]
All(h, vs)   == [k \in 1 .. Len(vs) |-> Listed(h, vs[k])]

\* Each of the vectors vs is a tree in the heap h, with some elements.
Trees == [cnt : Nat, shift : Nat, root : Nat, tail : Nat]
Sound(h, vs) == Heap(h) /\ vs \in Seq(Trees) /\ \A k \in 1 .. Len(vs) : \E A, E : Good(h, vs[k], A, E)

LEMMA ListedGood ==
  ASSUME NEW h, NEW v, NEW A, NEW E, Good(h, v, A, E)
  PROVE  Listed(h, v) = E /\ E \in Seq(Data) /\ v.cnt = Len(E) /\ v \in Trees
<1>1. E \in Seq(Data) /\ v.cnt = Len(E) /\ v \in Trees
  BY DEF Good, Upright, Trees
<1>2. ASSUME NEW i \in 1 .. v.cnt PROVE At(h, v, i - 1) = E[i]
  <2>1. i - 1 \in 0 .. v.cnt - 1 /\ i - 1 + 1 = i
    BY <1>1
  <2>2. At(h, v, i - 1) = E[i - 1 + 1]
    BY <2>1, ReadGood
  <2> QED BY <2>1, <2>2
<1>3. E = [i \in 1 .. Len(E) |-> E[i]]
  BY <1>1
<1>4. Listed(h, v) = [i \in 1 .. Len(E) |-> E[i]]
  BY <1>1, <1>2 DEF Listed
<1> QED BY <1>1, <1>3, <1>4

\* A vector is added, and the others are what they were.
LEMMA SoundAppend ==
  ASSUME NEW h, NEW vs, Sound(h, vs), NEW m, NEW F, Holds(h, m, F)
  PROVE  Sound(m.h, Append(vs, m.v)) /\ All(m.h, Append(vs, m.v)) = Append(All(h, vs), F)
<1> DEFINE g == m.h  w == m.v  n == Len(vs)  ws == Append(vs, w)
<1>1. Heap(h) /\ vs \in Seq(Trees) /\ n \in Nat /\ Extends(h, g) /\ Heap(g)
  BY DEF Sound, Holds, Extends
<1>2. PICK B : Good(g, w, B, F)
  BY DEF Holds
<1>3. Listed(g, w) = F /\ w \in Trees
  BY <1>2, ListedGood
<1>4. ASSUME NEW k \in 1 .. n
      PROVE  (\E A, E : Good(g, vs[k], A, E)) /\ Listed(g, vs[k]) = Listed(h, vs[k])
  <2>1. PICK A, E : Good(h, vs[k], A, E)
    BY DEF Sound
  <2> HIDE DEF g
  <2>2. Good(g, vs[k], A, E)
    BY <1>1, <2>1, GoodStays
  <2>3. Listed(g, vs[k]) = E /\ Listed(h, vs[k]) = E
    BY <2>1, <2>2, ListedGood
  <2> QED BY <2>2, <2>3
<1>5. /\ ws \in Seq(Trees) /\ Len(ws) = n + 1 /\ ws[n + 1] = w
      /\ \A k \in 1 .. n : ws[k] = vs[k]
  BY <1>1, <1>3
<1> HIDE DEF ws, g, w, n
<1>6. Sound(g, ws)
  <2>1. ASSUME NEW k \in 1 .. n + 1 PROVE \E A, E : Good(g, ws[k], A, E)
    <3>1. CASE k = n + 1
      BY <1>2, <1>5, <3>1
    <3>2. CASE k # n + 1
      <4>1. k \in 1 .. n
        BY <1>1, <3>2
      <4> QED BY <1>4, <1>5, <4>1
    <3> QED BY <3>1, <3>2
  <2> QED BY <1>1, <1>5, <2>1 DEF Sound
<1>7. All(g, ws) = Append(All(h, vs), F)
  <2> DEFINE a == All(h, vs)  b == All(g, ws)
  <2>1. a = [k \in 1 .. n |-> Listed(h, vs[k])] /\ b = [k \in 1 .. n + 1 |-> Listed(g, ws[k])]
    BY <1>5 DEF All, n
  <2> DEFINE S == {Listed(h, vs[k]) : k \in 1 .. n} \cup {F}
  <2>2. \A k \in 1 .. n + 1 : b[k] = (IF k = n + 1 THEN F ELSE a[k]) /\ b[k] \in S
    <3> TAKE k \in 1 .. n + 1
    <3>1. CASE k = n + 1
      BY <1>3, <1>5, <2>1, <3>1
    <3>2. CASE k # n + 1
      <4>1. k \in 1 .. n
        BY <1>1, <3>2
      <4> QED BY <1>4, <1>5, <2>1, <3>2, <4>1
    <3> QED BY <3>1, <3>2
  <2>3. \A k \in 1 .. n : a[k] \in S
    BY <2>1
  <2> HIDE DEF S
  <2>4. a \in Seq(S) /\ Len(a) = n
    <3> HIDE DEF a
    <3>1. a = [k \in 1 .. n |-> a[k]]
      BY <2>1
    <3> QED BY <1>1, <2>3, <3>1, SeqFacts
  <2>5. b \in Seq(S) /\ Len(b) = n + 1
    <3>1. b = [k \in 1 .. n + 1 |-> b[k]]
      BY <2>1
    <3>2. \A k \in 1 .. n + 1 : b[k] \in S
      BY <2>2
    <3> HIDE DEF b
    <3> QED BY <1>1, <3>1, <3>2, SeqFacts
  <2>6. F \in S
    BY DEF S
  <2> HIDE DEF a, b
  <2>7. /\ Append(a, F) \in Seq(S) /\ Len(Append(a, F)) = n + 1
        /\ \A k \in 1 .. n + 1 : Append(a, F)[k] = IF k = n + 1 THEN F ELSE a[k]
    BY <1>1, <2>4, <2>6
  <2>8. b = Append(a, F)
    BY <1>1, <2>2, <2>5, <2>7, SameSeq
  <2> QED BY <2>8 DEF a, b
<1> QED BY <1>6, <1>7 DEF g, w, ws

\* A vector that was made is the start of an operation on it.
LEMMA HeldGood ==
  ASSUME Sound(nodes, vectors), NEW k \in 1 .. Len(vectors)
  PROVE  \E E \in Seq(Data) : /\ Holds(nodes, Held(k), E) /\ All(nodes, vectors)[k] = E
                              /\ vectors[k].cnt = Len(E) /\ \E A : Good(nodes, vectors[k], A, E)
<1>1. PICK A, E : Good(nodes, vectors[k], A, E)
  BY DEF Sound
<1>2. E \in Seq(Data) /\ Listed(nodes, vectors[k]) = E /\ vectors[k].cnt = Len(E)
  BY <1>1, ListedGood
<1>3. All(nodes, vectors)[k] = E
  BY <1>2 DEF All
<1>4. Extends(nodes, nodes)
  <2>1. Heap(nodes) /\ Len(nodes) \in Nat
    BY DEF Sound, Heap
  <2> QED BY <2>1 DEF Extends
<1>5. Held(k).h = nodes /\ Held(k).v = vectors[k]
  BY DEF Held
<1>6. Holds(nodes, Held(k), E)
  BY <1>1, <1>4, <1>5 DEF Holds
<1> QED BY <1>1, <1>2, <1>3, <1>6

\* What was given is there, and the list of what there is has it at its end.
LEMMA GivesGood ==
  ASSUME Sound(nodes, vectors), NEW m, NEW F, Holds(nodes, m, F), Gives(m)
  PROVE  /\ Sound(nodes', vectors') /\ outcome' = Made
         /\ All(nodes', vectors') = Append(All(nodes, vectors), F)
BY SoundAppend DEF Gives

LEMMA DataFacts ==
  /\ Value \in Data
  /\ \A n \in 0 .. Len(Items) : SubSeq(Items, 1, n) \in Seq(Data)
  /\ \A s \in Pushed : s \in Seq(Data)
<1>1. Items \in Seq(Data)
  <2>1. Items \in Seq(Range(Items)) /\ Range(Items) \subseteq Data
    BY VectorAssumption DEF Data
  <2> QED BY <2>1
<1>2. ASSUME NEW s \in Pushed PROVE s \in Seq(Data)
  <2>1. s \in Seq(Range(s)) /\ Range(s) \subseteq Data
    BY VectorAssumption DEF Data
  <2> QED BY <2>1
<1>3. Value \in Data
  BY DEF Data
<1>4. ASSUME NEW n \in 0 .. Len(Items) PROVE SubSeq(Items, 1, n) \in Seq(Data)
  BY <1>1, CutFacts
<1> QED BY <1>2, <1>3, <1>4

\* The tree has the shape that its length gives it.
LEMMA ShapeGood ==
  ASSUME NEW h, NEW v, NEW A, NEW E, Good(h, v, A, E)
  PROVE  HasShape(h, v)
<1> DEFINE leaves == Levels(h, v)[0]
<1> DEFINE s == A[0]  z == Len(s)  t == Len(h[v.tail])  ts == Append(s, v.tail)
<1>1. /\ v.shift \in Nat /\ v.shift >= 1 /\ v.cnt = Len(E) /\ Heap(h)
      /\ h[v.tail] \in Seq(Data) /\ t \in 0 .. Width /\ v.cnt \in Nat
      /\ \A b \in 1 .. z : Len(h[s[b]]) = Width
      /\ ts[z + 1] = v.tail /\ Len(ts) = z + 1
  <2>1. \A b \in 1 .. Len(A[0]) : Append(A[0], v.tail)[b] = A[0][b] /\ Len(h[A[0][b]]) = Width
    BY GoodRows
  <2> QED BY <2>1, GoodRows
<1>2. leaves = s /\ s \in Seq(1 .. Len(h)) /\ z \in Nat
  <2>1. 0 \in 0 .. v.shift
    BY <1>1
  <2>2. \A l \in 0 .. v.shift : Levels(h, v)[l] = A[l]
    BY LevelsGood
  <2>3. \A l \in 0 .. v.shift : A[l] \in Seq(1 .. Len(h)) /\ Len(A[l]) \in Nat
    BY GoodRows
  <2> QED BY <2>1, <2>2, <2>3
<1>3. v.cnt = Width * z + t
  <2>1. Rows(h, ts, E)
    BY DEF Good, Upright
  <2>2. Len(E) = Pos(Len(ts), Len(h[ts[Len(ts)]]))
    BY <2>1 DEF Rows
  <2>3. Len(E) = Pos(z + 1, t)
    BY <1>1, <2>2
  <2>4. Pos(z + 1, t) = Width * (z + 1 - 1) + t
    BY DEF Pos
  <2>5. z + 1 - 1 = z
    BY <1>2
  <2>6. v.cnt = Len(E)
    BY <1>1
  <2> HIDE DEF z, t, ts
  <2> QED BY <2>3, <2>4, <2>5, <2>6
<1>4. t \in (IF v.cnt = 0 THEN {0} ELSE 1 .. Width)
  <2>1. CASE v.cnt = 0
    <3>1. Width * z \in Nat
      BY <1>2, VectorAssumption, Z3
    <3> DEFINE p == Width * z
    <3> HIDE DEF p, t
    <3>2. p + t = 0 /\ p \in Nat /\ t \in Nat
      BY <1>1, <1>3, <2>1, <3>1, VectorAssumption DEF p
    <3> QED BY <2>1, <3>2
  <2>2. CASE v.cnt # 0
    <3>1. E # <<>>
      BY <1>1, <2>2
    <3>2. h[v.tail] # <<>>
      BY <3>1 DEF Good, Upright
    <3>3. ASSUME NEW x \in Seq(Data), x # <<>> PROVE Len(x) # 0
      BY <3>3
    <3>4. t # 0
      BY <1>1, <3>2, <3>3
    <3> HIDE DEF t
    <3> QED BY <1>1, <2>2, <3>4, VectorAssumption
  <2> QED BY <2>1, <2>2
<1>5. ASSUME s = <<>> PROVE h[v.root] = <<>> /\ v.shift = 1
  <2>1. v.shift = 1
    BY <1>5 DEF Good, Upright
  <2>2. Rows(h, A[1], A[0])
    <3>1. 1 \in 1 .. v.shift /\ 1 - 1 = 0
      BY <2>1
    <3>2. \A l \in 1 .. v.shift : Rows(h, A[l], A[l - 1])
      BY DEF Good, Upright
    <3> QED BY <3>1, <3>2
  <2>3. A[1] = <<v.root>> /\ v.root \in 1 .. Len(h)
    <3>1. A[v.shift] = <<v.root>> /\ v.root \in 1 .. Len(h)
      BY GoodRows
    <3> QED BY <2>1, <3>1
  <2> DEFINE r == v.root  y == h[r]
  <2>4. Len(<<r>>) = 1 /\ <<r>>[1] = r
    OBVIOUS
  <2>5. Len(s) = Pos(1, Len(y))
    BY <2>2, <2>3, <2>4 DEF Rows
  <2>6. y \in Seq(Data) /\ Len(y) \in Nat
    <3>1. y \in Seq(Data)
      BY <1>1, <2>3 DEF Heap
    <3> QED BY <3>1
  <2> HIDE DEF y
  <2>7. Pos(1, Len(y)) = Len(y)
    BY <2>6, PosFacts
  <2>8. Len(y) = 0
    BY <1>5, <2>5, <2>7
  <2>9. y = <<>>
    BY <2>6, <2>8
  <2> QED BY <2>1, <2>9 DEF y
<1>6. ASSUME s # <<>>, NEW l \in 1 .. v.shift PROVE Dense(h, Levels(h, v)[l])
  <2> DEFINE a == A[l]  n == Len(a)
  <2>1. Levels(h, v)[l] = a
    <3>1. l \in 0 .. v.shift
      BY <1>1
    <3> QED BY <3>1, LevelsGood
  <2>2. Filled(h, a)
    BY DEF Good, Upright
  <2>3. h[a[n]] # <<>>
    <3>1. \A m \in 1 .. v.shift : h[A[m][Len(A[m])]] # <<>>
      BY <1>6 DEF Good, Upright
    <3> QED BY <3>1
  <2> HIDE DEF a
  <2>4. n \in Nat /\ a \in Seq(1 .. Len(h)) /\ n \in 1 .. n
    <3>1. n \in 1 .. n /\ n \in Nat
      BY <1>1, <2>2, Node
    <3> QED BY <2>2, <3>1 DEF Filled
  <2>5. ASSUME NEW b \in DOMAIN a
        PROVE  IF b < n THEN Len(h[a[b]]) = Width ELSE Len(h[a[b]]) \in 1 .. Width
    <3>1. b \in 1 .. n
      BY <2>4
    <3>2. CASE b < n
      BY <2>2, <3>1, <3>2 DEF Filled
    <3>3. CASE b = n
      <4> DEFINE y == h[a[n]]
      <4>1. y \in Seq(Data) /\ Len(y) <= Width
        <5>1. y \in Seq(Data)
          <6>1. a[n] \in 1 .. Len(h)
            BY <2>4
          <6> QED BY <1>1, <6>1 DEF Heap
        <5>2. Len(h[a[n]]) <= Width
          BY <2>2, <2>4 DEF Filled
        <5> QED BY <5>1, <5>2
      <4> HIDE DEF y
      <4>2. y # <<>>
        BY <2>3 DEF y
      <4>3. Len(y) \in 1 .. Width
        BY <4>1, <4>2, VectorAssumption
      <4>4. ~(b < n) /\ h[a[b]] = y
        BY <2>4, <3>3 DEF y
      <4> QED BY <4>3, <4>4
    <3>4. b < n \/ b = n
      BY <2>4, <3>1
    <3> QED BY <3>2, <3>3, <3>4
  <2> QED BY <2>1, <2>5 DEF Dense
<1> HIDE DEF leaves
<1>7. DOMAIN leaves = 1 .. z
  BY <1>2
<1>8. v.shift > 1 => Len(h[v.root]) > 1
  BY DEF Good
<1>9. /\ v.shift >= 1 /\ t \in (IF v.cnt = 0 THEN {0} ELSE 1 .. Width)
      /\ v.cnt = Width * Len(leaves) + t
      /\ \A b \in DOMAIN leaves : Len(h[leaves[b]]) = Width
      /\ IF leaves = <<>> THEN h[v.root] = <<>> /\ v.shift = 1
         ELSE \A l \in 1 .. v.shift : Dense(h, Levels(h, v)[l])
      /\ v.shift > 1 => Len(h[v.root]) > 1
  BY <1>1, <1>2, <1>3, <1>4, <1>5, <1>6, <1>7, <1>8
<1> QED BY <1>9 DEF HasShape, leaves

\* The heap is one of trees, each with its elements, whose nodes are never stored to
\* once a vector has them: what su_vector_push(), su_vector_pop() and
\* su_vector_set() give is a tree again.
VectorsSound == Sound(nodes, vectors)

LEMMA Start == Init => VectorsSound /\ All(nodes, vectors) = <<>>
<1> SUFFICES ASSUME Init PROVE VectorsSound /\ All(nodes, vectors) = <<>>
  OBVIOUS
<1>1. nodes = <<>> /\ vectors = <<>>
  BY DEF Init
<1>2. <<>> \in Seq(Seq(Data)) /\ <<>> \in Seq(Trees) /\ Len(<<>>) = 0
  OBVIOUS
<1>3. 1 .. 0 = {}
  OBVIOUS
<1>4. Sound(<<>>, <<>>)
  BY <1>2, <1>3 DEF Sound, Heap
<1>5. All(<<>>, <<>>) = <<>>
  BY <1>2, <1>3 DEF All
<1> QED BY <1>1, <1>4, <1>5 DEF VectorsSound

\* Each step of the program is one of sequences, and leaves trees behind.
LEMMA Step ==
  ASSUME VectorsSound, [Next]_vars
  PROVE  VectorsSound' /\ [Contract!Next]_(Contract!vars)
<1> DEFINE a == All(nodes, vectors)  b == All(nodes', vectors')
           vecs == [k \in 1 .. Len(vectors) |-> Elements(vectors[k])]
<1>1. vecs = a /\ vecs' = b
  BY DEF All, Listed, Elements
<1>2. Sound(nodes, vectors) /\ (VectorsSound' <=> Sound(nodes', vectors'))
  BY DEF VectorsSound
<1>3. Len(a) = Len(vectors) /\ Len(vectors) \in Nat
  BY <1>2 DEF Sound, All
<1>4. ASSUME UNCHANGED <<nodes, vectors>> PROVE VectorsSound' /\ vecs' = vecs
  BY <1>1, <1>2, <1>4
<1>5. ASSUME NEW n \in 0 .. Len(Items), Create(SubSeq(Items, 1, n))
      PROVE  VectorsSound' /\ Contract!Create(SubSeq(Items, 1, n))
  <2> DEFINE s == SubSeq(Items, 1, n)  m == PushAll(Empty(nodes), s)
  <2>1. s \in Seq(Data)
    BY DataFacts
  <2> HIDE DEF s
  <2>2. Holds(nodes, Empty(nodes), <<>>)
    <3>1. Heap(nodes)
      BY <1>2 DEF Sound
    <3> QED BY <3>1, EmptyGood DEF Holds
  <2>3. Holds(nodes, m, <<>> \o s)
    <3>1. <<>> \in Seq(Data)
      OBVIOUS
    <3> QED BY <2>1, <2>2, <3>1, PushAllGood
  <2>4. <<>> \o s = s
    BY <2>1
  <2>5. Gives(m)
    BY <1>5 DEF Create, s
  <2> HIDE DEF m
  <2>6. Sound(nodes', vectors') /\ outcome' = Made /\ b = Append(a, s)
    BY <1>2, <2>3, <2>4, <2>5, GivesGood
  <2> QED BY <1>1, <1>2, <2>6 DEF s, Contract!Create, Contract!Gives, Made, Contract!Made
<1>6. ASSUME NEW k \in 1 .. Len(vectors)
      PROVE  /\ vectors[k].cnt = Len(a[k])
             /\ \A s \in Pushed : Push(k, s) => VectorsSound' /\ Contract!Push(k, s)
             /\ \A n \in 0 .. Len(a[k]) + 1 : Pop(k, n) => VectorsSound' /\ Contract!Pop(k, n)
             /\ \A i \in -1 .. Len(a[k]) : Set(k, i) => VectorsSound' /\ Contract!Set(k, i, Value)
             /\ \A i \in -1 .. Len(a[k]) : Index(k, i) => VectorsSound' /\ Contract!Index(k, i)
  <2>1. PICK E \in Seq(Data) : /\ Holds(nodes, Held(k), E) /\ a[k] = E
                               /\ vectors[k].cnt = Len(E) /\ \E A : Good(nodes, vectors[k], A, E)
    BY <1>2, HeldGood
  <2> DEFINE v == vectors[k]
  <2> HIDE DEF a, b, v
  <2>2. Len(E) \in Nat
    OBVIOUS
  <2>3. ASSUME NEW s \in Pushed, Push(k, s) PROVE VectorsSound' /\ Contract!Push(k, s)
    <3> DEFINE m == PushAll(Held(k), s)
    <3>1. s \in Seq(Data)
      BY DataFacts
    <3>2. Holds(nodes, m, E \o s)
      BY <2>1, <3>1, PushAllGood
    <3>3. Gives(m)
      BY <2>3 DEF Push
    <3> HIDE DEF m
    <3>4. Sound(nodes', vectors') /\ outcome' = Made /\ b = Append(a, E \o s)
      BY <1>2, <3>2, <3>3, GivesGood DEF a, b
    <3> QED BY <1>1, <1>2, <2>1, <3>4 DEF Contract!Push, Contract!Gives, Made, Contract!Made
  <2>4. ASSUME NEW n \in 0 .. Len(a[k]) + 1, Pop(k, n) PROVE VectorsSound' /\ Contract!Pop(k, n)
    <3>1. CASE n <= Len(E)
      <4> DEFINE m == PopMany(Held(k), n)  F == SubSeq(E, 1, Len(E) - n)
      <4>1. n \in Nat
        BY <2>1, <2>2
      <4>2. Holds(nodes, m, F)
        BY <2>1, <3>1, <4>1, PopManyGood
      <4>3. Gives(m)
        BY <2>1, <2>4, <3>1 DEF Pop
      <4> HIDE DEF m, F
      <4>4. Sound(nodes', vectors') /\ outcome' = Made /\ b = Append(a, F)
        BY <1>2, <4>2, <4>3, GivesGood DEF a, b
      <4> QED BY <1>1, <1>2, <2>1, <3>1, <4>4 DEF F, Contract!Pop, Contract!Gives, Made, Contract!Made
    <3>2. CASE ~(n <= Len(E))
      <4>1. Fails
        BY <2>1, <2>4, <3>2 DEF Pop
      <4>2. outcome' = Error /\ vecs' = vecs /\ VectorsSound'
        BY <1>4, <4>1 DEF Fails
      <4>3. Contract!Fails
        BY <4>2 DEF Contract!Fails, Error, Contract!Error
      <4> QED BY <1>1, <2>1, <3>2, <4>2, <4>3 DEF Contract!Pop
    <3> QED BY <3>1, <3>2
  <2>5. \A i \in -1 .. Len(a[k]) : InBounds(v, i) <=> Contract!InBounds(E, i)
    BY <2>1, <2>2 DEF InBounds, Contract!InBounds, v
  <2>6. ASSUME NEW i \in -1 .. Len(a[k]), Set(k, i) PROVE VectorsSound' /\ Contract!Set(k, i, Value)
    <3>1. CASE InBounds(v, i)
      <4> DEFINE m == Store(nodes, v, i, Value)  F == [E EXCEPT ![i + 1] = Value]
      <4>1. i \in 0 .. v.cnt - 1
        BY <2>1, <2>2, <3>1 DEF InBounds, v
      <4>2. Holds(nodes, m, F)
        <5>1. PICK A : Good(nodes, v, A, E)
          BY <2>1 DEF v
        <5>2. Value \in Data
          BY DataFacts
        <5> QED BY <4>1, <5>1, <5>2, StoreGood DEF Holds
      <4>3. Gives(m)
        BY <2>6, <3>1 DEF Set, v
      <4> HIDE DEF m, F
      <4>4. Sound(nodes', vectors') /\ outcome' = Made /\ b = Append(a, F)
        BY <1>2, <4>2, <4>3, GivesGood DEF a, b
      <4>5. Contract!InBounds(E, i)
        BY <2>5, <3>1
      <4> QED BY <1>1, <1>2, <2>1, <4>4, <4>5 DEF F, Contract!Set, Contract!Gives, Made, Contract!Made
    <3>2. CASE ~InBounds(v, i)
      <4>1. Fails
        BY <2>6, <3>2 DEF Set, v
      <4>2. outcome' = Error /\ vecs' = vecs /\ VectorsSound'
        BY <1>4, <4>1 DEF Fails
      <4>3. Contract!Fails
        BY <4>2 DEF Contract!Fails, Error, Contract!Error
      <4>4. ~Contract!InBounds(E, i)
        BY <2>5, <3>2
      <4> QED BY <1>1, <2>1, <4>2, <4>3, <4>4 DEF Contract!Set
    <3> QED BY <3>1, <3>2
  <2>7. ASSUME NEW i \in -1 .. Len(a[k]), Index(k, i) PROVE VectorsSound' /\ Contract!Index(k, i)
    <3>1. UNCHANGED <<nodes, vectors>>
      BY <2>7 DEF Index
    <3>2. VectorsSound' /\ vecs' = vecs
      BY <1>4, <3>1
    <3>3. outcome' = IF InBounds(v, i) THEN Found(At(nodes, v, i)) ELSE Error
      BY <2>7 DEF Index, v
    <3>4. ASSUME InBounds(v, i) PROVE At(nodes, v, i) = E[i + 1]
      <4>1. i \in 0 .. v.cnt - 1
        BY <2>1, <2>2, <3>4 DEF InBounds, v
      <4>2. PICK A : Good(nodes, v, A, E)
        BY <2>1 DEF v
      <4> QED BY <4>1, <4>2, ReadGood
    <3>5. outcome' = IF Contract!InBounds(E, i) THEN Contract!Found(E[i + 1]) ELSE Contract!Error
      BY <2>5, <3>3, <3>4 DEF Found, Contract!Found, Error, Contract!Error
    <3> QED BY <1>1, <2>1, <3>2, <3>5 DEF Contract!Index
  <2> QED BY <2>1, <2>3, <2>4, <2>6, <2>7
<1> HIDE DEF a, b
<1>7. CASE Next
  <2>1. CASE \E n \in 0 .. Len(Items) : Create(SubSeq(Items, 1, n))
    BY <1>5, <2>1 DEF Contract!Next
  <2>2. CASE \E k \in 1 .. Len(vectors) :
               \/ \E s \in Pushed : Push(k, s)
               \/ \E n \in 0 .. vectors[k].cnt + 1 : Pop(k, n)
               \/ \E i \in -1 .. vectors[k].cnt : Set(k, i) \/ Index(k, i)
    <3>1. PICK k \in 1 .. Len(vectors) :
               \/ \E s \in Pushed : Push(k, s)
               \/ \E n \in 0 .. Len(a[k]) + 1 : Pop(k, n)
               \/ \E i \in -1 .. Len(a[k]) : Set(k, i) \/ Index(k, i)
      BY <1>6, <2>2
    <3>2. /\ VectorsSound'
          /\ \/ \E s \in Pushed : Contract!Push(k, s)
             \/ \E n \in 0 .. Len(a[k]) + 1 : Contract!Pop(k, n)
             \/ \E i \in -1 .. Len(a[k]) : Contract!Set(k, i, Value) \/ Contract!Index(k, i)
      BY <1>6, <3>1
    <3>3. k \in 1 .. Len(vecs) /\ vecs[k] = a[k]
      BY <1>1, <1>3
    <3> QED BY <3>2, <3>3 DEF Contract!Next
  <2> QED BY <1>7, <2>1, <2>2 DEF Next
<1>8. CASE UNCHANGED vars
  <2>1. UNCHANGED <<nodes, vectors>> /\ outcome' = outcome
    BY <1>8 DEF vars
  <2> QED BY <1>4, <2>1 DEF Contract!vars
<1> QED BY <1>7, <1>8

\* For every width, the nodes made by vector_push(), vector_pop() and vector_set() are
\* those of trees, whatever was done: no vector sees a store that was not its own.
THEOREM VectorsStaySound == Spec => []VectorsSound
<1>1. Init => VectorsSound
  BY Start
<1>2. VectorsSound /\ [Next]_vars => VectorsSound'
  BY Step
<1> QED BY <1>1, <1>2, PTL DEF Spec

\* Every vector ever made keeps the one shape that its length gives it (seq.c:91-393),
\* for every width and height of the trees.
THEOREM ShapeKept == Spec => []Shape
<1>1. VectorsSound => Shape
  <2> SUFFICES ASSUME VectorsSound, NEW k \in 1 .. Len(vectors) PROVE HasShape(nodes, vectors[k])
    BY DEF Shape
  <2>1. PICK A, E : Good(nodes, vectors[k], A, E)
    BY DEF VectorsSound, Sound
  <2> QED BY <2>1, ShapeGood
<1> QED BY <1>1, VectorsStaySound, PTL

\* The vectors of seq.c behave as sequences: su_vector_push(), su_vector_pop() and
\* su_vector_set() give what the operation on sequences gives and change no vector made
\* before, although they share nodes, and su_vector_index() reads the element.
THEOREM ImplementsContract == Spec => Implements
<1>1. Init => Contract!Init
  <2> SUFFICES ASSUME Init PROVE Contract!Init
    OBVIOUS
  <2>1. [k \in 1 .. Len(vectors) |-> Elements(vectors[k])] = <<>>
    BY Start DEF All, Listed, Elements
  <2>2. outcome = Contract!Made
    BY DEF Init, Made, Contract!Made
  <2> QED BY <2>1, <2>2 DEF Contract!Init
<1>2. VectorsSound /\ [Next]_vars => [Contract!Next]_(Contract!vars)
  BY Step
<1> QED BY <1>1, <1>2, VectorsStaySound, PTL DEF Spec, Implements, Contract!Spec
=============================================================================
