------------------------ MODULE PersistentMapProofs ------------------------
(***************************************************************************)
(* That maps behave as functions from keys to values and keep their shape, *)
(* for any keys and hashes, any width and any number of digits.            *)
(***************************************************************************)
EXTENDS PersistentMap, SequenceTheorems, FunctionTheorems, FiniteSetTheorems, WellFoundedInduction, TLAPS

-----------------------------------------------------------------------------
(* Numbers *)

LEMMA DivMod ==
  ASSUME NEW n \in Nat, NEW w \in Nat \ {0}
  PROVE  /\ n \div w \in Nat /\ n % w \in 0 .. w - 1
         /\ n = w * (n \div w) + (n % w)
  BY Z3

LEMMA Quotient ==
  ASSUME NEW w \in Nat \ {0}, NEW q \in Nat, NEW r \in 0 .. w - 1
  PROVE  (w * q + r) \div w = q /\ (w * q + r) % w = r
<1> DEFINE n == w * q + r
           c == n \div w
           d == n % w
<1>1. n \in Nat
  BY Z3
<1>2. c \in Nat /\ d \in 0 .. w - 1 /\ n = w * c + d
  BY <1>1, DivMod
<1> HIDE DEF c, d
<1>3. w * q + r = w * c + d
  BY <1>2
<1>4. CASE c = q
  BY <1>3, <1>4, <1>2, Z3 DEF c, d
<1>5. CASE c > q
  <2>1. PICK k \in Nat : c = q + 1 + k
    BY <1>5, <1>2
  <2>2. w * c = w * q + w + w * k /\ w * k \in Nat
    BY <2>1, Z3
  <2> QED BY <2>2, <1>3, <1>2
<1>6. CASE c < q
  <2>1. PICK k \in Nat : q = c + 1 + k
    BY <1>6, <1>2
  <2>2. w * q = w * c + w + w * k /\ w * k \in Nat
    BY <2>1, <1>2, Z3
  <2> QED BY <2>2, <1>3, <1>2
<1> QED BY <1>2, <1>4, <1>5, <1>6

LEMMA DivDiv ==
  ASSUME NEW i \in Nat, NEW p \in Nat \ {0}, NEW w \in Nat \ {0}
  PROVE  (i \div p) \div w = i \div (w * p)
<1> DEFINE q == i \div p  r == i % p  c == q \div w  t == q % w
<1>1. q \in Nat /\ r \in 0 .. p - 1 /\ i = p * q + r
  BY DivMod
<1>2. c \in Nat /\ t \in 0 .. w - 1 /\ q = w * c + t
  BY <1>1, DivMod
<1> HIDE DEF q, r, c, t
<1>3. i = (w * p) * c + (p * t + r)
  BY <1>1, <1>2, Z3
<1>4. w * p \in Nat \ {0}
  BY Z3
<1>5. p * t + r \in 0 .. (w * p) - 1
  <2>1. PICK k \in Nat : w = t + 1 + k
    BY <1>2
  <2>2. w * p = p * t + p + p * k /\ p * k \in Nat /\ p * t \in Nat
    BY <2>1, <1>2, Z3
  <2> QED BY <2>2, <1>1, <1>4
<1>6. ((w * p) * c + (p * t + r)) \div (w * p) = c
  BY <1>2, <1>4, <1>5, Quotient
<1> QED BY <1>3, <1>6 DEF c, q

LEMMA Induction ==
  ASSUME NEW S, 0 \in S, \A n \in Nat : n \in S => n + 1 \in S
  PROVE  Nat \subseteq S
<1> DEFINE B == {n \in Nat : n \notin S}
<1>1. CASE B = {}
  BY <1>1
<1>2. CASE B # {}
  <2>1. PICK x \in B : \A y \in B : <<y, x>> \notin OpToRel(<, Nat)
    BY <1>2, WFMin, NatLessThanWellFounded
  <2>2. x \in Nat /\ x \notin S
    OBVIOUS
  <2>3. x # 0 /\ x - 1 \in Nat /\ x - 1 < x /\ (x - 1) + 1 = x
    BY <2>2
  <2>4. ASSUME x - 1 \notin S PROVE FALSE
    <3>1. <<x - 1, x>> \notin OpToRel(<, Nat)
      BY <2>1, <2>3, <2>4
    <3> QED BY <2>2, <2>3, <3>1 DEF OpToRel
  <2>5. (x - 1) + 1 \in S
    BY <2>3, <2>4
  <2> QED BY <2>2, <2>3, <2>5
<1> QED BY <1>1, <1>2

\* Weight is what its definition says.
LEMMA PowerDef ==
  ASSUME MapConstants
  PROVE  /\ Weight[0] = 1
         /\ \A n \in Nat : Weight[n + 1] = MapWidth * Weight[n]
         /\ \A n \in Nat : Weight[n] \in Nat \ {0}
<1> DEFINE Is(f, m) == f[0] = 1 /\ \A n \in 1 .. m : f[n] = MapWidth * f[n - 1]
           S == {m \in Nat : \E f : Is(f, m)}
           G(m) == CHOOSE f : Is(f, m)
           P == [n \in Nat |-> G(n)[n]]
<1>1. 0 \in S
  <2>1. Is([n \in {0} |-> 1], 0)
    OBVIOUS
  <2> QED BY <2>1
<1>2. ASSUME NEW m \in Nat, m \in S PROVE m + 1 \in S
  <2>1. PICK f : Is(f, m)
    BY <1>2
  <2> DEFINE g == [n \in 0 .. m + 1 |-> IF n <= m THEN f[n] ELSE MapWidth * f[m]]
  <2>2. g[0] = 1
    BY <2>1
  <2>3. ASSUME NEW n \in 1 .. m + 1 PROVE g[n] = MapWidth * g[n - 1]
    <3>1. CASE n <= m
      <4>1. n - 1 \in 0 .. m + 1 /\ n - 1 <= m /\ n \in 0 .. m + 1 /\ n \in 1 .. m
        BY <3>1
      <4>2. g[n] = f[n] /\ g[n - 1] = f[n - 1]
        BY <3>1, <4>1
      <4> HIDE DEF g
      <4> QED BY <2>1, <4>1, <4>2
    <3>2. CASE n = m + 1
      <4>1. n - 1 \in 0 .. m + 1 /\ n - 1 = m /\ n \in 0 .. m + 1 /\ ~(n <= m)
        BY <3>2
      <4>2. g[n] = MapWidth * f[m] /\ g[n - 1] = f[m]
        BY <4>1
      <4> QED BY <4>2
    <3> QED BY <3>1, <3>2
  <2>4. Is(g, m + 1)
    <3> HIDE DEF g
    <3> QED BY <2>2, <2>3
  <2>5. \E f1 : Is(f1, m + 1)
    <3> HIDE DEF g, Is
    <3> QED BY <2>4
  <2> QED BY <2>5
<1>3. \A m \in Nat : \E f : Is(f, m)
  <2>1. Nat \subseteq S
    <3> HIDE DEF S
    <3> QED BY <1>1, <1>2, Induction
  <2> QED BY <2>1
<1>4. \A m \in Nat : Is(G(m), m)
  <2> TAKE m \in Nat
  <2>1. \E f : Is(f, m)
    BY <1>3
  <2> HIDE DEF Is
  <2> QED BY <2>1, Zenon
<1> HIDE DEF G
<1>5. \A m \in Nat : G(m)[0] = 1
  BY <1>4
<1>6. \A m \in Nat : \A n \in 1 .. m : G(m)[n] = MapWidth * G(m)[n - 1]
  BY <1>4
<1> HIDE DEF G
<1>7. ASSUME NEW m \in Nat PROVE \A n \in Nat : n <= m => G(m)[n] = P[n]
  <2> DEFINE T == {n \in Nat : \A k \in Nat : n <= k => G(k)[n] = P[n]}
  <2>1. 0 \in T
    BY <1>5
  <2>2. ASSUME NEW n \in Nat, n \in T PROVE n + 1 \in T
    <3>1. ASSUME NEW k \in Nat, n + 1 <= k PROVE G(k)[n + 1] = P[n + 1]
      <4>1. G(k)[n] = P[n] /\ G(n + 1)[n] = P[n]
        BY <2>2, <3>1
      <4>2. n + 1 \in 1 .. k /\ n + 1 \in 1 .. n + 1 /\ (n + 1) - 1 = n /\ n + 1 \in Nat
        BY <3>1
      <4>3. G(k)[n + 1] = MapWidth * G(k)[n] /\ G(n + 1)[n + 1] = MapWidth * G(n + 1)[n]
        BY <1>6, <4>2
      <4>4. P[n + 1] = G(n + 1)[n + 1]
        BY <4>2
      <4> HIDE DEF P
      <4> QED BY <4>1, <4>3, <4>4
    <3> QED BY <3>1
  <2>3. Nat \subseteq T
    <3> HIDE DEF T
    <3> QED BY <2>1, <2>2, Induction
  <2> QED BY <2>3
<1>8. P[0] = 1 /\ \A n \in Nat : P[n + 1] = MapWidth * P[n]
  <2>1. P[0] = 1
    BY <1>5
  <2>2. ASSUME NEW n \in Nat PROVE P[n + 1] = MapWidth * P[n]
    <3>1. n + 1 \in Nat /\ n <= n + 1 /\ n + 1 \in 1 .. n + 1 /\ (n + 1) - 1 = n
      OBVIOUS
    <3>2. G(n + 1)[n] = P[n] /\ P[n + 1] = G(n + 1)[n + 1]
      BY <1>7, <3>1
    <3>3. G(n + 1)[n + 1] = MapWidth * G(n + 1)[n]
      BY <1>6, <3>1
    <3> HIDE DEF P
    <3> QED BY <3>2, <3>3
  <2> QED BY <2>1, <2>2
<1>9. P = [n \in Nat |-> IF n = 0 THEN 1 ELSE MapWidth * P[n - 1]]
  <2>1. ASSUME NEW n \in Nat PROVE P[n] = IF n = 0 THEN 1 ELSE MapWidth * P[n - 1]
    <3>1. CASE n = 0
      BY <1>8, <3>1
    <3>2. CASE n # 0
      <4>1. n - 1 \in Nat /\ (n - 1) + 1 = n
        BY <3>2
      <4> HIDE DEF P
      <4> QED BY <1>8, <3>2, <4>1
    <3> QED BY <3>1, <3>2
  <2>2. P = [n \in Nat |-> P[n]]
    OBVIOUS
  <2> HIDE DEF P
  <2> QED BY <2>1, <2>2
<1>10. Weight = [n \in Nat |-> IF n = 0 THEN 1 ELSE MapWidth * Weight[n - 1]]
  <2>1. \E f : f = [n \in Nat |-> IF n = 0 THEN 1 ELSE MapWidth * f[n - 1]]
    <3> HIDE DEF P
    <3> QED BY <1>9
  <2> QED BY <2>1, Zenon DEF Weight
<1>11. Weight[0] = 1
  BY <1>10
<1>12. ASSUME NEW n \in Nat PROVE Weight[n + 1] = MapWidth * Weight[n]
  <2>1. n + 1 \in Nat /\ n + 1 # 0 /\ (n + 1) - 1 = n
    OBVIOUS
  <2> QED BY <1>10, <2>1
<1> DEFINE U == {n \in Nat : Weight[n] \in Nat \ {0}}
<1>13. 0 \in U
  BY <1>11
<1>14. ASSUME NEW n \in Nat, n \in U PROVE n + 1 \in U
  <2>1. Weight[n + 1] = MapWidth * Weight[n] /\ Weight[n] \in Nat \ {0} /\ MapWidth \in Nat \ {0}
    BY <1>12, <1>14, MapConstants DEF MapConstants
  <2> QED BY <2>1, Z3
<1>15. Nat \subseteq U
  <2> HIDE DEF U
  <2> QED BY <1>13, <1>14, Induction
<1> QED BY <1>11, <1>12, <1>15

LEMMA Sizes ==
  ASSUME MapConstants
  PROVE  /\ MapWidth \in Nat \ {0} /\ MapWidth >= 2 /\ MapHeight \in Nat /\ 0 \in Digits /\ 1 \in Digits
         /\ \A k \in Keys : Hash[k] \in 0 .. Weight[MapHeight] - 1 /\ Hash[k] \in Nat
         /\ Digits \subseteq Nat /\ \A d \in Digits : d < MapWidth
<1>1. MapWidth \in Nat /\ MapWidth >= 2 /\ MapHeight \in Nat /\ \A k \in Keys : Hash[k] \in 0 .. Weight[MapHeight] - 1
  BY DEF MapConstants
<1>2. Weight[MapHeight] \in Nat
  BY <1>1, PowerDef
<1>3. \A k \in Keys : Hash[k] \in Nat
  BY <1>1, <1>2
<1> QED BY <1>1, <1>3 DEF Digits

LEMMA MaskDigit ==
  ASSUME MapConstants, NEW h \in Nat, NEW l \in Nat
  PROVE  Mask(h, l) \in Digits
<1> DEFINE p == Weight[l]  q == h \div p
<1>1. p \in Nat \ {0}
  BY PowerDef
<1> HIDE DEF p
<1>2. q \in Nat
  BY <1>1, DivMod
<1> HIDE DEF q
<1>3. q % MapWidth \in 0 .. MapWidth - 1
  BY <1>2, Sizes, DivMod
<1> QED BY <1>3 DEF Mask, Digits, p, q

\* Hashes with the same digits are the same.
LEMMA SameDigits ==
  ASSUME MapConstants, NEW g \in 0 .. Weight[MapHeight] - 1, NEW h \in 0 .. Weight[MapHeight] - 1,
         \A l \in 0 .. MapHeight - 1 : Mask(g, l) = Mask(h, l)
  PROVE  g = h
<1>1. MapHeight \in Nat /\ MapWidth \in Nat \ {0} /\ \A n \in Nat : Weight[n] \in Nat \ {0}
  BY Sizes, PowerDef
<1>2. g \in Nat /\ h \in Nat /\ g < Weight[MapHeight] /\ h < Weight[MapHeight]
  BY <1>1
<1> DEFINE S == {m \in Nat : m <= MapHeight => g \div Weight[MapHeight - m] = h \div Weight[MapHeight - m]}
<1>3. 0 \in S
  <2> DEFINE p == Weight[MapHeight]
  <2>1. p \in Nat \ {0} /\ MapHeight - 0 = MapHeight /\ g < p /\ h < p
    BY <1>1, <1>2
  <2> HIDE DEF p
  <2>2. ASSUME NEW x \in Nat, x < p PROVE x \div p = 0
    <3>1. x \in 0 .. p - 1
      BY <2>1, <2>2
    <3>2. (p * 0 + x) \div p = 0
      BY <2>1, <3>1, Quotient
    <3>3. p * 0 + x = x
      BY <2>1
    <3> QED BY <3>2, <3>3
  <2>3. g \div p = h \div p
    BY <1>2, <2>1, <2>2
  <2> QED BY <2>1, <2>3 DEF p
<1>4. ASSUME NEW m \in Nat, m \in S PROVE m + 1 \in S
  <2> SUFFICES ASSUME m + 1 <= MapHeight
               PROVE  g \div Weight[MapHeight - (m + 1)] = h \div Weight[MapHeight - (m + 1)]
    OBVIOUS
  <2> DEFINE l == MapHeight - (m + 1)  p == Weight[l]
  <2>1. l \in Nat /\ l \in 0 .. MapHeight - 1 /\ l + 1 = MapHeight - m /\ m <= MapHeight
    BY <1>1
  <2>2. g \div Weight[l + 1] = h \div Weight[l + 1]
    BY <1>4, <2>1
  <2> HIDE DEF l
  <2>3. p \in Nat \ {0} /\ Weight[l + 1] = MapWidth * p
    BY <1>1, <2>1, PowerDef
  <2> HIDE DEF p
  <2>4. ASSUME NEW x \in Nat PROVE x \div p = MapWidth * (x \div Weight[l + 1]) + Mask(x, l)
    <3> DEFINE q == x \div p
    <3>1. q \in Nat
      BY <2>3, DivMod
    <3>2. q \div MapWidth = x \div Weight[l + 1]
      BY <1>1, <2>3, DivDiv
    <3>3. Mask(x, l) = q % MapWidth
      BY DEF Mask, p
    <3> HIDE DEF q
    <3>4. q = MapWidth * (q \div MapWidth) + (q % MapWidth)
      BY <1>1, <3>1, DivMod
    <3>5. q = MapWidth * (x \div Weight[l + 1]) + Mask(x, l)
      BY ONLY <3>2, <3>3, <3>4
    <3> QED BY <3>5 DEF q
  <2>5. Mask(g, l) = Mask(h, l)
    BY <2>1
  <2>6. g \div p = MapWidth * (g \div Weight[l + 1]) + Mask(g, l)
    BY <1>2, <2>4
  <2>7. h \div p = MapWidth * (h \div Weight[l + 1]) + Mask(h, l)
    BY <1>2, <2>4
  <2>8. g \div p = h \div p
    BY ONLY <2>2, <2>5, <2>6, <2>7
  <2> QED BY <2>8 DEF p, l
<1>5. MapHeight \in S
  <2> HIDE DEF S
  <2> QED BY <1>1, <1>3, <1>4, Induction
<1>6. MapHeight - MapHeight = 0 /\ MapHeight <= MapHeight
  BY <1>1
<1>7. g \div Weight[0] = h \div Weight[0]
  BY <1>5, <1>6
<1>8. Weight[0] = 1
  BY PowerDef
<1>9. g \div 1 = g /\ h \div 1 = h
  BY <1>2
<1> QED BY <1>7, <1>8, <1>9

-----------------------------------------------------------------------------
(* Digits *)


-----------------------------------------------------------------------------
(* Sequences *)

LEMMA AppendFacts ==
  ASSUME NEW S, NEW s \in Seq(S), NEW x \in S
  PROVE  /\ Append(s, x) \in Seq(S) /\ Len(Append(s, x)) = Len(s) + 1 /\ Len(s) \in Nat
         /\ \A i \in 1 .. Len(s) : Append(s, x)[i] = s[i]
         /\ Append(s, x)[Len(s) + 1] = x
  OBVIOUS

LEMMA ExceptFacts ==
  ASSUME NEW S, NEW s \in Seq(S), NEW k \in 1 .. Len(s), NEW x \in S
  PROVE  /\ [s EXCEPT ![k] = x] \in Seq(S) /\ Len([s EXCEPT ![k] = x]) = Len(s)
         /\ \A i \in 1 .. Len(s) : [s EXCEPT ![k] = x][i] = IF i = k THEN x ELSE s[i]
  OBVIOUS

LEMMA ConcatFacts ==
  ASSUME NEW S, NEW s \in Seq(S), NEW r \in Seq(S)
  PROVE  /\ s \o r \in Seq(S) /\ Len(s \o r) = Len(s) + Len(r) /\ Len(s) \in Nat /\ Len(r) \in Nat
         /\ \A i \in 1 .. Len(s) : (s \o r)[i] = s[i]
         /\ \A i \in 1 .. Len(r) : (s \o r)[Len(s) + i] = r[i]
  OBVIOUS

LEMMA SameSeq ==
  ASSUME NEW S, NEW s \in Seq(S), NEW r \in Seq(S), Len(s) = Len(r),
         \A i \in 1 .. Len(s) : s[i] = r[i]
  PROVE  s = r
  OBVIOUS

LEMMA SeqFacts ==
  ASSUME NEW S, NEW n \in Nat, NEW f, f = [k \in 1 .. n |-> f[k]], \A k \in 1 .. n : f[k] \in S
  PROVE  f \in Seq(S) /\ Len(f) = n
  OBVIOUS

LEMMA PartFacts ==
  ASSUME NEW S, NEW s \in Seq(S), NEW a \in 1 .. Len(s) + 1, NEW b \in 0 .. Len(s), a <= b + 1
  PROVE  /\ SubSeq(s, a, b) \in Seq(S) /\ Len(SubSeq(s, a, b)) = b - a + 1 /\ b - a + 1 \in Nat
         /\ \A i \in 1 .. b - a + 1 : SubSeq(s, a, b)[i] = s[a + i - 1]
<1> DEFINE f == SubSeq(s, a, b)
<1>1. Len(s) \in Nat /\ a \in Int /\ b \in Int /\ b - a + 1 \in Nat
  OBVIOUS
<1>2. \A i \in a .. b : s[i] \in S
  BY <1>1
<1>3. /\ f \in Seq(S) /\ Len(f) = IF a <= b THEN b - a + 1 ELSE 0
      /\ \A i \in 1 .. b - a + 1 : f[i] = s[a + i - 1]
  BY <1>1, <1>2, SubSeqProperties
<1> HIDE DEF f
<1>4. Len(f) = b - a + 1
  BY <1>1, <1>3
<1> QED BY <1>1, <1>3, <1>4 DEF f

LEMMA InsertFacts ==
  ASSUME NEW S, NEW s \in Seq(S), NEW k \in 1 .. Len(s) + 1, NEW x \in S
  PROVE  /\ InsertAt(s, k, x) \in Seq(S) /\ Len(InsertAt(s, k, x)) = Len(s) + 1 /\ Len(s) \in Nat
         /\ \A i \in 1 .. Len(s) + 1 :
              InsertAt(s, k, x)[i] = IF i < k THEN s[i] ELSE IF i = k THEN x ELSE s[i - 1]
<1> DEFINE n == Len(s)  f == SubSeq(s, 1, k - 1)  g == SubSeq(s, k, n)  m == f \o <<x>>  r == m \o g
<1>1. n \in Nat /\ k \in Nat /\ k - 1 \in 0 .. n /\ 1 \in 1 .. n + 1 /\ n \in 0 .. n
  OBVIOUS
<1>2. f \in Seq(S) /\ Len(f) = k - 1 /\ \A i \in 1 .. k - 1 : f[i] = s[i]
  <2>1. /\ f \in Seq(S) /\ Len(f) = (k - 1) - 1 + 1
        /\ \A i \in 1 .. (k - 1) - 1 + 1 : f[i] = s[1 + i - 1]
    BY <1>1, PartFacts
  <2> HIDE DEF f, n
  <2>2. \A i \in 1 .. k - 1 : i \in 1 .. (k - 1) - 1 + 1 /\ 1 + i - 1 = i
    BY <1>1
  <2>3. (k - 1) - 1 + 1 = k - 1
    BY <1>1
  <2> QED BY <2>1, <2>2, <2>3
<1>3. g \in Seq(S) /\ Len(g) = n - k + 1 /\ \A i \in 1 .. n - k + 1 : g[i] = s[k + i - 1]
  BY <1>1, PartFacts
<1>4. <<x>> \in Seq(S) /\ Len(<<x>>) = 1 /\ <<x>>[1] = x
  OBVIOUS
<1> DEFINE o == <<x>>
<1> HIDE DEF f, g, o, n
<1>5. /\ m \in Seq(S) /\ Len(m) = k
      /\ \A i \in 1 .. k : m[i] = IF i = k THEN x ELSE s[i]
  <2> DEFINE q == f \o o
  <2>1. o \in Seq(S) /\ Len(o) = 1 /\ o[1] = x
    BY <1>4 DEF o
  <2>2. /\ q \in Seq(S) /\ Len(q) = Len(f) + Len(o)
        /\ (\A i \in 1 .. Len(f) : q[i] = f[i]) /\ \A i \in 1 .. Len(o) : q[Len(f) + i] = o[i]
    <3>1. f \in Seq(S) /\ o \in Seq(S)
      BY <1>2, <2>1
    <3> QED BY ONLY <3>1, ConcatFacts
  <2> HIDE DEF q
  <2>3. Len(q) = k
    BY <1>1, <1>2, <2>1, <2>2
  <2>4. ASSUME NEW i \in 1 .. k PROVE q[i] = IF i = k THEN x ELSE s[i]
    <3>1. CASE i = k
      <4>1. i = Len(f) + 1 /\ 1 \in 1 .. Len(o)
        BY <1>1, <1>2, <2>1, <3>1
      <4> QED BY <2>1, <2>2, <3>1, <4>1
    <3>2. CASE i # k
      <4>1. i \in 1 .. Len(f) /\ i \in 1 .. k - 1
        BY <1>1, <1>2, <3>2
      <4> QED BY <1>2, <2>2, <3>2, <4>1
    <3> QED BY <3>1, <3>2
  <2>5. q = m
    BY DEF q, o
  <2> QED BY <2>2, <2>3, <2>4, <2>5
<1> HIDE DEF m
<1>6. /\ r \in Seq(S) /\ Len(r) = Len(m) + Len(g)
      /\ (\A i \in 1 .. Len(m) : r[i] = m[i]) /\ \A i \in 1 .. Len(g) : r[Len(m) + i] = g[i]
  <2>1. m \in Seq(S) /\ g \in Seq(S)
    BY <1>3, <1>5
  <2> QED BY ONLY <2>1, ConcatFacts
<1> HIDE DEF r
<1>7. Len(r) = n + 1
  BY <1>1, <1>3, <1>5, <1>6
<1>8. ASSUME NEW i \in 1 .. n + 1 PROVE r[i] = IF i < k THEN s[i] ELSE IF i = k THEN x ELSE s[i - 1]
  <2>1. CASE i <= k
    <3>1. i \in 1 .. Len(m) /\ i \in 1 .. k
      BY <1>1, <1>5, <2>1
    <3>2. r[i] = IF i = k THEN x ELSE s[i]
      BY <1>5, <1>6, <3>1
    <3> QED BY <1>1, <2>1, <3>2
  <2>2. CASE i > k
    <3>1. i - k \in 1 .. Len(g) /\ i = Len(m) + (i - k) /\ i - k \in 1 .. n - k + 1 /\ k + (i - k) - 1 = i - 1
      BY <1>1, <1>3, <1>5, <2>2
    <3>2. r[i] = g[i - k] /\ g[i - k] = s[k + (i - k) - 1]
      BY <1>3, <1>6, <3>1
    <3>3. r[i] = s[i - 1]
      BY ONLY <3>1, <3>2
    <3>4. ~(i < k) /\ i # k
      BY <1>1, <2>2
    <3> QED BY <3>3, <3>4
  <2> QED BY <1>1, <2>1, <2>2
<1>9. InsertAt(s, k, x) = r
  BY DEF InsertAt, r, m, f, g, n
<1> QED BY <1>1, <1>6, <1>7, <1>8, <1>9 DEF n

LEMMA RemoveFacts ==
  ASSUME NEW S, NEW s \in Seq(S), NEW k \in 1 .. Len(s)
  PROVE  /\ RemoveAt(s, k) \in Seq(S) /\ Len(RemoveAt(s, k)) = Len(s) - 1 /\ Len(s) - 1 \in Nat
         /\ \A i \in 1 .. Len(s) - 1 : RemoveAt(s, k)[i] = IF i < k THEN s[i] ELSE s[i + 1]
<1> DEFINE n == Len(s)  f == SubSeq(s, 1, k - 1)  g == SubSeq(s, k + 1, n)  r == f \o g
<1>1. /\ n \in Nat /\ k \in Nat /\ k - 1 \in 0 .. n /\ 1 \in 1 .. n + 1 /\ n \in 0 .. n
      /\ k + 1 \in 1 .. n + 1 /\ n - 1 \in Nat
  OBVIOUS
<1>2. f \in Seq(S) /\ Len(f) = k - 1 /\ \A i \in 1 .. k - 1 : f[i] = s[i]
  <2>1. /\ f \in Seq(S) /\ Len(f) = (k - 1) - 1 + 1
        /\ \A i \in 1 .. (k - 1) - 1 + 1 : f[i] = s[1 + i - 1]
    BY <1>1, PartFacts
  <2> HIDE DEF f, n
  <2>2. \A i \in 1 .. k - 1 : i \in 1 .. (k - 1) - 1 + 1 /\ 1 + i - 1 = i
    BY <1>1
  <2>3. (k - 1) - 1 + 1 = k - 1
    BY <1>1
  <2> QED BY <2>1, <2>2, <2>3
<1>3. g \in Seq(S) /\ Len(g) = n - k /\ \A i \in 1 .. n - k : g[i] = s[k + i]
  <2>1. /\ g \in Seq(S) /\ Len(g) = n - (k + 1) + 1
        /\ \A i \in 1 .. n - (k + 1) + 1 : g[i] = s[(k + 1) + i - 1]
    BY <1>1, PartFacts
  <2> HIDE DEF g, n
  <2>2. n - (k + 1) + 1 = n - k /\ \A i \in 1 .. n - k : (k + 1) + i - 1 = k + i
    BY <1>1
  <2> QED BY <2>1, <2>2
<1> HIDE DEF f, g, n
<1>4. /\ r \in Seq(S) /\ Len(r) = Len(f) + Len(g)
      /\ (\A i \in 1 .. Len(f) : r[i] = f[i]) /\ \A i \in 1 .. Len(g) : r[Len(f) + i] = g[i]
  <2>1. f \in Seq(S) /\ g \in Seq(S)
    BY <1>2, <1>3
  <2> QED BY ONLY <2>1, ConcatFacts
<1> HIDE DEF r
<1>5. Len(r) = n - 1
  BY <1>1, <1>2, <1>3, <1>4
<1>6. ASSUME NEW i \in 1 .. n - 1 PROVE r[i] = IF i < k THEN s[i] ELSE s[i + 1]
  <2>1. CASE i < k
    <3>1. i \in 1 .. Len(f) /\ i \in 1 .. k - 1
      BY <1>1, <1>2, <2>1
    <3> QED BY <1>2, <1>4, <2>1, <3>1
  <2>2. CASE ~(i < k)
    <3>1. i - (k - 1) \in 1 .. Len(g) /\ i = Len(f) + (i - (k - 1)) /\ i - (k - 1) \in 1 .. n - k /\ k + (i - (k - 1)) = i + 1
      BY <1>1, <1>2, <1>3, <2>2
    <3>2. r[i] = g[i - (k - 1)] /\ g[i - (k - 1)] = s[i + 1]
      BY <1>3, <1>4, <3>1
    <3> QED BY <2>2, <3>2
  <2> QED BY <2>1, <2>2
<1>7. RemoveAt(s, k) = r
  BY DEF RemoveAt, r, f, g, n
<1> QED BY <1>1, <1>4, <1>5, <1>6, <1>7 DEF n

-----------------------------------------------------------------------------
(* Digits *)

LEMMA PrefixFacts ==
  ASSUME MapConstants, NEW h \in Nat, NEW l \in Nat
  PROVE  /\ Prefix(h, l) \in Seq(Digits) /\ Len(Prefix(h, l)) = l
         /\ \A i \in 1 .. l : Prefix(h, l)[i] = Mask(h, i - 1)
<1> DEFINE f == Prefix(h, l)
<1>1. f = [i \in 1 .. l |-> f[i]] /\ \A i \in 1 .. l : f[i] = Mask(h, i - 1)
  BY DEF Prefix
<1>2. \A i \in 1 .. l : f[i] \in Digits
  <2> TAKE i \in 1 .. l
  <2>1. i - 1 \in Nat
    OBVIOUS
  <2> QED BY <1>1, <2>1, MaskDigit
<1> HIDE DEF f
<1>3. f \in Seq(Digits) /\ Len(f) = l
  BY <1>1, <1>2, SeqFacts
<1> QED BY <1>1, <1>3 DEF f

LEMMA PrefixEmpty ==
  ASSUME NEW h
  PROVE  Prefix(h, 0) = <<>>
  BY DEF Prefix

\* A hash begins with some digits and another one if it begins with these digits and
\* the next one of it is the other one.
LEMMA PrefixNext ==
  ASSUME MapConstants, NEW h \in Nat, NEW l \in Nat, NEW r \in Seq(Digits), Len(r) = l, NEW d \in Digits
  PROVE  Prefix(h, l + 1) = Append(r, d) <=> Prefix(h, l) = r /\ Mask(h, l) = d
<1> DEFINE f == Prefix(h, l)  g == Prefix(h, l + 1)  a == Append(r, d)
<1>1. f \in Seq(Digits) /\ Len(f) = l /\ \A i \in 1 .. l : f[i] = Mask(h, i - 1)
  BY PrefixFacts
<1>2. g \in Seq(Digits) /\ Len(g) = l + 1 /\ \A i \in 1 .. l + 1 : g[i] = Mask(h, i - 1)
  BY PrefixFacts
<1>3. a \in Seq(Digits) /\ Len(a) = l + 1 /\ a[l + 1] = d /\ \A i \in 1 .. l : a[i] = r[i]
  BY AppendFacts
<1> HIDE DEF f, g, a
<1>4. l + 1 \in 1 .. l + 1 /\ (l + 1) - 1 = l /\ \A i \in 1 .. l : i \in 1 .. l + 1
  OBVIOUS
<1>5. g[l + 1] = Mask(h, l) /\ \A i \in 1 .. l : g[i] = f[i]
  BY <1>1, <1>2, <1>4
<1>6. ASSUME g = a PROVE f = r /\ Mask(h, l) = d
  <2>1. \A i \in 1 .. l : f[i] = r[i]
    BY <1>3, <1>5, <1>6
  <2>2. f = r
    BY <1>1, <2>1, SameSeq
  <2> QED BY <1>3, <1>5, <1>6, <2>2
<1>7. ASSUME f = r, Mask(h, l) = d PROVE g = a
  <2>1. ASSUME NEW i \in 1 .. l + 1 PROVE g[i] = a[i]
    <3>1. CASE i = l + 1
      BY <1>3, <1>5, <1>7, <3>1
    <3>2. CASE i # l + 1
      <4>1. i \in 1 .. l
        BY <3>2
      <4> QED BY <1>3, <1>5, <1>7, <4>1
    <3> QED BY <3>1, <3>2
  <2> QED BY <1>2, <1>3, <2>1, SameSeq
<1> QED BY <1>6, <1>7 DEF f, g, a

LEMMA PrefixWhole ==
  ASSUME MapConstants, NEW g \in 0 .. Weight[MapHeight] - 1, NEW h \in 0 .. Weight[MapHeight] - 1,
         Prefix(g, MapHeight) = Prefix(h, MapHeight)
  PROVE  g = h
<1>1. MapHeight \in Nat /\ Weight[MapHeight] \in Nat \ {0}
  BY Sizes, PowerDef
<1>2. g \in Nat /\ h \in Nat
  BY <1>1
<1> DEFINE p == Prefix(g, MapHeight)  q == Prefix(h, MapHeight)
<1>3. \A i \in 1 .. MapHeight : p[i] = Mask(g, i - 1)
  BY <1>1, <1>2, PrefixFacts
<1>4. \A i \in 1 .. MapHeight : q[i] = Mask(h, i - 1)
  BY <1>1, <1>2, PrefixFacts
<1>5. p = q
  OBVIOUS
<1> HIDE DEF p, q
<1>6. ASSUME NEW l \in 0 .. MapHeight - 1 PROVE Mask(g, l) = Mask(h, l)
  <2>1. l + 1 \in 1 .. MapHeight /\ (l + 1) - 1 = l
    BY <1>1
  <2>2. p[l + 1] = Mask(g, l) /\ q[l + 1] = Mask(h, l)
    BY <1>3, <1>4, <2>1
  <2> QED BY <1>5, <2>2
<1> QED BY <1>6, SameDigits

-----------------------------------------------------------------------------
(* Positions *)

LEMMA BitmapFinite ==
  ASSUME MapConstants, NEW b \in SUBSET Digits
  PROVE  IsFiniteSet(b) /\ Cardinality(b) \in Nat
<1>1. IsFiniteSet(Digits)
  BY Sizes, FS_Interval DEF Digits
<1>2. IsFiniteSet(b)
  BY <1>1, FS_Subset
<1> QED BY <1>2, FS_CardinalityType

LEMMA PositionOf ==
  ASSUME MapConstants, NEW b \in SUBSET Digits, NEW d \in Digits
  PROVE  /\ Position(b, d) \in 1 .. Cardinality(b) + 1
         /\ d \in b => Position(b, d) \in 1 .. Cardinality(b)
<1> DEFINE B == {e \in b : e < d}
<1>1. IsFiniteSet(b) /\ Cardinality(b) \in Nat
  BY BitmapFinite
<1>2. B \in SUBSET b /\ Cardinality(B) \in Nat
  <2>1. B \in SUBSET Digits
    OBVIOUS
  <2> QED BY <2>1, BitmapFinite
<1>3. Cardinality(B) <= Cardinality(b)
  BY <1>1, <1>2, FS_Subset
<1>4. ASSUME d \in b PROVE Cardinality(B) <= Cardinality(b) - 1
  <2>1. IsFiniteSet(b \ {d}) /\ Cardinality(b \ {d}) = Cardinality(b) - 1
    BY <1>1, <1>4, FS_RemoveElement
  <2>2. B \in SUBSET (b \ {d})
    BY <1>4, Sizes
  <2> QED BY <2>1, <2>2, FS_Subset
<1> QED BY <1>1, <1>2, <1>3, <1>4 DEF Position

LEMMA PositionOrder ==
  ASSUME MapConstants, NEW b \in SUBSET Digits, NEW d \in b, NEW e \in Digits, d < e
  PROVE  Position(b, d) < Position(b, e)
<1> DEFINE B == {x \in b : x < d}  C == {x \in b : x < e}
<1>1. B \in SUBSET Digits /\ C \in SUBSET Digits /\ d \in C /\ b \subseteq Nat /\ d \in Nat /\ e \in Nat
  BY Sizes
<1>2. IsFiniteSet(C) /\ Cardinality(C) \in Nat /\ Cardinality(B) \in Nat
  BY <1>1, BitmapFinite
<1>3. B \in SUBSET (C \ {d})
  <2> SUFFICES ASSUME NEW x \in B PROVE x \in C /\ x # d
    OBVIOUS
  <2>1. x \in b /\ x < d /\ x \in Nat
    BY <1>1
  <2>2. x < e /\ x # d
    BY <1>1, <2>1
  <2> QED BY <2>1, <2>2
<1> HIDE DEF B, C
<1>4. IsFiniteSet(C \ {d}) /\ Cardinality(C \ {d}) = Cardinality(C) - 1
  BY <1>1, <1>2, FS_RemoveElement
<1>5. Cardinality(B) <= Cardinality(C) - 1
  BY <1>3, <1>4, FS_Subset
<1> QED BY <1>2, <1>5 DEF Position, B, C

\* Two digits of a bitmap have two positions.
LEMMA PositionOnce ==
  ASSUME MapConstants, NEW b \in SUBSET Digits, NEW d \in b, NEW e \in b, d # e
  PROVE  Position(b, d) # Position(b, e)
<1>1. d \in Nat /\ e \in Nat /\ d \in Digits /\ e \in Digits /\ Cardinality(b) \in Nat
  BY Sizes, BitmapFinite
<1>2. Position(b, d) \in Nat /\ Position(b, e) \in Nat
  BY <1>1, PositionOf
<1>3. CASE d < e
  BY <1>1, <1>2, <1>3, PositionOrder
<1>4. CASE e < d
  BY <1>1, <1>2, <1>4, PositionOrder
<1> QED BY <1>1, <1>3, <1>4

\* Another digit moves those behind it.
LEMMA PositionMore ==
  ASSUME MapConstants, NEW b \in SUBSET Digits, NEW d \in Digits \ b, NEW e \in Digits
  PROVE  Position(b \union {d}, e) = IF d < e THEN Position(b, e) + 1 ELSE Position(b, e)
<1> DEFINE B == {x \in b : x < e}  C == {x \in b \union {d} : x < e}
<1>1. B \in SUBSET Digits /\ d \notin B
  OBVIOUS
<1>2. IsFiniteSet(B) /\ Cardinality(B) \in Nat
  BY <1>1, BitmapFinite
<1>3. CASE d < e
  <2>1. C = B \union {d}
    BY <1>3
  <2> HIDE DEF B, C
  <2>2. Cardinality(C) = Cardinality(B) + 1
    BY <1>1, <1>2, <2>1, FS_AddElement
  <2> QED BY <1>2, <1>3, <2>2 DEF Position, B, C
<1>4. CASE ~(d < e)
  <2>1. C = B
    BY <1>4
  <2> HIDE DEF B, C
  <2> QED BY <1>4, <2>1 DEF Position, B, C
<1> QED BY <1>3, <1>4

\* In a full node the position is the digit.
LEMMA PositionFull ==
  ASSUME MapConstants, NEW d \in Digits
  PROVE  Position(Digits, d) = d + 1 /\ Cardinality(Digits) = MapWidth
<1>1. d \in Nat /\ d < MapWidth /\ MapWidth \in Nat
  BY Sizes
<1>2. {e \in Digits : e < d} = 0 .. d - 1
  BY <1>1 DEF Digits
<1>3. Cardinality(0 .. d - 1) = d
  <2>1. 0 \in Int /\ d - 1 \in Int
    BY <1>1
  <2>2. Cardinality(0 .. d - 1) = IF 0 > d - 1 THEN 0 ELSE (d - 1) - 0 + 1
    BY <2>1, FS_Interval
  <2> QED BY <1>1, <2>2
<1>4. Cardinality(0 .. MapWidth - 1) = MapWidth
  <2>1. 0 \in Int /\ MapWidth - 1 \in Int
    BY <1>1
  <2>2. Cardinality(0 .. MapWidth - 1) = IF 0 > MapWidth - 1 THEN 0 ELSE (MapWidth - 1) - 0 + 1
    BY <2>1, FS_Interval
  <2> QED BY <1>1, <2>2
<1> QED BY <1>2, <1>3, <1>4 DEF Position, Digits

-----------------------------------------------------------------------------
(* Nodes *)

\* What the nodes of a tree are: leaves, collisions, and inner nodes at a level.
Leafy(n) == n = Leaf(n.key, n.val) /\ n.key \in Keys /\ n.val # Absent

Shared(n) ==
  /\ n = Collision(n.hash, n.leaves) /\ n.leaves \in Seq(Range(n.leaves)) /\ Len(n.leaves) >= 2
  /\ \A i \in 1 .. Len(n.leaves) : Leafy(n.leaves[i]) /\ n.leaves[i].hash = n.hash
  /\ \A i, j \in 1 .. Len(n.leaves) : n.leaves[i].key = n.leaves[j].key => i = j

Inner(n, level) ==
  \/ /\ n = Idx(n.bitmap, n.nodes, level) /\ n.nodes \in Seq(Range(n.nodes))
     /\ n.bitmap \in SUBSET Digits /\ n.bitmap # {} /\ n.bitmap # Digits
     /\ Len(n.nodes) = Cardinality(n.bitmap)
  \/ n = FullNode(n.nodes, level) /\ n.nodes \in Seq(Range(n.nodes)) /\ Len(n.nodes) = MapWidth

LEMMA OwnRange ==
  ASSUME NEW S, NEW s \in Seq(S)
  PROVE  s \in Seq(Range(s)) /\ Range(s) \subseteq S /\ \A i \in 1 .. Len(s) : s[i] \in Range(s)
<1>1. Len(s) \in Nat /\ s = [i \in 1 .. Len(s) |-> s[i]] /\ DOMAIN s = 1 .. Len(s)
  OBVIOUS
<1>2. \A i \in 1 .. Len(s) : s[i] \in Range(s) /\ s[i] \in S
  BY <1>1 DEF Range
<1>3. s \in Seq(Range(s))
  BY <1>1, <1>2, SeqFacts
<1>4. Range(s) \subseteq S
  BY <1>1, <1>2 DEF Range
<1> QED BY <1>2, <1>3, <1>4

\* A leaf or collision has no children.
LEMMA TipBits ==
  ASSUME NEW n, Leafy(n) \/ Shared(n) \/ n = EmptyNode \/ n = NoNode
  PROVE  Bits(n) = {} /\ \A k : ~Leads(n, k)
<1>1. n.kind # "idx" /\ n.kind # "full"
  BY DEF Leafy, Shared, Leaf, Collision, EmptyNode, NoNode
<1> QED BY <1>1 DEF Bits, Leads

\* The bits, the level and the children of an inner node.
LEMMA InnerBits ==
  ASSUME MapConstants, NEW l, NEW n, Inner(n, l)
  PROVE  /\ Bits(n) \in SUBSET Digits /\ Bits(n) # {} /\ n.level = l /\ n.kind \in {"idx", "full"}
         /\ n.kind = "full" <=> Bits(n) = Digits
         /\ n.nodes \in Seq(Range(n.nodes)) /\ Len(n.nodes) = Cardinality(Bits(n))
         /\ \A d \in Bits(n) : ChildAt(n, d) = n.nodes[Position(Bits(n), d)]
         /\ n = IdxOrFull(Bits(n), n.nodes, l)
<1>1. CASE /\ n = Idx(n.bitmap, n.nodes, l) /\ n.nodes \in Seq(Range(n.nodes))
           /\ n.bitmap \in SUBSET Digits /\ n.bitmap # {} /\ n.bitmap # Digits
           /\ Len(n.nodes) = Cardinality(n.bitmap)
  <2>1. n.kind = "idx" /\ n.level = l
    BY <1>1 DEF Idx
  <2>2. Bits(n) = n.bitmap
    BY <2>1 DEF Bits
  <2>3. \A d \in Bits(n) : ChildAt(n, d) = n.nodes[Position(Bits(n), d)]
    BY <2>1, <2>2 DEF ChildAt
  <2>4. n = IdxOrFull(Bits(n), n.nodes, l)
    BY <1>1, <2>2 DEF IdxOrFull
  <2> QED BY <1>1, <2>1, <2>2, <2>3, <2>4
<1>2. CASE n = FullNode(n.nodes, l) /\ n.nodes \in Seq(Range(n.nodes)) /\ Len(n.nodes) = MapWidth
  <2>1. n.kind = "full" /\ n.level = l
    BY <1>2 DEF FullNode
  <2>2. Bits(n) = Digits
    BY <2>1 DEF Bits
  <2>3. \A d \in Bits(n) : ChildAt(n, d) = n.nodes[Position(Bits(n), d)]
    BY <2>1, <2>2, PositionFull DEF ChildAt
  <2>4. n = IdxOrFull(Bits(n), n.nodes, l)
    BY <1>2, <2>2 DEF IdxOrFull
  <2>5. Len(n.nodes) = Cardinality(Bits(n)) /\ Bits(n) # {}
    BY <1>2, <2>2, Sizes, PositionFull
  <2> QED BY <1>2, <2>1, <2>2, <2>3, <2>4, <2>5
<1> QED BY <1>1, <1>2 DEF Inner

\* m has children s for the digits b.
Parent(m, b, s, l) == Inner(m, l) /\ Bits(m) = b /\ \A d \in b : ChildAt(m, d) = s[Position(b, d)]

\* An inner node of some bits and children.
LEMMA InnerMade ==
  ASSUME MapConstants, NEW l, NEW b \in SUBSET Digits, b # {}, NEW S, NEW s \in Seq(S),
         Len(s) = Cardinality(b)
  PROVE  Parent(IdxOrFull(b, s, l), b, s, l)
<1>1. s \in Seq(Range(s))
  BY OwnRange
<1>2. CASE b = Digits
  <2> DEFINE m == FullNode(s, l)
  <2>1. m.kind = "full" /\ m.nodes = s /\ m = FullNode(m.nodes, l)
    BY DEF FullNode
  <2>2. IdxOrFull(b, s, l) = m
    BY <1>2 DEF IdxOrFull
  <2> HIDE DEF m
  <2>3. Len(s) = MapWidth
    BY <1>2, Sizes, PositionFull
  <2>4. Inner(m, l)
    BY <1>1, <2>1, <2>3 DEF Inner
  <2>5. Bits(m) = b
    BY <1>2, <2>1 DEF Bits
  <2>6. \A d \in b : ChildAt(m, d) = s[Position(b, d)]
    BY <1>2, <2>1, PositionFull DEF ChildAt
  <2> QED BY <2>2, <2>4, <2>5, <2>6 DEF Parent
<1>3. CASE b # Digits
  <2> DEFINE m == Idx(b, s, l)
  <2>1. m.kind = "idx" /\ m.nodes = s /\ m.bitmap = b /\ m = Idx(m.bitmap, m.nodes, l)
    BY DEF Idx
  <2>2. IdxOrFull(b, s, l) = m
    BY <1>3 DEF IdxOrFull
  <2> HIDE DEF m
  <2>3. Inner(m, l)
    BY <1>1, <1>3, <2>1 DEF Inner
  <2>4. Bits(m) = b
    BY <2>1 DEF Bits
  <2>5. \A d \in b : ChildAt(m, d) = s[Position(b, d)]
    BY <2>1 DEF ChildAt
  <2> QED BY <2>2, <2>3, <2>4, <2>5 DEF Parent
<1> QED BY <1>2, <1>3

\* A clone with another child.
LEMMA WithChildFacts ==
  ASSUME MapConstants, NEW l, NEW n, Inner(n, l), NEW d \in Bits(n), NEW x
  PROVE  /\ Inner(WithChild(n, d, x, l), l) /\ Bits(WithChild(n, d, x, l)) = Bits(n)
         /\ \A e \in Bits(n) : ChildAt(WithChild(n, d, x, l), e) = IF e = d THEN x ELSE ChildAt(n, e)
         /\ WithChild(n, d, ChildAt(n, d), l) = n
<1> DEFINE b == Bits(n)  s == n.nodes  k == Position(b, d)  r == [s EXCEPT ![k] = x]
           S == Range(s) \union {x}
<1>1. /\ b \in SUBSET Digits /\ b # {} /\ n.kind \in {"idx", "full"} /\ (n.kind = "full" <=> b = Digits)
      /\ s \in Seq(Range(s)) /\ Len(s) = Cardinality(b) /\ n = IdxOrFull(b, s, l)
  BY InnerBits
<1>2. \A e \in b : ChildAt(n, e) = s[Position(b, e)]
  BY InnerBits
<1>3. d \in b /\ d \in Digits /\ (n.kind = "idx" => n.bitmap = b)
  BY <1>1 DEF Bits
<1>4. \A y : WithChild(n, d, y, l) = IdxOrFull(b, [s EXCEPT ![k] = y], l)
  <2> TAKE y
  <2>1. CASE n.kind = "full"
    <3>1. d + 1 = k /\ b = Digits
      BY <1>1, <1>3, <2>1, PositionFull
    <3> QED BY <2>1, <3>1 DEF WithChild, IdxOrFull
  <2>2. CASE n.kind = "idx"
    <3>1. n.kind # "full" /\ b # Digits /\ n.bitmap = b
      BY <1>1, <1>3, <2>2
    <3> QED BY <3>1 DEF WithChild, IdxOrFull
  <2> QED BY <1>1, <2>1, <2>2
<1>5. k \in 1 .. Len(s) /\ s \in Seq(S) /\ x \in S
  <2>1. k \in 1 .. Cardinality(b)
    BY <1>1, <1>3, PositionOf
  <2>2. s \in Seq(S)
    BY <1>1
  <2> QED BY <1>1, <2>1, <2>2
<1>6. [s EXCEPT ![k] = s[k]] = s
  BY <1>1
<1>7. \A e \in b : Position(b, e) \in 1 .. Len(s) /\ (e # d => Position(b, e) # k)
  <2> TAKE e \in b
  <2>1. Position(b, e) \in 1 .. Len(s)
    BY <1>1, PositionOf
  <2>2. e # d => Position(b, e) # k
    BY <1>1, <1>3, PositionOnce
  <2> QED BY <2>1, <2>2
<1> HIDE DEF b, s, k, S
<1>8. r \in Seq(S) /\ Len(r) = Len(s) /\ \A i \in 1 .. Len(s) : r[i] = IF i = k THEN x ELSE s[i]
  BY <1>5, ExceptFacts
<1> HIDE DEF r
<1> DEFINE m == IdxOrFull(b, r, l)
<1>9. Inner(m, l) /\ Bits(m) = b /\ \A e \in b : ChildAt(m, e) = r[Position(b, e)]
  <2>1. b \in SUBSET Digits /\ b # {} /\ r \in Seq(S) /\ Len(r) = Cardinality(b)
    BY <1>1, <1>8
  <2>2. Parent(m, b, r, l)
    BY ONLY MapConstants, <2>1, InnerMade
  <2> QED BY <2>2 DEF Parent
<1> HIDE DEF m
<1>10. ASSUME NEW e \in b PROVE ChildAt(m, e) = IF e = d THEN x ELSE ChildAt(n, e)
  <2>1. ChildAt(m, e) = IF Position(b, e) = k THEN x ELSE s[Position(b, e)]
    BY <1>7, <1>8, <1>9
  <2> QED BY <1>2, <1>7, <2>1 DEF k
<1>11. WithChild(n, d, x, l) = m
  BY <1>4 DEF m, r
<1>12. WithChild(n, d, ChildAt(n, d), l) = n
  <2>1. ChildAt(n, d) = s[k]
    BY <1>2, <1>3 DEF k
  <2>2. WithChild(n, d, s[k], l) = IdxOrFull(b, [s EXCEPT ![k] = s[k]], l)
    BY <1>4
  <2> QED BY <1>1, <1>6, <2>1, <2>2
<1> QED BY <1>9, <1>10, <1>11, <1>12 DEF b

\* Without a child.
LEMMA CutFacts ==
  ASSUME MapConstants, NEW l, NEW n, Inner(n, l), NEW d \in Bits(n), Bits(n) # {d}
  PROVE  /\ Inner(Cut(n, d), l) /\ Bits(Cut(n, d)) = Bits(n) \ {d}
         /\ \A e \in Bits(n) \ {d} : ChildAt(Cut(n, d), e) = ChildAt(n, e)
<1> DEFINE b == Bits(n)  s == n.nodes  k == Position(b, d)  c == b \ {d}  r == RemoveAt(s, k)
<1>1. /\ b \in SUBSET Digits /\ n.kind \in {"idx", "full"} /\ (n.kind = "full" <=> b = Digits)
      /\ s \in Seq(Range(s)) /\ Len(s) = Cardinality(b) /\ n.level = l
  BY InnerBits
<1>2. \A e \in b : ChildAt(n, e) = s[Position(b, e)]
  BY InnerBits
<1>3. d \in b /\ d \in Digits /\ (n.kind = "idx" => n.bitmap = b)
  BY <1>1 DEF Bits
<1>4. k \in 1 .. Len(s)
  BY <1>1, <1>3, PositionOf
<1>5. c \in SUBSET Digits /\ c # {} /\ c # Digits /\ c \union {d} = b /\ d \in Digits \ c
  BY <1>1, <1>3
<1>6. Cut(n, d) = IdxOrFull(c, r, l)
  <2>1. k = IF n.kind = "full" THEN d + 1 ELSE Position(n.bitmap, d)
    BY <1>1, <1>3, PositionFull
  <2>2. Cut(n, d) = Idx(c, r, l)
    BY <1>1, <2>1 DEF Cut
  <2> QED BY <1>5, <2>2 DEF IdxOrFull
<1>7. IsFiniteSet(b) /\ Cardinality(c) = Cardinality(b) - 1
  BY <1>1, <1>3, BitmapFinite, FS_RemoveElement
<1>8. \A e \in Digits : Position(b, e) = IF d < e THEN Position(c, e) + 1 ELSE Position(c, e)
  BY <1>5, PositionMore
<1>9. \A e \in c : Position(c, e) \in 1 .. Cardinality(c)
  BY <1>5, PositionOf
<1>10. \A e \in c : (e < d => Position(b, e) < k) /\ (d < e => k < Position(b, e))
  <2> TAKE e \in c
  <2>1. e \in b /\ e \in Digits
    BY <1>5
  <2> QED BY <1>1, <1>3, <2>1, PositionOrder
<1>11. \A e \in c : e \in b /\ e # d /\ e \in Nat /\ d \in Nat
  BY <1>1, <1>3, Sizes
<1> HIDE DEF b, s, k
<1>12. /\ r \in Seq(Range(s)) /\ Len(r) = Len(s) - 1
       /\ \A i \in 1 .. Len(s) - 1 : r[i] = IF i < k THEN s[i] ELSE s[i + 1]
  BY <1>1, <1>4, RemoveFacts
<1> HIDE DEF r
<1> DEFINE m == IdxOrFull(c, r, l)
<1>13. Len(r) = Cardinality(c)
  BY <1>1, <1>7, <1>12
<1> HIDE DEF c
<1>14. Inner(m, l) /\ Bits(m) = c /\ \A e \in c : ChildAt(m, e) = r[Position(c, e)]
  <2>1. c \in SUBSET Digits /\ c # {} /\ r \in Seq(Range(s)) /\ Len(r) = Cardinality(c)
    BY <1>5, <1>12, <1>13
  <2>2. Parent(m, c, r, l)
    BY ONLY MapConstants, <2>1, InnerMade
  <2> QED BY <2>2 DEF Parent
<1> HIDE DEF m
<1>15. ASSUME NEW e \in c PROVE ChildAt(m, e) = ChildAt(n, e)
  <2> DEFINE p == Position(c, e)
  <2>1. p \in 1 .. Len(s) - 1 /\ p \in Nat
    BY <1>1, <1>7, <1>9
  <2>2. ChildAt(m, e) = IF p < k THEN s[p] ELSE s[p + 1]
    BY <1>12, <1>14, <2>1
  <2>3. e \in b /\ e # d /\ e \in Nat /\ d \in Nat /\ e \in Digits
    BY <1>1, <1>11
  <2>4. Position(b, e) = IF d < e THEN p + 1 ELSE p
    BY <1>8, <2>3
  <2>5. (e < d => Position(b, e) < k) /\ (d < e => k < Position(b, e))
    BY <1>10
  <2>6. ChildAt(n, e) = s[Position(b, e)]
    BY <1>2, <2>3
  <2> HIDE DEF p
  <2>7. k \in Nat
    BY <1>4
  <2> QED BY <2>1, <2>2, <2>3, <2>4, <2>5, <2>6, <2>7
<1> QED BY <1>6, <1>14, <1>15 DEF b, c, m

\* m is n with a child x more, for digit d.
Adds(m, n, d, x, l) ==
  /\ Inner(m, l) /\ Bits(m) = Bits(n) \union {d} /\ n.kind = "idx"
  /\ \A e \in Bits(n) \union {d} : ChildAt(m, e) = IF e = d THEN x ELSE ChildAt(n, e)

LEMMA AddFacts ==
  ASSUME MapConstants, NEW l, NEW n, Inner(n, l), NEW d \in Digits \ Bits(n), NEW x
  PROVE  Adds(IdxOrFull(n.bitmap \union {d}, InsertAt(n.nodes, Position(n.bitmap, d), x), l), n, d, x, l)
<1> DEFINE b == Bits(n)  s == n.nodes  k == Position(b, d)  c == b \union {d}  r == InsertAt(s, k, x)
           S == Range(s) \union {x}
<1>1. /\ b \in SUBSET Digits /\ n.kind \in {"idx", "full"} /\ (n.kind = "full" <=> b = Digits)
      /\ s \in Seq(Range(s)) /\ Len(s) = Cardinality(b)
  BY InnerBits
<1>2. \A e \in b : ChildAt(n, e) = s[Position(b, e)]
  BY InnerBits
<1>3. n.kind = "idx" /\ n.bitmap = b
  <2>1. n.kind = "idx"
    BY <1>1
  <2> QED BY <2>1 DEF Bits
<1>4. k \in 1 .. Len(s) + 1 /\ s \in Seq(S) /\ x \in S
  <2>1. k \in 1 .. Cardinality(b) + 1
    BY <1>1, PositionOf
  <2>2. s \in Seq(S)
    BY <1>1
  <2> QED BY <1>1, <2>1, <2>2
<1>5. c \in SUBSET Digits /\ c # {}
  BY <1>1
<1>6. IsFiniteSet(b) /\ Cardinality(b) \in Nat /\ Cardinality(c) = Cardinality(b) + 1
  BY <1>1, BitmapFinite, FS_AddElement
<1>7. \A e \in Digits : Position(c, e) = IF d < e THEN Position(b, e) + 1 ELSE Position(b, e)
  BY <1>1, PositionMore
<1>8. \A e \in b : Position(b, e) \in 1 .. Len(s)
  BY <1>1, PositionOf
<1>9. \A e \in b : (e < d => Position(c, e) < Position(c, d)) /\ (d < e => Position(c, d) < Position(c, e))
  <2> TAKE e \in b
  <2>1. e \in c /\ e \in Digits /\ d \in c
    BY <1>1
  <2> QED BY <1>5, <2>1, PositionOrder
<1>10. \A e \in b : e # d /\ e \in Nat /\ d \in Nat /\ e \in Digits
  BY <1>1, Sizes
<1>11. ~(d < d) /\ d \in Digits
  BY Sizes
<1> HIDE DEF b, s, k, S
<1>12. /\ r \in Seq(S) /\ Len(r) = Len(s) + 1
       /\ \A i \in 1 .. Len(s) + 1 : r[i] = IF i < k THEN s[i] ELSE IF i = k THEN x ELSE s[i - 1]
  BY <1>4, InsertFacts
<1> HIDE DEF r
<1> DEFINE m == IdxOrFull(c, r, l)
<1>13. Len(r) = Cardinality(c) /\ Len(s) \in Nat
  BY <1>1, <1>6, <1>12
<1>14. d \in c /\ \A e \in c : e = d \/ e \in b
  OBVIOUS
<1> HIDE DEF c
<1>15. Inner(m, l) /\ Bits(m) = c /\ \A e \in c : ChildAt(m, e) = r[Position(c, e)]
  <2>1. c \in SUBSET Digits /\ c # {} /\ r \in Seq(S) /\ Len(r) = Cardinality(c)
    BY <1>5, <1>12, <1>13
  <2>2. Parent(m, c, r, l)
    BY ONLY MapConstants, <2>1, InnerMade
  <2> QED BY <2>2 DEF Parent
<1> HIDE DEF m
<1>16. Position(c, d) = k
  BY <1>7, <1>11 DEF k
<1>17. ChildAt(m, d) = x
  <2>1. r[k] = x
    BY <1>4, <1>12
  <2> QED BY <1>14, <1>15, <1>16, <2>1
<1>18. ASSUME NEW e \in b PROVE ChildAt(m, e) = ChildAt(n, e)
  <2> DEFINE p == Position(b, e)
  <2>1. p \in 1 .. Len(s) /\ e # d /\ e \in Nat /\ d \in Nat /\ e \in Digits /\ k \in Nat
    BY <1>4, <1>8, <1>10
  <2>2. Position(c, e) = IF d < e THEN p + 1 ELSE p
    BY <1>7, <2>1
  <2>3. (e < d => Position(c, e) < k) /\ (d < e => k < Position(c, e))
    BY <1>9, <1>16
  <2>4. ChildAt(m, e) = r[Position(c, e)] /\ ChildAt(n, e) = s[p]
    BY <1>2, <1>15 DEF c
  <2> HIDE DEF p
  <2>5. CASE d < e
    <3>1. p + 1 \in 1 .. Len(s) + 1 /\ ~(p + 1 < k) /\ p + 1 # k /\ (p + 1) - 1 = p
      BY <1>13, <2>1, <2>2, <2>3, <2>5
    <3> QED BY <1>12, <2>2, <2>4, <2>5, <3>1
  <2>6. CASE e < d
    <3>1. p \in 1 .. Len(s) + 1 /\ p < k /\ ~(d < e)
      BY <1>13, <2>1, <2>2, <2>3, <2>6
    <3> QED BY <1>12, <2>2, <2>4, <3>1
  <2> QED BY <2>1, <2>5, <2>6
<1>19. \A e \in c : ChildAt(m, e) = IF e = d THEN x ELSE ChildAt(n, e)
  BY <1>14, <1>17, <1>18
<1>20. m = IdxOrFull(n.bitmap \union {d}, InsertAt(n.nodes, Position(n.bitmap, d), x), l)
  BY <1>3 DEF m, c, r, k, s
<1>21. c = Bits(n) \union {d}
  BY DEF c, b
<1>22. Adds(m, n, d, x, l)
  BY <1>3, <1>15, <1>19, <1>21 DEF Adds
<1> QED BY <1>20, <1>22

\* With a node over it.
LEMMA OverFacts ==
  ASSUME MapConstants, NEW l, NEW n, NEW d \in Digits
  PROVE  LET m == Idx({d}, <<n>>, l) IN Inner(m, l) /\ Bits(m) = {d} /\ ChildAt(m, d) = n
<1> DEFINE b == {d}  s == <<n>>
<1>1. b \in SUBSET Digits /\ b # {} /\ b # Digits
  BY Sizes
<1>2. s \in Seq({n}) /\ Len(s) = 1 /\ s[1] = n
  OBVIOUS
<1>3. Cardinality(b) = 1
  BY FS_Singleton
<1>4. Position(b, d) = 1
  <2>1. Position(b, d) \in 1 .. 1
    BY <1>1, <1>3, PositionOf
  <2> QED BY <2>1
<1> HIDE DEF s
<1> DEFINE m == IdxOrFull(b, s, l)
<1>5. Inner(m, l) /\ Bits(m) = b /\ \A e \in b : ChildAt(m, e) = s[Position(b, e)]
  <2> HIDE DEF b, m
  <2>1. b \in SUBSET Digits /\ b # {} /\ s \in Seq({n}) /\ Len(s) = Cardinality(b)
    BY <1>1, <1>2, <1>3
  <2>2. Parent(m, b, s, l)
    BY ONLY MapConstants, <2>1, InnerMade DEF m
  <2> QED BY <2>2 DEF Parent
<1>6. m = Idx({d}, <<n>>, l)
  BY <1>1 DEF IdxOrFull, s
<1> HIDE DEF m
<1>7. ChildAt(m, d) = n
  BY <1>2, <1>4, <1>5
<1> QED BY <1>5, <1>6, <1>7

-----------------------------------------------------------------------------
(* The way of find and without *)

\* Two functions that go on from a in the same way are the same.
Alike(f, g, a, b) == f[a] = g[a] /\ \A l \in a + 1 .. b : f[l - 1] = g[l - 1] => f[l] = g[l]

LEMMA Onwards ==
  ASSUME NEW a \in Nat, NEW b \in Nat, NEW f, NEW g, Alike(f, g, a, b)
  PROVE  \A l \in a .. b : f[l] = g[l]
<1> DEFINE S == {j \in Nat : a + j <= b => f[a + j] = g[a + j]}
<1>1. 0 \in S
  BY DEF Alike
<1>2. ASSUME NEW j \in Nat, j \in S PROVE j + 1 \in S
  <2>1. CASE a + (j + 1) <= b
    <3>1. a + (j + 1) \in a + 1 .. b /\ (a + (j + 1)) - 1 = a + j /\ a + j <= b
      BY <2>1
    <3> QED BY <1>2, <2>1, <3>1 DEF Alike
  <2>2. CASE ~(a + (j + 1) <= b)
    BY <2>2
  <2> QED BY <2>1, <2>2
<1>3. Nat \subseteq S
  <2> HIDE DEF S
  <2> QED BY <1>1, <1>2, Induction
<1>4. ASSUME NEW l \in a .. b PROVE f[l] = g[l]
  <2>1. l - a \in Nat /\ a + (l - a) = l /\ a + (l - a) <= b
    OBVIOUS
  <2>2. l - a \in S
    BY <1>3, <2>1
  <2> QED BY <2>1, <2>2
<1> QED BY <1>4

\* w is the way to k, as far as level m.
Walk(w, n, level, k, m) ==
  w = [l \in level .. m |->
         IF l = level THEN {n} ELSE {IF Leads(above, k) THEN Below(above, k) ELSE above : above \in w[l - 1]}]

\* It is there.
LEMMA Walks ==
  ASSUME NEW n, NEW level \in Nat, NEW k, NEW j \in Nat
  PROVE  \E w : Walk(w, n, level, k, level + j)
<1> DEFINE Down(A) == {IF Leads(above, k) THEN Below(above, k) ELSE above : above \in A}
           Is(w, i) == w = [l \in level .. level + i |-> IF l = level THEN {n} ELSE Down(w[l - 1])]
           S == {i \in Nat : \E w : Is(w, i)}
<1> HIDE DEF Down
<1>1. 0 \in S
  <2> DEFINE g == [l \in level .. level + 0 |-> {n}]
  <2>1. \A l \in level .. level + 0 : l = level
    OBVIOUS
  <2>2. Is(g, 0)
    BY <2>1
  <2> HIDE DEF g, Is
  <2> QED BY <2>2
<1>2. ASSUME NEW i \in Nat, i \in S PROVE i + 1 \in S
  <2>1. PICK f : Is(f, i)
    BY <1>2
  <2> DEFINE e == level + (i + 1)
             g == [l \in level .. e |-> IF l = e THEN Down(f[level + i]) ELSE f[l]]
  <2>2. ASSUME NEW l \in level .. e PROVE g[l] = IF l = level THEN {n} ELSE Down(g[l - 1])
    <3>1. CASE l = e
      <4>1. l - 1 = level + i /\ l - 1 \in level .. e /\ l - 1 # e /\ l # level
        BY <3>1
      <4>2. g[l] = Down(f[level + i]) /\ g[l - 1] = f[level + i]
        BY <3>1, <4>1
      <4> HIDE DEF g
      <4> QED BY <4>1, <4>2
    <3>2. CASE l # e
      <4>1. l \in level .. level + i /\ (l # level => l - 1 \in level .. e /\ l - 1 # e)
        BY <3>2
      <4>2. g[l] = f[l] /\ (l # level => g[l - 1] = f[l - 1])
        BY <3>2, <4>1
      <4>3. f[l] = IF l = level THEN {n} ELSE Down(f[l - 1])
        BY <2>1, <4>1
      <4> HIDE DEF g
      <4> QED BY <4>2, <4>3
    <3> QED BY <3>1, <3>2
  <2>3. g = [l \in level .. e |-> g[l]]
    OBVIOUS
  <2> HIDE DEF g
  <2>4. Is(g, i + 1)
    BY <2>2, <2>3
  <2> QED BY <2>4
<1>3. j \in S
  <2> HIDE DEF S
  <2> QED BY <1>1, <1>2, Induction
<1>4. PICK w : Is(w, j)
  BY <1>3
<1>5. Walk(w, n, level, k, level + j)
  BY <1>4 DEF Walk, Down
<1> QED BY <1>5

\* w goes down from n; and where it comes to from the nodes A.
Down(A, k) == {IF Leads(above, k) THEN Below(above, k) ELSE above : above \in A}
Descends(w, n, level, k) == w[level] = {n} /\ \A l \in level + 1 .. MapHeight : w[l] = Down(w[l - 1], k)

LEMMA WayFacts ==
  ASSUME MapConstants, NEW n, NEW level \in 0 .. MapHeight, NEW k
  PROVE  Descends(Way(n, level, k), n, level, k)
<1>1. MapHeight \in Nat /\ level \in Nat /\ MapHeight - level \in Nat /\ level + (MapHeight - level) = MapHeight
  BY Sizes
<1>2. \E w : Walk(w, n, level, k, MapHeight)
  <2> DEFINE j == MapHeight - level
  <2>1. j \in Nat /\ level + j = MapHeight
    BY <1>1
  <2> HIDE DEF j
  <2>2. \E w : Walk(w, n, level, k, level + j)
    BY <1>1, <2>1, Walks
  <2> QED BY <2>1, <2>2
<1> DEFINE c == Way(n, level, k)
<1>3. Walk(c, n, level, k, MapHeight)
  BY <1>2, Zenon DEF Way, Walk
<1> HIDE DEF c
<1>4. c[level] = {n}
  BY <1>1, <1>3 DEF Walk
<1>5. ASSUME NEW l \in level + 1 .. MapHeight
      PROVE  c[l] = Down(c[l - 1], k)
  <2>1. l \in level .. MapHeight /\ l # level
    BY <1>1
  <2> QED BY <1>3, <2>1 DEF Walk, Down
<1>6. Descends(c, n, level, k)
  BY <1>4, <1>5 DEF Descends
<1> QED BY <1>6 DEF c

\* A way that goes on is that of the child, and one that does not stays at the node.
LEMMA WayNext ==
  ASSUME MapConstants, NEW n, NEW level \in 0 .. MapHeight - 1, NEW k, Leads(n, k)
  PROVE  \A l \in level + 1 .. MapHeight : Way(n, level, k)[l] = Way(Below(n, k), level + 1, k)[l]
<1> DEFINE f == Way(n, level, k)  c == Below(n, k)  e == level + 1  g == Way(c, e, k)
<1>1. MapHeight \in Nat /\ level \in 0 .. MapHeight /\ e \in 0 .. MapHeight /\ e \in Nat /\ e - 1 = level /\ level \in Nat
  BY Sizes
<1>2. Descends(f, n, level, k)
  BY <1>1, WayFacts
<1>3. Descends(g, c, e, k)
  <2> HIDE DEF c, e
  <2> QED BY <1>1, WayFacts
<1>4. Down({n}, k) = {c}
  BY DEF Down
<1> HIDE DEF f, g, c
<1>5. f[e] = g[e]
  <2>1. e \in level + 1 .. MapHeight
    BY <1>1
  <2>2. f[e] = Down(f[e - 1], k)
    BY <1>2, <2>1 DEF Descends
  <2> QED BY <1>1, <1>2, <1>3, <1>4, <2>2 DEF Descends
<1>6. \A l \in e + 1 .. MapHeight : f[l - 1] = g[l - 1] => f[l] = g[l]
  <2> TAKE l \in e + 1 .. MapHeight
  <2>1. l \in level + 1 .. MapHeight
    BY <1>1
  <2>2. f[l] = Down(f[l - 1], k)
    BY <1>2, <2>1 DEF Descends
  <2>3. g[l] = Down(g[l - 1], k)
    BY <1>3 DEF Descends
  <2> QED BY <2>2, <2>3
<1> HIDE DEF e
<1>7. \A l \in e .. MapHeight : f[l] = g[l]
  <2>1. e \in Nat /\ MapHeight \in Nat
    BY <1>1
  <2>2. Alike(f, g, e, MapHeight)
    BY ONLY <1>5, <1>6 DEF Alike
  <2> QED BY ONLY <2>1, <2>2, Onwards
<1> QED BY <1>7 DEF f, g, c, e

LEMMA WayEnds ==
  ASSUME MapConstants, NEW n, NEW level \in 0 .. MapHeight, NEW k, ~Leads(n, k)
  PROVE  \A l \in level .. MapHeight : Way(n, level, k)[l] = {n}
<1> DEFINE f == Way(n, level, k)  g == [l \in level .. MapHeight |-> {n}]
<1>1. MapHeight \in Nat /\ level \in Nat /\ level \in level .. MapHeight
  BY Sizes
<1>2. Descends(f, n, level, k)
  BY WayFacts
<1>3. Down({n}, k) = {n}
  BY DEF Down
<1>4. \A l \in level .. MapHeight : g[l] = {n}
  OBVIOUS
<1> HIDE DEF f, g
<1>5. \A l \in level + 1 .. MapHeight : f[l - 1] = g[l - 1] => f[l] = g[l]
  <2> TAKE l \in level + 1 .. MapHeight
  <2>1. l \in level .. MapHeight /\ l - 1 \in level .. MapHeight
    BY <1>1
  <2>2. f[l] = Down(f[l - 1], k)
    BY <1>2 DEF Descends
  <2> QED BY <1>3, <1>4, <2>1, <2>2
<1>6. f[level] = g[level]
  BY <1>1, <1>2, <1>4 DEF Descends
<1>7. \A l \in level .. MapHeight : f[l] = g[l]
  <2>1. Alike(f, g, level, MapHeight)
    BY ONLY <1>5, <1>6 DEF Alike
  <2> QED BY <1>1, <2>1, Onwards
<1> QED BY <1>4, <1>7 DEF f

LEMMA FindNext ==
  ASSUME MapConstants, NEW n, NEW level \in 0 .. MapHeight - 1, NEW k, Leads(n, k)
  PROVE  Find(n, level, k) = Find(Below(n, k), level + 1, k)
<1>1. MapHeight \in level + 1 .. MapHeight
  BY Sizes
<1>2. Way(n, level, k)[MapHeight] = Way(Below(n, k), level + 1, k)[MapHeight]
  BY <1>1, WayNext
<1> QED BY <1>2 DEF Find

LEMMA FindEnds ==
  ASSUME MapConstants, NEW n, NEW level \in 0 .. MapHeight, NEW k, ~Leads(n, k)
  PROVE  Find(n, level, k) = FindLast(n, k)
<1>1. MapHeight \in level .. MapHeight
  BY Sizes
<1>2. Way(n, level, k)[MapHeight] = {n}
  BY <1>1, WayEnds
<1> QED BY <1>2 DEF Find

-----------------------------------------------------------------------------
(* What without makes of it *)

\* r is what without() makes of the nodes w on the way, from the last to the one j
\* levels up.
Unset(r, w, k, j) ==
  r = [i \in 0 .. j |->
         LET m   == CHOOSE node \in w[MapHeight - i] : TRUE
             d   == Mask(Hash[k], m.level)
             sub == r[i - 1]
         IN IF i > 0 /\ Leads(m, k)
            THEN IF sub = NoNode THEN Cut(m, d) ELSE WithChild(m, d, sub, m.level)
            ELSE WithoutLast(m, k)]

LEMMA Unsets ==
  ASSUME NEW w, NEW k, NEW j \in Nat
  PROVE  \E r : Unset(r, w, k, j)
<1> DEFINE M(i) == CHOOSE node \in w[MapHeight - i] : TRUE
           D(i) == Mask(Hash[k], M(i).level)
           Up(i, sub) == IF i > 0 /\ Leads(M(i), k)
                         THEN IF sub = NoNode THEN Cut(M(i), D(i)) ELSE WithChild(M(i), D(i), sub, M(i).level)
                         ELSE WithoutLast(M(i), k)
           Is(r, m) == r = [i \in 0 .. m |-> Up(i, r[i - 1])]
           S == {m \in Nat : \E r : Is(r, m)}
<1>1. \A x, y : Up(0, x) = Up(0, y)
  OBVIOUS
<1> HIDE DEF Up
<1>2. 0 \in S
  <2> DEFINE g == [i \in 0 .. 0 |-> Up(0, {})]
  <2>1. \A i \in 0 .. 0 : i = 0
    OBVIOUS
  <2>2. Is(g, 0)
    <3>1. \A i \in 0 .. 0 : Up(0, {}) = Up(i, g[i - 1])
      <4> HIDE DEF g
      <4> QED BY <1>1, <2>1
    <3>2. g = [i \in 0 .. 0 |-> g[i]] /\ \A i \in 0 .. 0 : g[i] = Up(0, {})
      OBVIOUS
    <3> HIDE DEF g
    <3> QED BY <3>1, <3>2
  <2> HIDE DEF g, Is
  <2> QED BY <2>2
<1>3. ASSUME NEW m \in Nat, m \in S PROVE m + 1 \in S
  <2>1. PICK f : Is(f, m)
    BY <1>3
  <2> DEFINE g == [i \in 0 .. m + 1 |-> IF i = m + 1 THEN Up(m + 1, f[m]) ELSE f[i]]
  <2>2. ASSUME NEW i \in 0 .. m + 1 PROVE g[i] = Up(i, g[i - 1])
    <3>1. CASE i = m + 1
      <4>1. i - 1 = m /\ m \in 0 .. m + 1 /\ m # m + 1
        BY <3>1
      <4>2. g[i] = Up(m + 1, f[m]) /\ g[m] = f[m]
        BY <3>1, <4>1
      <4> HIDE DEF g
      <4> QED BY <3>1, <4>1, <4>2
    <3>2. CASE i # m + 1
      <4>1. i \in 0 .. m /\ (i # 0 => i - 1 \in 0 .. m + 1 /\ i - 1 # m + 1)
        BY <3>2
      <4>2. g[i] = f[i] /\ (i # 0 => g[i - 1] = f[i - 1])
        BY <3>2, <4>1
      <4>3. f[i] = Up(i, f[i - 1])
        BY <2>1, <4>1
      <4> HIDE DEF g
      <4>4. CASE i = 0
        BY <1>1, <4>2, <4>3, <4>4
      <4>5. CASE i # 0
        BY <4>2, <4>3, <4>5
      <4> QED BY <4>4, <4>5
    <3> QED BY <3>1, <3>2
  <2>3. g = [i \in 0 .. m + 1 |-> g[i]]
    OBVIOUS
  <2> HIDE DEF g
  <2>4. Is(g, m + 1)
    BY <2>2, <2>3
  <2> QED BY <2>4
<1>4. j \in S
  <2> HIDE DEF S
  <2> QED BY <1>2, <1>3, Induction
<1>5. PICK r : Is(r, j)
  BY <1>4
<1>6. Unset(r, w, k, j)
  BY <1>5, Zenon DEF Unset, Up
<1> QED BY <1>6

\* The node at the top, and the one below it.
LEMMA WithoutTop ==
  ASSUME MapConstants, NEW n, NEW level \in 0 .. MapHeight, NEW k
  PROVE  \E r : /\ Unset(r, Way(n, level, k), k, MapHeight - level)
                /\ Without(n, level, k) = r[MapHeight - level]
<1> DEFINE w == Way(n, level, k)
           c == CHOOSE r : Unset(r, w, k, MapHeight - level)
<1>1. MapHeight - level \in Nat
  BY Sizes
<1>2. \E r : Unset(r, w, k, MapHeight - level)
  <2> HIDE DEF w
  <2> QED BY <1>1, Unsets
<1>3. Unset(c, w, k, MapHeight - level)
  <2> HIDE DEF w
  <2> QED BY <1>2, Zenon
<1>4. Without(n, level, k) = c[MapHeight - level]
  BY Zenon DEF Without, Unset
<1> HIDE DEF c
<1> QED BY <1>3, <1>4

LEMMA UnsetIs ==
  ASSUME NEW r, NEW w, NEW k, NEW j \in Nat, Unset(r, w, k, j), NEW i \in 0 .. j, NEW m, w[MapHeight - i] = {m}
  PROVE  r[i] = IF i > 0 /\ Leads(m, k)
                THEN IF r[i - 1] = NoNode THEN Cut(m, Mask(Hash[k], m.level))
                     ELSE WithChild(m, Mask(Hash[k], m.level), r[i - 1], m.level)
                ELSE WithoutLast(m, k)
<1>1. (CHOOSE node \in w[MapHeight - i] : TRUE) = m
  OBVIOUS
<1> QED BY <1>1, Zenon DEF Unset

LEMMA WithoutEnds ==
  ASSUME MapConstants, NEW n, NEW level \in 0 .. MapHeight, NEW k, ~Leads(n, k)
  PROVE  Without(n, level, k) = WithoutLast(n, k)
<1> DEFINE j == MapHeight - level  w == Way(n, level, k)
<1>1. j \in Nat /\ j \in 0 .. j /\ MapHeight - j = level /\ level \in level .. MapHeight
  BY Sizes
<1>2. w[MapHeight - j] = {n}
  BY <1>1, WayEnds
<1>3. PICK r : Unset(r, w, k, j) /\ Without(n, level, k) = r[j]
  BY WithoutTop
<1> HIDE DEF j, w
<1>4. r[j] = WithoutLast(n, k)
  BY <1>1, <1>2, <1>3, UnsetIs
<1> QED BY <1>3, <1>4

LEMMA WithoutNext ==
  ASSUME MapConstants, NEW n, NEW level \in 0 .. MapHeight - 1, NEW k, Leads(n, k)
  PROVE  LET d   == Mask(Hash[k], n.level)
             sub == Without(ChildAt(n, d), level + 1, k)
         IN Without(n, level, k) = IF sub = NoNode THEN Cut(n, d) ELSE WithChild(n, d, sub, n.level)
<1> DEFINE j == MapHeight - level  w == Way(n, level, k)  c == Below(n, k)  v == Way(c, level + 1, k)
<1>1. /\ MapHeight \in Nat /\ level \in 0 .. MapHeight /\ level + 1 \in 0 .. MapHeight /\ j \in Nat /\ j - 1 \in Nat
      /\ MapHeight - j = level /\ MapHeight - (level + 1) = j - 1 /\ j \in 0 .. j /\ j > 0
  BY Sizes
<1>2. w[MapHeight - j] = {n}
  BY <1>1, WayFacts DEF Descends
<1>3. \A i \in 0 .. j - 1 : w[MapHeight - i] = v[MapHeight - i]
  <2>1. \A i \in 0 .. j - 1 : MapHeight - i \in level + 1 .. MapHeight
    BY <1>1
  <2> QED BY <2>1, WayNext
<1>4. PICK r : Unset(r, w, k, j) /\ Without(n, level, k) = r[j]
  BY <1>1, WithoutTop
<1>5. PICK q : Unset(q, v, k, j - 1) /\ Without(c, level + 1, k) = q[j - 1]
  <2>1. \E q : Unset(q, v, k, MapHeight - (level + 1)) /\ Without(c, level + 1, k) = q[MapHeight - (level + 1)]
    BY <1>1, WithoutTop
  <2> QED BY <1>1, <2>1
<1> HIDE DEF j, w, v
<1>6. \A i \in 0 .. j - 1 : r[i] = q[i]
  <2> DEFINE M(x, i) == CHOOSE node \in x[MapHeight - i] : TRUE
             Up(m, i, sub) == IF i > 0 /\ Leads(m, k)
                              THEN IF sub = NoNode THEN Cut(m, Mask(Hash[k], m.level))
                                   ELSE WithChild(m, Mask(Hash[k], m.level), sub, m.level)
                              ELSE WithoutLast(m, k)
  <2>1. \A i \in 0 .. j : r[i] = Up(M(w, i), i, r[i - 1])
    BY <1>4, Zenon DEF Unset
  <2>2. \A i \in 0 .. j - 1 : q[i] = Up(M(v, i), i, q[i - 1])
    BY <1>5, Zenon DEF Unset
  <2>3. \A i \in 0 .. j - 1 : M(w, i) = M(v, i)
    BY <1>3
  <2>4. \A m, x, y : Up(m, 0, x) = Up(m, 0, y)
    OBVIOUS
  <2> HIDE DEF M, Up
  <2>5. 0 \in 0 .. j - 1 /\ \A i \in 0 .. j - 1 : i \in 0 .. j
    BY <1>1
  <2>6. r[0] = q[0]
    BY <2>1, <2>2, <2>3, <2>4, <2>5
  <2>7. \A i \in 0 + 1 .. j - 1 : r[i - 1] = q[i - 1] => r[i] = q[i]
    <3> TAKE i \in 0 + 1 .. j - 1
    <3>1. i \in 0 .. j - 1
      BY <1>1
    <3> QED BY <2>1, <2>2, <2>3, <2>5, <3>1
  <2>8. Alike(r, q, 0, j - 1)
    BY ONLY <2>6, <2>7 DEF Alike
  <2> QED BY <1>1, <2>8, Onwards
<1>7. r[j - 1] = Without(c, level + 1, k)
  <2>1. j - 1 \in 0 .. j - 1
    BY <1>1
  <2> QED BY <1>5, <1>6, <2>1
<1>8. r[j] = IF r[j - 1] = NoNode THEN Cut(n, Mask(Hash[k], n.level))
             ELSE WithChild(n, Mask(Hash[k], n.level), r[j - 1], n.level)
  BY <1>1, <1>2, <1>4, UnsetIs
<1> QED BY <1>4, <1>7, <1>8 DEF c, Below

-----------------------------------------------------------------------------
(* The way of set *)

\* w is the way of set, as far as level m.
SetWalk(w, n, level, k, m) ==
  w = [l \in level .. m |->
         IF l = level THEN Opened(n, l, k)
         ELSE LET above == w[l - 1]
                  d     == Mask(Hash[k], l - 1)
              IN IF d \in Bits(above) THEN Opened(ChildAt(above, d), l, k) ELSE above]

\* It is there.
LEMMA SetWalks ==
  ASSUME NEW n, NEW level \in Nat, NEW k, NEW j \in Nat
  PROVE  \E w : SetWalk(w, n, level, k, level + j)
<1> DEFINE Next1(above, l) == LET d == Mask(Hash[k], l - 1)
                              IN IF d \in Bits(above) THEN Opened(ChildAt(above, d), l, k) ELSE above
           Is(w, i) == w = [l \in level .. level + i |-> IF l = level THEN Opened(n, l, k) ELSE Next1(w[l - 1], l)]
           S == {i \in Nat : \E w : Is(w, i)}
<1> HIDE DEF Next1
<1>1. 0 \in S
  <2> DEFINE g == [l \in level .. level + 0 |-> Opened(n, l, k)]
  <2>1. \A l \in level .. level + 0 : l = level
    OBVIOUS
  <2>2. Is(g, 0)
    BY <2>1
  <2> HIDE DEF g, Is
  <2> QED BY <2>2
<1>2. ASSUME NEW i \in Nat, i \in S PROVE i + 1 \in S
  <2>1. PICK f : Is(f, i)
    BY <1>2
  <2> DEFINE e == level + (i + 1)
             g == [l \in level .. e |-> IF l = e THEN Next1(f[level + i], e) ELSE f[l]]
  <2>2. ASSUME NEW l \in level .. e PROVE g[l] = IF l = level THEN Opened(n, l, k) ELSE Next1(g[l - 1], l)
    <3>1. CASE l = e
      <4>1. l - 1 = level + i /\ l - 1 \in level .. e /\ l - 1 # e /\ l # level
        BY <3>1
      <4>2. g[l] = Next1(f[level + i], e) /\ g[l - 1] = f[level + i]
        BY <3>1, <4>1
      <4> HIDE DEF g
      <4> QED BY <3>1, <4>1, <4>2
    <3>2. CASE l # e
      <4>1. l \in level .. level + i /\ (l # level => l - 1 \in level .. e /\ l - 1 # e)
        BY <3>2
      <4>2. g[l] = f[l] /\ (l # level => g[l - 1] = f[l - 1])
        BY <3>2, <4>1
      <4>3. f[l] = IF l = level THEN Opened(n, l, k) ELSE Next1(f[l - 1], l)
        BY <2>1, <4>1
      <4> HIDE DEF g
      <4> QED BY <4>2, <4>3
    <3> QED BY <3>1, <3>2
  <2>3. g = [l \in level .. e |-> g[l]]
    OBVIOUS
  <2> HIDE DEF g
  <2>4. Is(g, i + 1)
    BY <2>2, <2>3
  <2> QED BY <2>4
<1>3. j \in S
  <2> HIDE DEF S
  <2> QED BY <1>1, <1>2, Induction
<1>4. PICK w : Is(w, j)
  BY <1>3
<1>5. SetWalk(w, n, level, k, level + j)
  BY <1>4 DEF SetWalk, Next1
<1> QED BY <1>5

\* w goes down from n; and where it comes to from one node.
SetDown(above, l, k) ==
  LET d == Mask(Hash[k], l - 1) IN IF d \in Bits(above) THEN Opened(ChildAt(above, d), l, k) ELSE above
SetDescends(w, n, level, k) ==
  w[level] = Opened(n, level, k) /\ \A l \in level + 1 .. MapHeight : w[l] = SetDown(w[l - 1], l, k)

LEMMA SetWayFacts ==
  ASSUME MapConstants, NEW n, NEW level \in 0 .. MapHeight, NEW k
  PROVE  SetDescends(SetWay(n, level, k), n, level, k)
<1>1. MapHeight \in Nat /\ level \in Nat /\ MapHeight - level \in Nat /\ level + (MapHeight - level) = MapHeight
  BY Sizes
<1>2. \E w : SetWalk(w, n, level, k, MapHeight)
  <2> DEFINE j == MapHeight - level
  <2>1. j \in Nat /\ level + j = MapHeight
    BY <1>1
  <2> HIDE DEF j
  <2>2. \E w : SetWalk(w, n, level, k, level + j)
    BY <1>1, <2>1, SetWalks
  <2> QED BY <2>1, <2>2
<1> DEFINE c == SetWay(n, level, k)
<1>3. SetWalk(c, n, level, k, MapHeight)
  BY <1>2, Zenon DEF SetWay, SetWalk
<1> HIDE DEF c
<1>4. c[level] = Opened(n, level, k)
  BY <1>1, <1>3 DEF SetWalk
<1>5. ASSUME NEW l \in level + 1 .. MapHeight
      PROVE  c[l] = SetDown(c[l - 1], l, k)
  <2>1. l \in level .. MapHeight /\ l # level
    BY <1>1
  <2> QED BY <1>3, <2>1 DEF SetWalk, SetDown
<1>6. SetDescends(c, n, level, k)
  BY <1>4, <1>5 DEF SetDescends
<1> QED BY <1>6 DEF c

\* A way that goes on is that of the child.
LEMMA SetWayNext ==
  ASSUME MapConstants, NEW n, NEW level \in 0 .. MapHeight - 1, NEW k,
         Mask(Hash[k], level) \in Bits(Opened(n, level, k))
  PROVE  LET c == ChildAt(Opened(n, level, k), Mask(Hash[k], level))
         IN \A l \in level + 1 .. MapHeight : SetWay(n, level, k)[l] = SetWay(c, level + 1, k)[l]
<1> DEFINE f == SetWay(n, level, k)  c == ChildAt(Opened(n, level, k), Mask(Hash[k], level))
           e == level + 1  g == SetWay(c, e, k)
<1>1. MapHeight \in Nat /\ level \in 0 .. MapHeight /\ e \in 0 .. MapHeight /\ e \in Nat /\ e - 1 = level /\ level \in Nat
  BY Sizes
<1>2. SetDescends(f, n, level, k)
  BY <1>1, SetWayFacts
<1>3. SetDescends(g, c, e, k)
  <2> HIDE DEF c, e
  <2> QED BY <1>1, SetWayFacts
<1>4. SetDown(Opened(n, level, k), e, k) = Opened(c, e, k)
  <2>1. e - 1 = level
    BY <1>1
  <2> HIDE DEF e
  <2> QED BY <2>1 DEF SetDown
<1> HIDE DEF f, g, c
<1>5. f[e] = g[e]
  <2>1. e \in level + 1 .. MapHeight
    BY <1>1
  <2>2. f[e] = SetDown(f[e - 1], e, k)
    BY <1>2, <2>1 DEF SetDescends
  <2> QED BY <1>1, <1>2, <1>3, <1>4, <2>2 DEF SetDescends
<1>6. \A l \in e + 1 .. MapHeight : f[l - 1] = g[l - 1] => f[l] = g[l]
  <2> TAKE l \in e + 1 .. MapHeight
  <2>1. l \in level + 1 .. MapHeight
    BY <1>1
  <2>2. f[l] = SetDown(f[l - 1], l, k)
    BY <1>2, <2>1 DEF SetDescends
  <2>3. g[l] = SetDown(g[l - 1], l, k)
    BY <1>3 DEF SetDescends
  <2> QED BY <2>2, <2>3
<1> HIDE DEF e
<1>7. \A l \in e .. MapHeight : f[l] = g[l]
  <2>1. e \in Nat /\ MapHeight \in Nat
    BY <1>1
  <2>2. Alike(f, g, e, MapHeight)
    BY ONLY <1>5, <1>6 DEF Alike
  <2> QED BY ONLY <2>1, <2>2, Onwards
<1> QED BY <1>7 DEF f, g, c, e

-----------------------------------------------------------------------------
(* What set makes of it *)

\* r is what set() makes of the nodes w on the way, from the last to the one j levels up.
SetUp(r, w, k, v, j) ==
  r = [i \in 0 .. j |->
         LET l   == MapHeight - i
             d   == Mask(Hash[k], l)
             sub == r[i - 1]
         IN IF i > 0 /\ d \in Bits(w[l])
            THEN Result(WithChild(w[l], d, sub.n, l), sub.added)
            ELSE SetLast(w[l], l, k, v)]

LEMMA SetUps ==
  ASSUME NEW w, NEW k, NEW v, NEW j \in Nat
  PROVE  \E r : SetUp(r, w, k, v, j)
<1> DEFINE M(i) == w[MapHeight - i]
           Up(i, sub) == IF i > 0 /\ Mask(Hash[k], MapHeight - i) \in Bits(M(i))
                         THEN Result(WithChild(M(i), Mask(Hash[k], MapHeight - i), sub.n, MapHeight - i), sub.added)
                         ELSE SetLast(M(i), MapHeight - i, k, v)
           Is(r, m) == r = [i \in 0 .. m |-> Up(i, r[i - 1])]
           S == {m \in Nat : \E r : Is(r, m)}
<1>1. \A x, y : Up(0, x) = Up(0, y)
  OBVIOUS
<1> HIDE DEF Up
<1>2. 0 \in S
  <2> DEFINE g == [i \in 0 .. 0 |-> Up(0, {})]
  <2>1. \A i \in 0 .. 0 : i = 0
    OBVIOUS
  <2>2. Is(g, 0)
    <3>1. \A i \in 0 .. 0 : Up(0, {}) = Up(i, g[i - 1])
      <4> HIDE DEF g
      <4> QED BY <1>1, <2>1
    <3>2. g = [i \in 0 .. 0 |-> g[i]] /\ \A i \in 0 .. 0 : g[i] = Up(0, {})
      OBVIOUS
    <3> HIDE DEF g
    <3> QED BY <3>1, <3>2
  <2> HIDE DEF g, Is
  <2> QED BY <2>2
<1>3. ASSUME NEW m \in Nat, m \in S PROVE m + 1 \in S
  <2>1. PICK f : Is(f, m)
    BY <1>3
  <2> DEFINE g == [i \in 0 .. m + 1 |-> IF i = m + 1 THEN Up(m + 1, f[m]) ELSE f[i]]
  <2>2. ASSUME NEW i \in 0 .. m + 1 PROVE g[i] = Up(i, g[i - 1])
    <3>1. CASE i = m + 1
      <4>1. i - 1 = m /\ m \in 0 .. m + 1 /\ m # m + 1
        BY <3>1
      <4>2. g[i] = Up(m + 1, f[m]) /\ g[m] = f[m]
        BY <3>1, <4>1
      <4> HIDE DEF g
      <4> QED BY <3>1, <4>1, <4>2
    <3>2. CASE i # m + 1
      <4>1. i \in 0 .. m /\ (i # 0 => i - 1 \in 0 .. m + 1 /\ i - 1 # m + 1)
        BY <3>2
      <4>2. g[i] = f[i] /\ (i # 0 => g[i - 1] = f[i - 1])
        BY <3>2, <4>1
      <4>3. f[i] = Up(i, f[i - 1])
        BY <2>1, <4>1
      <4> HIDE DEF g
      <4>4. CASE i = 0
        BY <1>1, <4>2, <4>3, <4>4
      <4>5. CASE i # 0
        BY <4>2, <4>3, <4>5
      <4> QED BY <4>4, <4>5
    <3> QED BY <3>1, <3>2
  <2>3. g = [i \in 0 .. m + 1 |-> g[i]]
    OBVIOUS
  <2> HIDE DEF g
  <2>4. Is(g, m + 1)
    BY <2>2, <2>3
  <2> QED BY <2>4
<1>4. j \in S
  <2> HIDE DEF S
  <2> QED BY <1>2, <1>3, Induction
<1>5. PICK r : Is(r, j)
  BY <1>4
<1>6. SetUp(r, w, k, v, j)
  BY <1>5, Zenon DEF SetUp, Up
<1> QED BY <1>6

LEMMA NodeSetTop ==
  ASSUME MapConstants, NEW n, NEW level \in 0 .. MapHeight, NEW k, NEW v
  PROVE  \E r : /\ SetUp(r, SetWay(n, level, k), k, v, MapHeight - level)
                /\ NodeSet(n, level, k, v) = r[MapHeight - level]
<1> DEFINE w == SetWay(n, level, k)
           c == CHOOSE r : SetUp(r, w, k, v, MapHeight - level)
<1>1. MapHeight - level \in Nat
  BY Sizes
<1>2. \E r : SetUp(r, w, k, v, MapHeight - level)
  <2> HIDE DEF w
  <2> QED BY <1>1, SetUps
<1>3. SetUp(c, w, k, v, MapHeight - level)
  <2> HIDE DEF w
  <2> QED BY <1>2, Zenon
<1>4. NodeSet(n, level, k, v) = c[MapHeight - level]
  BY Zenon DEF NodeSet, SetUp
<1> HIDE DEF c
<1> QED BY <1>3, <1>4

LEMMA SetUpIs ==
  ASSUME NEW r, NEW w, NEW k, NEW v, NEW j \in Nat, SetUp(r, w, k, v, j), NEW i \in 0 .. j,
         NEW m, w[MapHeight - i] = m
  PROVE  r[i] = IF i > 0 /\ Mask(Hash[k], MapHeight - i) \in Bits(m)
                THEN Result(WithChild(m, Mask(Hash[k], MapHeight - i), r[i - 1].n, MapHeight - i), r[i - 1].added)
                ELSE SetLast(m, MapHeight - i, k, v)
  BY Zenon DEF SetUp

LEMMA NodeSetEnds ==
  ASSUME MapConstants, NEW n, NEW level \in 0 .. MapHeight, NEW k, NEW v,
         Mask(Hash[k], level) \notin Bits(Opened(n, level, k))
  PROVE  NodeSet(n, level, k, v) = SetLast(Opened(n, level, k), level, k, v)
<1> DEFINE j == MapHeight - level  w == SetWay(n, level, k)  o == Opened(n, level, k)
<1>1. j \in Nat /\ j \in 0 .. j /\ MapHeight - j = level
  BY Sizes
<1>2. w[MapHeight - j] = o
  <2>1. SetDescends(w, n, level, k)
    BY SetWayFacts
  <2> HIDE DEF w
  <2> QED BY <1>1, <2>1 DEF SetDescends
<1>3. PICK r : SetUp(r, w, k, v, j) /\ NodeSet(n, level, k, v) = r[j]
  BY NodeSetTop
<1>4. Mask(Hash[k], level) \notin Bits(o)
  OBVIOUS
<1> HIDE DEF j, w, o
<1>5. r[j] = SetLast(o, level, k, v)
  <2>1. r[j] = IF j > 0 /\ Mask(Hash[k], MapHeight - j) \in Bits(o)
               THEN Result(WithChild(o, Mask(Hash[k], MapHeight - j), r[j - 1].n, MapHeight - j), r[j - 1].added)
               ELSE SetLast(o, MapHeight - j, k, v)
    BY <1>1, <1>2, <1>3, SetUpIs
  <2> QED BY <1>1, <1>4, <2>1
<1> QED BY <1>3, <1>5 DEF o

LEMMA NodeSetNext ==
  ASSUME MapConstants, NEW n, NEW level \in 0 .. MapHeight - 1, NEW k, NEW v,
         Mask(Hash[k], level) \in Bits(Opened(n, level, k))
  PROVE  LET o   == Opened(n, level, k)
             d   == Mask(Hash[k], level)
             sub == NodeSet(ChildAt(o, d), level + 1, k, v)
         IN NodeSet(n, level, k, v) = Result(WithChild(o, d, sub.n, level), sub.added)
<1> DEFINE j == MapHeight - level  w == SetWay(n, level, k)  o == Opened(n, level, k)  d == Mask(Hash[k], level)
           c == ChildAt(o, d)  x == SetWay(c, level + 1, k)
<1>1. /\ MapHeight \in Nat /\ level \in 0 .. MapHeight /\ level + 1 \in 0 .. MapHeight /\ j \in Nat /\ j - 1 \in Nat
      /\ MapHeight - j = level /\ MapHeight - (level + 1) = j - 1 /\ j \in 0 .. j /\ j > 0
  BY Sizes
<1>2. w[MapHeight - j] = o
  <2>1. SetDescends(w, n, level, k)
    BY <1>1, SetWayFacts
  <2> HIDE DEF w
  <2> QED BY <1>1, <2>1 DEF SetDescends
<1>3. \A i \in 0 .. j - 1 : w[MapHeight - i] = x[MapHeight - i]
  <2>1. \A i \in 0 .. j - 1 : MapHeight - i \in level + 1 .. MapHeight
    BY <1>1
  <2>2. \A l \in level + 1 .. MapHeight : w[l] = x[l]
    BY SetWayNext
  <2> HIDE DEF w, x
  <2> QED BY <2>1, <2>2
<1>4. PICK r : SetUp(r, w, k, v, j) /\ NodeSet(n, level, k, v) = r[j]
  BY <1>1, NodeSetTop
<1>5. PICK q : SetUp(q, x, k, v, j - 1) /\ NodeSet(c, level + 1, k, v) = q[j - 1]
  <2>1. \E q : SetUp(q, x, k, v, MapHeight - (level + 1)) /\ NodeSet(c, level + 1, k, v) = q[MapHeight - (level + 1)]
    <3> HIDE DEF c
    <3> QED BY <1>1, NodeSetTop
  <2> QED BY <1>1, <2>1
<1>6. d \in Bits(o)
  OBVIOUS
<1> HIDE DEF j, w, x, o
<1>7. \A i \in 0 .. j - 1 : r[i] = q[i]
  <2> DEFINE Up(m, i, sub) == IF i > 0 /\ Mask(Hash[k], MapHeight - i) \in Bits(m)
                              THEN Result(WithChild(m, Mask(Hash[k], MapHeight - i), sub.n, MapHeight - i), sub.added)
                              ELSE SetLast(m, MapHeight - i, k, v)
  <2>1. \A i \in 0 .. j : r[i] = Up(w[MapHeight - i], i, r[i - 1])
    BY <1>4, Zenon DEF SetUp
  <2>2. \A i \in 0 .. j - 1 : q[i] = Up(x[MapHeight - i], i, q[i - 1])
    BY <1>5, Zenon DEF SetUp
  <2>3. \A m, y, z : Up(m, 0, y) = Up(m, 0, z)
    OBVIOUS
  <2> HIDE DEF Up
  <2>4. 0 \in 0 .. j - 1 /\ \A i \in 0 .. j - 1 : i \in 0 .. j
    BY <1>1
  <2>5. r[0] = q[0]
    BY <1>3, <2>1, <2>2, <2>3, <2>4
  <2>6. \A i \in 0 + 1 .. j - 1 : r[i - 1] = q[i - 1] => r[i] = q[i]
    <3> TAKE i \in 0 + 1 .. j - 1
    <3>1. i \in 0 .. j - 1
      BY <1>1
    <3> QED BY <1>3, <2>1, <2>2, <2>4, <3>1
  <2>7. Alike(r, q, 0, j - 1)
    BY ONLY <2>5, <2>6 DEF Alike
  <2> QED BY <1>1, <2>7, Onwards
<1>8. r[j - 1] = NodeSet(c, level + 1, k, v)
  <2>1. j - 1 \in 0 .. j - 1
    BY <1>1
  <2> QED BY <1>5, <1>7, <2>1
<1>9. r[j] = Result(WithChild(o, d, r[j - 1].n, level), r[j - 1].added)
  <2>1. r[j] = IF j > 0 /\ Mask(Hash[k], MapHeight - j) \in Bits(o)
               THEN Result(WithChild(o, Mask(Hash[k], MapHeight - j), r[j - 1].n, MapHeight - j), r[j - 1].added)
               ELSE SetLast(o, MapHeight - j, k, v)
    BY <1>1, <1>2, <1>4, SetUpIs
  <2> QED BY <1>1, <1>6, <2>1
<1> QED BY <1>4, <1>8, <1>9 DEF c, o

-----------------------------------------------------------------------------
(* Trees *)

\* A node that may be at a level to which the digits r lead, and one below which all
\* nodes may be where they are.
Fine(n, l, r) ==
  /\ l \in 0 .. MapHeight /\ r \in Seq(Digits) /\ Len(r) = l
  /\ \/ (Leafy(n) \/ Shared(n)) /\ Prefix(n.hash, l) = r
     \/ Inner(n, l) /\ l < MapHeight

Closed(S) == \A x \in S : /\ Fine(x[1], x[2], x[3])
                          /\ \A d \in Bits(x[1]) : <<ChildAt(x[1], d), x[2] + 1, Append(x[3], d)>> \in S

Good(n, l, r) == \E S : <<n, l, r>> \in S /\ Closed(S)

LEMMA GoodDown ==
  ASSUME NEW n, NEW l, NEW r, Good(n, l, r)
  PROVE  Fine(n, l, r) /\ \A d \in Bits(n) : Good(ChildAt(n, d), l + 1, Append(r, d))
<1>1. PICK S : <<n, l, r>> \in S /\ Closed(S)
  BY DEF Good
<1> DEFINE x == <<n, l, r>>
<1>2. x[1] = n /\ x[2] = l /\ x[3] = r /\ x \in S
  BY <1>1
<1>3. /\ Fine(x[1], x[2], x[3])
      /\ \A d \in Bits(x[1]) : <<ChildAt(x[1], d), x[2] + 1, Append(x[3], d)>> \in S
  BY <1>1, <1>2 DEF Closed
<1> HIDE DEF x
<1>4. Fine(n, l, r) /\ \A d \in Bits(n) : <<ChildAt(n, d), l + 1, Append(r, d)>> \in S
  BY <1>2, <1>3
<1> QED BY <1>1, <1>4 DEF Good

LEMMA GoodUp ==
  ASSUME NEW n, NEW l, NEW r, Fine(n, l, r),
         \A d \in Bits(n) : Good(ChildAt(n, d), l + 1, Append(r, d))
  PROVE  Good(n, l, r)
<1> DEFINE At(d) == <<ChildAt(n, d), l + 1, Append(r, d)>>
           Of(d) == CHOOSE S : At(d) \in S /\ Closed(S)
           T == {<<n, l, r>>} \union UNION {Of(d) : d \in Bits(n)}
<1>1. ASSUME NEW d \in Bits(n) PROVE At(d) \in Of(d) /\ Closed(Of(d))
  <2>1. \E S : At(d) \in S /\ Closed(S)
    BY DEF Good
  <2> HIDE DEF At
  <2> QED BY <2>1, Zenon
<1> HIDE DEF Of
<1>2. ASSUME NEW x \in T
      PROVE  /\ Fine(x[1], x[2], x[3])
             /\ \A d \in Bits(x[1]) : <<ChildAt(x[1], d), x[2] + 1, Append(x[3], d)>> \in T
  <2>1. CASE x = <<n, l, r>>
    <3>1. x[1] = n /\ x[2] = l /\ x[3] = r
      BY <2>1
    <3>2. \A d \in Bits(n) : At(d) \in T
      <4> HIDE DEF At
      <4> QED BY <1>1
    <3> HIDE DEF T
    <3> QED BY <3>1, <3>2
  <2>2. CASE \E d \in Bits(n) : x \in Of(d)
    <3>1. PICK e \in Bits(n) : x \in Of(e)
      BY <2>2
    <3>2. /\ Fine(x[1], x[2], x[3])
          /\ \A d \in Bits(x[1]) : <<ChildAt(x[1], d), x[2] + 1, Append(x[3], d)>> \in Of(e)
      BY <1>1, <3>1 DEF Closed
    <3>3. Of(e) \subseteq T
      BY <3>1
    <3> HIDE DEF T
    <3> QED BY <3>2, <3>3
  <2> QED BY <2>1, <2>2
<1>3. <<n, l, r>> \in T
  OBVIOUS
<1> HIDE DEF T
<1>4. Closed(T)
  BY <1>2 DEF Closed
<1> QED BY <1>3, <1>4 DEF Good

LEMMA LeafyFacts ==
  ASSUME MapConstants, NEW n, Leafy(n)
  PROVE  /\ n.kind = "leaf" /\ n.hash = Hash[n.key] /\ n.key \in Keys /\ n.val # Absent
         /\ n.hash \in 0 .. Weight[MapHeight] - 1 /\ n.hash \in Nat
<1>1. n = Leaf(n.key, n.val) /\ n.key \in Keys /\ n.val # Absent
  BY DEF Leafy
<1>2. n.kind = "leaf" /\ n.hash = Hash[n.key]
  BY <1>1 DEF Leaf
<1> QED BY <1>1, <1>2, Sizes

LEMMA LeafMade ==
  ASSUME NEW k \in Keys, NEW v, v # Absent
  PROVE  /\ Leafy(Leaf(k, v)) /\ Leaf(k, v).key = k /\ Leaf(k, v).hash = Hash[k]
         /\ Leaf(k, v).val = v
  BY DEF Leafy, Leaf

LEMMA SharedFacts ==
  ASSUME MapConstants, NEW n, Shared(n)
  PROVE  /\ n.kind = "collision" /\ n.leaves \in Seq(Range(n.leaves)) /\ Len(n.leaves) >= 2 /\ Len(n.leaves) \in Nat
         /\ n.hash \in 0 .. Weight[MapHeight] - 1 /\ n.hash \in Nat
         /\ \A i \in 1 .. Len(n.leaves) : /\ Leafy(n.leaves[i]) /\ n.leaves[i].hash = n.hash
                                          /\ n.leaves[i].key \in Keys /\ n.hash = Hash[n.leaves[i].key]
         /\ \A i, j \in 1 .. Len(n.leaves) : n.leaves[i].key = n.leaves[j].key => i = j
<1>1. /\ n = Collision(n.hash, n.leaves) /\ n.leaves \in Seq(Range(n.leaves)) /\ Len(n.leaves) >= 2
      /\ \A i \in 1 .. Len(n.leaves) : Leafy(n.leaves[i]) /\ n.leaves[i].hash = n.hash
      /\ \A i, j \in 1 .. Len(n.leaves) : n.leaves[i].key = n.leaves[j].key => i = j
  BY DEF Shared
<1>2. n.kind = "collision"
  BY <1>1 DEF Collision
<1>3. Len(n.leaves) \in Nat
  BY <1>1
<1>4. 1 \in 1 .. Len(n.leaves)
  BY <1>1, <1>3
<1>5. n.hash \in 0 .. Weight[MapHeight] - 1 /\ n.hash \in Nat
  BY <1>1, <1>4, LeafyFacts
<1>6. \A i \in 1 .. Len(n.leaves) : n.leaves[i].key \in Keys /\ n.hash = Hash[n.leaves[i].key]
  BY <1>1, LeafyFacts
<1> QED BY <1>1, <1>2, <1>3, <1>5, <1>6

\* A collision node of some leaves.
LEMMA SharedMade ==
  ASSUME NEW h, NEW S, NEW s \in Seq(S), Len(s) >= 2,
         \A i \in 1 .. Len(s) : Leafy(s[i]) /\ s[i].hash = h,
         \A i, j \in 1 .. Len(s) : s[i].key = s[j].key => i = j
  PROVE  Shared(Collision(h, s)) /\ Collision(h, s).leaves = s /\ Collision(h, s).hash = h
<1> DEFINE m == Collision(h, s)
<1>1. m.leaves = s /\ m.hash = h /\ m = Collision(m.hash, m.leaves)
  BY DEF Collision
<1>2. s \in Seq(Range(s))
  BY OwnRange
<1> HIDE DEF m
<1>3. Shared(m)
  BY <1>1, <1>2 DEF Shared
<1> QED BY <1>1, <1>3 DEF m

\* A node of a tree is of one kind.
LEMMA GoodKind ==
  ASSUME MapConstants, NEW n, NEW l, NEW r, Good(n, l, r)
  PROVE  /\ l \in 0 .. MapHeight /\ l \in Nat /\ r \in Seq(Digits) /\ Len(r) = l /\ n # NoNode /\ n # EmptyNode
         /\ \/ Leafy(n) /\ Prefix(n.hash, l) = r /\ Bits(n) = {}
            \/ Shared(n) /\ Prefix(n.hash, l) = r /\ Bits(n) = {}
            \/ Inner(n, l) /\ l < MapHeight /\ Bits(n) # {} /\ l \in 0 .. MapHeight - 1
<1>1. Fine(n, l, r)
  BY GoodDown
<1>2. l \in 0 .. MapHeight /\ l \in Nat /\ r \in Seq(Digits) /\ Len(r) = l /\ MapHeight \in Nat
  BY <1>1, Sizes DEF Fine
<1>3. CASE Leafy(n) /\ Prefix(n.hash, l) = r
  <2>1. n.kind = "leaf"
    BY <1>3, LeafyFacts
  <2>2. n # NoNode /\ n # EmptyNode
    BY <2>1 DEF NoNode, EmptyNode
  <2> QED BY <1>2, <1>3, <2>2, TipBits
<1>4. CASE Shared(n) /\ Prefix(n.hash, l) = r
  <2>1. n.kind = "collision"
    BY <1>4, SharedFacts
  <2>2. n # NoNode /\ n # EmptyNode
    BY <2>1 DEF NoNode, EmptyNode
  <2> QED BY <1>2, <1>4, <2>2, TipBits
<1>5. CASE Inner(n, l) /\ l < MapHeight
  <2>1. n.kind \in {"idx", "full"} /\ Bits(n) # {}
    BY <1>5, InnerBits
  <2>2. n # NoNode /\ n # EmptyNode
    BY <2>1 DEF NoNode, EmptyNode
  <2> QED BY <1>2, <1>5, <2>1, <2>2
<1> QED BY <1>1, <1>3, <1>4, <1>5 DEF Fine

\* A leaf or collision is a tree by itself.
LEMMA GoodTip ==
  ASSUME MapConstants, NEW n, NEW l \in 0 .. MapHeight, Leafy(n) \/ Shared(n)
  PROVE  Good(n, l, Prefix(n.hash, l))
<1>1. n.hash \in Nat
  BY LeafyFacts, SharedFacts
<1>2. l \in Nat
  BY Sizes
<1>3. Prefix(n.hash, l) \in Seq(Digits) /\ Len(Prefix(n.hash, l)) = l
  BY <1>1, <1>2, PrefixFacts
<1>4. Fine(n, l, Prefix(n.hash, l))
  BY <1>3 DEF Fine
<1>5. Bits(n) = {}
  BY TipBits
<1> QED BY <1>4, <1>5, GoodUp

-----------------------------------------------------------------------------
(* What find finds *)

LEMMA FindLeaf ==
  ASSUME MapConstants, NEW n, Leafy(n), NEW l \in 0 .. MapHeight, NEW k \in Keys
  PROVE  Find(n, l, k) = IF n.key = k THEN {n} ELSE {}
<1>1. ~Leads(n, k)
  BY TipBits
<1>2. Find(n, l, k) = FindLast(n, k)
  BY <1>1, FindEnds
<1>3. n.kind = "leaf" /\ n.hash = Hash[n.key]
  BY LeafyFacts
<1>4. FindLast(n, k) = leaf_node_find(n, k)
  BY <1>3 DEF FindLast
<1> QED BY <1>2, <1>3, <1>4 DEF leaf_node_find

LEMMA IndexFacts ==
  ASSUME MapConstants, NEW n, Shared(n), NEW k \in Keys
  PROVE  \/ IndexOf(n, k) = 0 /\ \A i \in 1 .. Len(n.leaves) : n.leaves[i].key # k
         \/ /\ IndexOf(n, k) \in 1 .. Len(n.leaves) /\ IndexOf(n, k) # 0
            /\ \A i \in 1 .. Len(n.leaves) : n.leaves[i].key = k <=> i = IndexOf(n, k)
<1> DEFINE at == {i \in 1 .. Len(n.leaves) : n.leaves[i].hash = Hash[k] /\ n.leaves[i].key = k}
<1>1. /\ \A i \in 1 .. Len(n.leaves) : n.leaves[i].hash = Hash[n.leaves[i].key]
      /\ \A i, j \in 1 .. Len(n.leaves) : n.leaves[i].key = n.leaves[j].key => i = j
      /\ Len(n.leaves) \in Nat
  BY SharedFacts
<1>2. CASE at = {}
  <2>1. IndexOf(n, k) = 0
    BY <1>2 DEF IndexOf
  <2>2. \A i \in 1 .. Len(n.leaves) : n.leaves[i].key # k
    BY <1>1, <1>2
  <2> QED BY <2>1, <2>2
<1>3. CASE at # {}
  <2>1. PICK i \in at : TRUE
    BY <1>3
  <2>2. at = {i}
    BY <1>1, <2>1
  <2>3. IndexOf(n, k) = Min(at)
    BY <1>3 DEF IndexOf
  <2> HIDE DEF at
  <2>4. Min({i}) = i
    <3>1. \A y \in {i} : i =< y
      BY <1>1, <2>1 DEF at
    <3> QED BY <3>1 DEF Min
  <2>5. IndexOf(n, k) = i
    BY <2>2, <2>3, <2>4
  <2>6. i \in 1 .. Len(n.leaves) /\ i # 0 /\ n.leaves[i].key = k
    BY <2>1 DEF at
  <2> QED BY <1>1, <2>5, <2>6
<1> QED BY <1>2, <1>3

LEMMA FindShared ==
  ASSUME MapConstants, NEW n, Shared(n), NEW l \in 0 .. MapHeight, NEW k \in Keys
  PROVE  /\ Find(n, l, k) = IF IndexOf(n, k) = 0 THEN {} ELSE {n.leaves[IndexOf(n, k)]}
         /\ \A i \in 1 .. Len(n.leaves) : n.leaves[i].key = k => Find(n, l, k) = {n.leaves[i]}
         /\ (\A i \in 1 .. Len(n.leaves) : n.leaves[i].key # k) => Find(n, l, k) = {}
<1>1. ~Leads(n, k)
  BY TipBits
<1>2. Find(n, l, k) = FindLast(n, k)
  BY <1>1, FindEnds
<1>3. n.kind = "collision"
  BY SharedFacts
<1>4. FindLast(n, k) = collision_node_find(n, k)
  BY <1>3 DEF FindLast
<1>5. Find(n, l, k) = IF IndexOf(n, k) = 0 THEN {} ELSE {n.leaves[IndexOf(n, k)]}
  BY <1>2, <1>4 DEF collision_node_find
<1> QED BY <1>5, IndexFacts

LEMMA InnerFind ==
  ASSUME MapConstants, NEW l \in 0 .. MapHeight - 1, NEW n, Inner(n, l), NEW k
  PROVE  Find(n, l, k) = IF Mask(Hash[k], l) \in Bits(n) THEN Find(ChildAt(n, Mask(Hash[k], l)), l + 1, k) ELSE {}
<1> DEFINE d == Mask(Hash[k], l)
<1>1. n.kind \in {"idx", "full"} /\ n.level = l /\ Bits(n) # {}
  BY InnerBits
<1>2. l \in 0 .. MapHeight
  BY Sizes
<1>3. CASE d \in Bits(n)
  <2>1. Leads(n, k)
    BY <1>1, <1>3 DEF Leads
  <2>2. Below(n, k) = ChildAt(n, d)
    BY <1>1 DEF Below
  <2>3. Find(n, l, k) = Find(Below(n, k), l + 1, k)
    BY <2>1, FindNext
  <2> QED BY <1>3, <2>2, <2>3
<1>4. CASE d \notin Bits(n)
  <2>1. ~Leads(n, k)
    BY <1>1, <1>4 DEF Leads
  <2>2. Find(n, l, k) = FindLast(n, k)
    BY <1>2, <2>1, FindEnds
  <2>3. FindLast(n, k) = {}
    BY <1>1 DEF FindLast
  <2> QED BY <1>4, <2>2, <2>3
<1> QED BY <1>3, <1>4

\* What is found is the leaf of the key, and it is found below the digits of its hash.
FindsOnly(n, l, r, k) ==
  \/ Find(n, l, k) = {}
  \/ /\ \E leaf : Find(n, l, k) = {leaf} /\ Leafy(leaf) /\ leaf.key = k
     /\ Prefix(Hash[k], l) = r

LEMMA FindOnly ==
  ASSUME MapConstants, NEW n, NEW l, NEW r, Good(n, l, r), NEW k \in Keys
  PROVE  FindsOnly(n, l, r, k)
<1> DEFINE S == {j \in Nat : \A m, p, q : Good(m, p, q) /\ MapHeight - p = j => FindsOnly(m, p, q, k)}
<1>1. ASSUME NEW m, NEW p, NEW q, Good(m, p, q), ~Inner(m, p)
      PROVE  FindsOnly(m, p, q, k)
  <2>1. p \in 0 .. MapHeight /\ (Leafy(m) \/ Shared(m)) /\ Prefix(m.hash, p) = q
    BY <1>1, GoodKind
  <2>2. CASE Leafy(m)
    <3>1. m.hash = Hash[m.key]
      BY <2>2, LeafyFacts
    <3>2. Find(m, p, k) = IF m.key = k THEN {m} ELSE {}
      BY <2>1, <2>2, FindLeaf
    <3> QED BY <2>1, <2>2, <3>1, <3>2 DEF FindsOnly
  <2>3. CASE Shared(m)
    <3> DEFINE i == IndexOf(m, k)
    <3>1. Find(m, p, k) = IF i = 0 THEN {} ELSE {m.leaves[i]}
      BY <2>1, <2>3, FindShared
    <3>2. CASE i = 0
      BY <3>1, <3>2 DEF FindsOnly
    <3>3. CASE i # 0
      <4>1. i \in 1 .. Len(m.leaves) /\ m.leaves[i].key = k
        BY <2>3, <3>3, IndexFacts
      <4>2. Leafy(m.leaves[i]) /\ m.hash = Hash[m.leaves[i].key]
        BY <2>3, <4>1, SharedFacts
      <4> HIDE DEF i
      <4> QED BY <2>1, <3>1, <3>3, <4>1, <4>2 DEF FindsOnly
    <3> QED BY <3>2, <3>3
  <2> QED BY <2>1, <2>2, <2>3
<1>2. 0 \in S
  <2> SUFFICES ASSUME NEW m, NEW p, NEW q, Good(m, p, q), MapHeight - p = 0 PROVE FindsOnly(m, p, q, k)
    OBVIOUS
  <2>1. ~Inner(m, p)
    <3>1. p \in 0 .. MapHeight /\ (Inner(m, p) => p < MapHeight)
      <4>1. Inner(m, p) => m.kind \in {"idx", "full"}
        BY InnerBits
      <4> QED BY <4>1, GoodKind, LeafyFacts, SharedFacts
    <3> QED BY <3>1, Sizes
  <2> QED BY <1>1, <2>1
<1>3. ASSUME NEW j \in Nat, j \in S PROVE j + 1 \in S
  <2> SUFFICES ASSUME NEW m, NEW p, NEW q, Good(m, p, q), MapHeight - p = j + 1 PROVE FindsOnly(m, p, q, k)
    OBVIOUS
  <2>1. CASE ~Inner(m, p)
    BY <1>1, <2>1
  <2>2. CASE Inner(m, p)
    <3> DEFINE d == Mask(Hash[k], p)
    <3>1. p \in 0 .. MapHeight /\ p \in Nat /\ q \in Seq(Digits) /\ Len(q) = p /\ MapHeight \in Nat /\ Hash[k] \in Nat
      BY GoodKind, Sizes
    <3>2. p \in 0 .. MapHeight - 1 /\ MapHeight - (p + 1) = j
      BY <3>1
    <3>3. Find(m, p, k) = IF d \in Bits(m) THEN Find(ChildAt(m, d), p + 1, k) ELSE {}
      BY <2>2, <3>2, InnerFind
    <3>4. CASE d \notin Bits(m)
      BY <3>3, <3>4 DEF FindsOnly
    <3>5. CASE d \in Bits(m)
      <4>1. Good(ChildAt(m, d), p + 1, Append(q, d))
        BY <3>5, GoodDown
      <4>2. FindsOnly(ChildAt(m, d), p + 1, Append(q, d), k)
        BY <1>3, <3>2, <4>1
      <4>3. d \in Digits
        BY <3>1, MaskDigit
      <4>4. Prefix(Hash[k], p + 1) = Append(q, d) => Prefix(Hash[k], p) = q
        BY <3>1, <4>3, PrefixNext
      <4> HIDE DEF d
      <4> QED BY <3>3, <3>5, <4>2, <4>4 DEF FindsOnly
    <3> QED BY <3>4, <3>5
  <2> QED BY <2>1, <2>2
<1>4. Nat \subseteq S
  <2> HIDE DEF S
  <2> QED BY <1>2, <1>3, Induction
<1>5. l \in 0 .. MapHeight
  BY GoodKind
<1>6. MapHeight - l \in Nat
  BY <1>5, Sizes
<1> QED BY <1>4, <1>6

\* No tree is empty.
LEMMA GoodHas ==
  ASSUME MapConstants, NEW n, NEW l, NEW r, Good(n, l, r)
  PROVE  \E k \in Keys : Find(n, l, k) # {}
<1> DEFINE Some(m, p) == \E k \in Keys : Find(m, p, k) # {}
           S == {j \in Nat : \A m, p, q : Good(m, p, q) /\ MapHeight - p = j => Some(m, p)}
<1>1. ASSUME NEW m, NEW p, NEW q, Good(m, p, q), ~Inner(m, p)
      PROVE  Some(m, p)
  <2>1. p \in 0 .. MapHeight /\ (Leafy(m) \/ Shared(m))
    BY <1>1, GoodKind
  <2>2. CASE Leafy(m)
    <3>1. m.key \in Keys
      BY <2>2, LeafyFacts
    <3>2. Find(m, p, m.key) = {m}
      BY <2>1, <2>2, <3>1, FindLeaf
    <3> QED BY <3>1, <3>2
  <2>3. CASE Shared(m)
    <3>1. 1 \in 1 .. Len(m.leaves) /\ m.leaves[1].key \in Keys
      BY <2>3, SharedFacts
    <3>2. Find(m, p, m.leaves[1].key) = {m.leaves[1]}
      BY <2>1, <2>3, <3>1, FindShared
    <3> QED BY <3>1, <3>2
  <2> QED BY <2>1, <2>2, <2>3
<1>2. 0 \in S
  <2> SUFFICES ASSUME NEW m, NEW p, NEW q, Good(m, p, q), MapHeight - p = 0 PROVE Some(m, p)
    OBVIOUS
  <2>1. ~Inner(m, p)
    <3>1. p \in 0 .. MapHeight /\ (Inner(m, p) => p < MapHeight)
      <4>1. Inner(m, p) => m.kind \in {"idx", "full"}
        BY InnerBits
      <4> QED BY <4>1, GoodKind, LeafyFacts, SharedFacts
    <3> QED BY <3>1, Sizes
  <2> HIDE DEF Some
  <2> QED BY <1>1, <2>1
<1>3. ASSUME NEW j \in Nat, j \in S PROVE j + 1 \in S
  <2> SUFFICES ASSUME NEW m, NEW p, NEW q, Good(m, p, q), MapHeight - p = j + 1 PROVE Some(m, p)
    OBVIOUS
  <2>1. CASE ~Inner(m, p)
    <3> HIDE DEF Some
    <3> QED BY <1>1, <2>1
  <2>2. CASE Inner(m, p)
    <3>1. p \in 0 .. MapHeight /\ p \in Nat /\ q \in Seq(Digits) /\ Len(q) = p /\ MapHeight \in Nat
      BY GoodKind, Sizes
    <3>2. p \in 0 .. MapHeight - 1 /\ MapHeight - (p + 1) = j
      BY <3>1
    <3>3. PICK d \in Bits(m) : TRUE
      BY <2>2, InnerBits
    <3>4. d \in Digits
      BY <2>2, <3>3, InnerBits
    <3> DEFINE c == ChildAt(m, d)
    <3>5. Good(c, p + 1, Append(q, d))
      BY <3>3, GoodDown
    <3>6. Some(c, p + 1)
      <4> HIDE DEF Some, c
      <4> QED BY <1>3, <3>2, <3>5
    <3>7. PICK k \in Keys : Find(c, p + 1, k) # {}
      BY <3>6
    <3>8. Prefix(Hash[k], p + 1) = Append(q, d)
      <4> HIDE DEF c
      <4>1. FindsOnly(c, p + 1, Append(q, d), k)
        BY <3>5, FindOnly
      <4> QED BY <3>7, <4>1 DEF FindsOnly
    <3>9. Mask(Hash[k], p) = d
      <4>1. Hash[k] \in Nat
        BY Sizes
      <4> QED BY <3>1, <3>4, <3>8, <4>1, PrefixNext
    <3>10. Find(m, p, k) = Find(c, p + 1, k)
      <4>1. Find(m, p, k) = IF d \in Bits(m) THEN Find(ChildAt(m, d), p + 1, k) ELSE {}
        BY <2>2, <3>2, <3>9, InnerFind
      <4> QED BY <3>3, <4>1
    <3> QED BY <3>7, <3>10
  <2> QED BY <2>1, <2>2
<1>4. Nat \subseteq S
  <2> HIDE DEF S
  <2> QED BY <1>2, <1>3, Induction
<1>5. l \in 0 .. MapHeight
  BY GoodKind
<1>6. MapHeight - l \in Nat
  BY <1>5, Sizes
<1> QED BY <1>4, <1>6

-----------------------------------------------------------------------------
(* What set changes *)

\* The node q.n with the value v for k, of a node n.
Sets(q, n, l, k, v) ==
  /\ Good(q.n, l, Prefix(Hash[k], l))
  /\ \A j \in Keys : Find(q.n, l, j) = IF j = k THEN {Leaf(k, v)} ELSE Find(n, l, j)
  /\ q.added = (Find(n, l, k) = {})

LEMMA SetLeaf ==
  ASSUME MapConstants, NEW n, Leafy(n), NEW l \in 0 .. MapHeight, NEW k \in Keys, NEW v, v # Absent,
         n.hash = Hash[k]
  PROVE  Sets(leaf_node_set(n, k, v), n, l, k, v)
<1> DEFINE leaf == Leaf(k, v)  q == leaf_node_set(n, k, v)
<1>1. Leafy(leaf) /\ leaf.key = k /\ leaf.hash = Hash[k]
  BY LeafMade
<1> HIDE DEF leaf
<1>2. \A j \in Keys : Find(n, l, j) = IF n.key = j THEN {n} ELSE {}
  BY FindLeaf
<1>3. CASE n.key = k
  <2>1. q.n = leaf /\ q.added = FALSE
    BY <1>3 DEF leaf_node_set, Result, leaf
  <2>2. Good(leaf, l, Prefix(Hash[k], l))
    BY <1>1, GoodTip
  <2>3. \A j \in Keys : Find(leaf, l, j) = IF leaf.key = j THEN {leaf} ELSE {}
    BY <1>1, FindLeaf
  <2> HIDE DEF q
  <2>4. ASSUME NEW j \in Keys PROVE Find(leaf, l, j) = IF j = k THEN {leaf} ELSE Find(n, l, j)
    BY <1>1, <1>2, <1>3, <2>3
  <2>5. Find(n, l, k) # {}
    BY <1>2, <1>3
  <2>6. Sets(q, n, l, k, v)
    BY <2>1, <2>2, <2>4, <2>5 DEF Sets, leaf
  <2> QED BY <2>6 DEF q
<1>4. CASE n.key # k
  <2> DEFINE s == <<n, leaf>>  c == Collision(n.hash, s)
  <2>1. q.n = c /\ q.added = TRUE
    BY <1>4 DEF leaf_node_set, Result, leaf
  <2>2. s \in Seq({n, leaf}) /\ Len(s) = 2 /\ s[1] = n /\ s[2] = leaf
    OBVIOUS
  <2>3. \A i \in 1 .. Len(s) : i = 1 \/ i = 2
    BY <2>2
  <2> HIDE DEF s
  <2>4. \A i \in 1 .. Len(s) : Leafy(s[i]) /\ s[i].hash = n.hash
    BY <1>1, <2>2, <2>3
  <2>5. \A i, j \in 1 .. Len(s) : s[i].key = s[j].key => i = j
    BY <1>1, <1>4, <2>2, <2>3
  <2>6. Len(s) >= 2
    BY <2>2
  <2>7. Shared(c) /\ c.leaves = s /\ c.hash = Hash[k]
    BY <2>2, <2>4, <2>5, <2>6, SharedMade
  <2> HIDE DEF c, q
  <2>8. Good(c, l, Prefix(Hash[k], l))
    BY <2>7, GoodTip
  <2>9. 1 \in 1 .. Len(s) /\ 2 \in 1 .. Len(s)
    BY <2>2
  <2>10. ASSUME NEW j \in Keys PROVE Find(c, l, j) = IF j = k THEN {leaf} ELSE Find(n, l, j)
    <3>1. CASE j = k
      BY <1>1, <2>2, <2>7, <2>9, <3>1, FindShared
    <3>2. CASE j # k /\ j = n.key
      <4>1. s[1].key = j
        BY <2>2, <3>2
      <4>2. Find(c, l, j) = {s[1]}
        BY <2>7, <2>9, <4>1, FindShared
      <4> QED BY <1>2, <2>2, <3>2, <4>2
    <3>3. CASE j # k /\ j # n.key
      <4>1. \A i \in 1 .. Len(s) : s[i].key # j
        BY <1>1, <2>2, <2>3, <3>3
      <4>2. Find(c, l, j) = {}
        BY <2>7, <4>1, FindShared
      <4> QED BY <1>2, <3>3, <4>2
    <3> QED BY <3>1, <3>2, <3>3
  <2>11. Find(n, l, k) = {}
    BY <1>2, <1>4
  <2>12. Sets(q, n, l, k, v)
    BY <2>1, <2>8, <2>10, <2>11 DEF Sets, leaf
  <2> QED BY <2>12 DEF q
<1> QED BY <1>3, <1>4

LEMMA SetShared ==
  ASSUME MapConstants, NEW n, Shared(n), NEW l \in 0 .. MapHeight, NEW k \in Keys, NEW v, v # Absent,
         n.hash = Hash[k]
  PROVE  Sets(collision_node_set(n, k, v), n, l, k, v)
<1> DEFINE leaf == Leaf(k, v)  q == collision_node_set(n, k, v)  t == n.leaves  S == Range(t) \union {leaf}
           x == IndexOf(n, k)
<1>1. Leafy(leaf) /\ leaf.key = k /\ leaf.hash = n.hash
  BY LeafMade
<1>2. /\ t \in Seq(Range(t)) /\ Len(t) >= 2 /\ Len(t) \in Nat
      /\ \A i \in 1 .. Len(t) : Leafy(t[i]) /\ t[i].hash = n.hash
      /\ \A i, j \in 1 .. Len(t) : t[i].key = t[j].key => i = j
  BY SharedFacts
<1>3. \/ x = 0 /\ \A i \in 1 .. Len(t) : t[i].key # k
      \/ x \in 1 .. Len(t) /\ x # 0 /\ \A i \in 1 .. Len(t) : t[i].key = k <=> i = x
  BY IndexFacts
<1>4. t \in Seq(S) /\ leaf \in S
  BY <1>2
<1>5. \A j \in Keys : /\ \A i \in 1 .. Len(t) : t[i].key = j => Find(n, l, j) = {t[i]}
                      /\ (\A i \in 1 .. Len(t) : t[i].key # j) => Find(n, l, j) = {}
  BY FindShared
<1> HIDE DEF leaf, t, S
<1>6. CASE x # 0
  <2> DEFINE s == [t EXCEPT ![x] = leaf]  c == Collision(n.hash, s)
  <2>1. q.n = c /\ q.added = FALSE
    BY <1>6 DEF collision_node_set, Result, leaf, t
  <2> HIDE DEF x
  <2>2. s \in Seq(S) /\ Len(s) = Len(t) /\ \A i \in 1 .. Len(t) : s[i] = IF i = x THEN leaf ELSE t[i]
    BY <1>3, <1>4, <1>6, ExceptFacts
  <2> HIDE DEF s
  <2>3. \A i \in 1 .. Len(s) : Leafy(s[i]) /\ s[i].hash = n.hash /\ s[i].key = t[i].key
    BY <1>1, <1>2, <1>3, <1>6, <2>2
  <2>4. \A i, j \in 1 .. Len(s) : s[i].key = s[j].key => i = j
    BY <1>2, <2>2, <2>3
  <2>5. Len(s) >= 2
    BY <1>2, <2>2
  <2>6. Shared(c) /\ c.leaves = s /\ c.hash = Hash[k]
    BY <2>2, <2>3, <2>4, <2>5, SharedMade
  <2> HIDE DEF c, q
  <2>7. Good(c, l, Prefix(Hash[k], l))
    BY <2>6, GoodTip
  <2>8. ASSUME NEW j \in Keys PROVE Find(c, l, j) = IF j = k THEN {leaf} ELSE Find(n, l, j)
    <3>1. CASE \E i \in 1 .. Len(t) : t[i].key = j
      <4>1. PICK i \in 1 .. Len(t) : t[i].key = j
        BY <3>1
      <4>2. s[i].key = j /\ i \in 1 .. Len(s)
        BY <2>2, <2>3, <4>1
      <4>3. Find(c, l, j) = {s[i]}
        BY <2>6, <4>2, FindShared
      <4> QED BY <1>3, <1>5, <1>6, <2>2, <4>1, <4>3
    <3>2. CASE \A i \in 1 .. Len(t) : t[i].key # j
      <4>1. \A i \in 1 .. Len(s) : s[i].key # j
        BY <2>2, <2>3, <3>2
      <4>2. Find(c, l, j) = {}
        BY <2>6, <4>1, FindShared
      <4>3. j # k
        BY <1>3, <1>6, <3>2
      <4> QED BY <1>5, <3>2, <4>2, <4>3
    <3> QED BY <3>1, <3>2
  <2>9. Find(n, l, k) # {}
    BY <1>3, <1>5, <1>6
  <2>10. Sets(q, n, l, k, v)
    BY <2>1, <2>7, <2>8, <2>9 DEF Sets, leaf
  <2> QED BY <2>10 DEF q
<1>7. CASE x = 0
  <2> DEFINE s == Append(t, leaf)  c == Collision(n.hash, s)
  <2>1. q.n = c /\ q.added = TRUE
    BY <1>7 DEF collision_node_set, Result, leaf, t
  <2> HIDE DEF x
  <2>2. s \in Seq(S) /\ Len(s) = Len(t) + 1 /\ s[Len(t) + 1] = leaf /\ \A i \in 1 .. Len(t) : s[i] = t[i]
    BY <1>4, AppendFacts
  <2>3. \A i \in 1 .. Len(s) : i = Len(t) + 1 \/ i \in 1 .. Len(t)
    BY <1>2, <2>2
  <2>4. Len(t) + 1 \in 1 .. Len(s) /\ (\A i \in 1 .. Len(t) : i \in 1 .. Len(s)) /\ Len(s) >= 2
    BY <1>2, <2>2
  <2> HIDE DEF s
  <2>5. \A i \in 1 .. Len(s) : Leafy(s[i]) /\ s[i].hash = n.hash
    BY <1>1, <1>2, <2>2, <2>3
  <2>6. \A i, j \in 1 .. Len(s) : s[i].key = s[j].key => i = j
    <3> TAKE i, j \in 1 .. Len(s)
    <3>1. i \in 1 .. Len(t) => s[i] = t[i] /\ s[i].key # k
      BY <1>3, <1>7, <2>2
    <3>2. j \in 1 .. Len(t) => s[j] = t[j] /\ s[j].key # k
      BY <1>3, <1>7, <2>2
    <3>3. (i = Len(t) + 1 => s[i].key = k) /\ (j = Len(t) + 1 => s[j].key = k)
      BY <1>1, <2>2
    <3> QED BY <1>2, <2>3, <3>1, <3>2, <3>3
  <2>7. Shared(c) /\ c.leaves = s /\ c.hash = Hash[k]
    BY <2>2, <2>4, <2>5, <2>6, SharedMade
  <2> HIDE DEF c, q
  <2>8. Good(c, l, Prefix(Hash[k], l))
    BY <2>7, GoodTip
  <2>9. ASSUME NEW j \in Keys PROVE Find(c, l, j) = IF j = k THEN {leaf} ELSE Find(n, l, j)
    <3>1. CASE j = k
      <4>1. s[Len(t) + 1].key = j
        BY <1>1, <2>2, <3>1
      <4>2. Find(c, l, j) = {s[Len(t) + 1]}
        BY <2>4, <2>7, <4>1, FindShared
      <4> QED BY <2>2, <3>1, <4>2
    <3>2. CASE j # k /\ \E i \in 1 .. Len(t) : t[i].key = j
      <4>1. PICK i \in 1 .. Len(t) : t[i].key = j
        BY <3>2
      <4>2. i \in 1 .. Len(s) /\ s[i] = t[i] /\ s[i].key = j
        BY <2>2, <2>4, <4>1
      <4>3. Find(c, l, j) = {s[i]}
        BY <2>7, <4>2, FindShared
      <4> QED BY <1>5, <3>2, <4>1, <4>2, <4>3
    <3>3. CASE j # k /\ \A i \in 1 .. Len(t) : t[i].key # j
      <4>1. \A i \in 1 .. Len(s) : s[i].key # j
        BY <1>1, <2>2, <2>3, <3>3
      <4>2. Find(c, l, j) = {}
        BY <2>7, <4>1, FindShared
      <4> QED BY <1>5, <3>3, <4>2
    <3> QED BY <3>1, <3>2, <3>3
  <2>10. Find(n, l, k) = {}
    BY <1>3, <1>5, <1>7
  <2>11. Sets(q, n, l, k, v)
    BY <2>1, <2>8, <2>9, <2>10 DEF Sets, leaf
  <2> QED BY <2>11 DEF q
<1> QED BY <1>6, <1>7

\* The index node that set makes over a leaf or collision finds what it finds.
OpensTo(o, n, l, k) ==
  /\ Good(o, l, Prefix(Hash[k], l)) /\ \A j \in Keys : Find(o, l, j) = Find(n, l, j)
  /\ \/ Inner(o, l)
     \/ (Leafy(o) \/ Shared(o)) /\ o.hash = Hash[k]

LEMMA OpenedIs ==
  ASSUME MapConstants, NEW k \in Keys, NEW l, NEW n, Good(n, l, Prefix(Hash[k], l))
  PROVE  OpensTo(Opened(n, l, k), n, l, k)
<1> DEFINE o == Opened(n, l, k)  r == Prefix(Hash[k], l)
<1>1. /\ l \in 0 .. MapHeight /\ l \in Nat /\ r \in Seq(Digits) /\ Len(r) = l
      /\ \/ (Leafy(n) \/ Shared(n)) /\ Prefix(n.hash, l) = r
         \/ Inner(n, l) /\ l \in 0 .. MapHeight - 1
  BY GoodKind
<1>2. Hash[k] \in 0 .. Weight[MapHeight] - 1 /\ Hash[k] \in Nat /\ MapHeight \in Nat
  BY Sizes
<1>3. CASE Inner(n, l)
  <2>1. n.kind \in {"idx", "full"}
    BY <1>3, InnerBits
  <2>2. o = n
    BY <2>1 DEF Opened
  <2>3. OpensTo(n, n, l, k)
    BY <1>3 DEF OpensTo
  <2> HIDE DEF o
  <2> QED BY <2>2, <2>3 DEF o
<1>4. CASE (Leafy(n) \/ Shared(n)) /\ n.hash = Hash[k]
  <2>1. o = n
    BY <1>4 DEF Opened
  <2>2. OpensTo(n, n, l, k)
    BY <1>4 DEF OpensTo
  <2> HIDE DEF o
  <2> QED BY <2>1, <2>2 DEF o
<1>5. CASE (Leafy(n) \/ Shared(n)) /\ n.hash # Hash[k] /\ Prefix(n.hash, l) = r
  <2>1. n.kind \in {"leaf", "collision"} /\ n.hash \in 0 .. Weight[MapHeight] - 1 /\ n.hash \in Nat
    BY <1>5, LeafyFacts, SharedFacts
  <2>2. l # MapHeight
    BY <1>2, <1>5, <2>1, PrefixWhole
  <2>3. l \in 0 .. MapHeight - 1 /\ l < MapHeight /\ l + 1 \in 0 .. MapHeight
    BY <1>1, <1>2, <2>2
  <2> DEFINE d == Mask(n.hash, l)
  <2>4. d \in Digits
    BY <1>1, <2>1, MaskDigit
  <2>5. o = Idx({d}, <<n>>, l)
    BY <1>5, <2>1 DEF Opened
  <2> HIDE DEF o, d, r
  <2>6. Inner(o, l) /\ Bits(o) = {d} /\ ChildAt(o, d) = n
    BY <2>4, <2>5, OverFacts
  <2>7. Append(r, d) = Prefix(n.hash, l + 1)
    BY <1>1, <1>5, <2>1, <2>4, PrefixNext DEF d
  <2>8. Good(n, l + 1, Append(r, d))
    BY <1>5, <2>3, <2>7, GoodTip
  <2>9. Fine(o, l, r)
    BY <1>1, <2>3, <2>6 DEF Fine
  <2>10. Good(o, l, r)
    BY <2>6, <2>8, <2>9, GoodUp
  <2>11. ASSUME NEW j \in Keys PROVE Find(o, l, j) = Find(n, l, j)
    <3>1. Find(o, l, j) = IF Mask(Hash[j], l) \in Bits(o) THEN Find(ChildAt(o, Mask(Hash[j], l)), l + 1, j) ELSE {}
      BY <2>3, <2>6, InnerFind
    <3>2. Find(n, l + 1, j) = Find(n, l, j)
      <4>1. ~Leads(n, j)
        BY <1>5, TipBits
      <4> QED BY <1>1, <2>3, <4>1, FindEnds
    <3>3. CASE Mask(Hash[j], l) = d
      BY <2>6, <3>1, <3>2, <3>3
    <3>4. CASE Mask(Hash[j], l) # d
      <4>1. Find(o, l, j) = {}
        BY <2>6, <3>1, <3>4
      <4>2. n.hash # Hash[j]
        BY <3>4 DEF d
      <4>3. CASE Leafy(n)
        BY <1>1, <4>1, <4>2, <4>3, FindLeaf, LeafyFacts
      <4>4. CASE Shared(n)
        <5>1. \A i \in 1 .. Len(n.leaves) : n.leaves[i].key # j
          BY <4>2, <4>4, SharedFacts
        <5> QED BY <1>1, <4>1, <4>4, <5>1, FindShared
      <4> QED BY <1>5, <4>3, <4>4
    <3> QED BY <3>3, <3>4
  <2>12. OpensTo(o, n, l, k)
    BY <2>6, <2>10, <2>11 DEF OpensTo, r
  <2> QED BY <2>12 DEF o
<1> QED BY <1>1, <1>3, <1>4, <1>5

\* An inner node m that has x for digit d, and for others the children of n.
Changes(m, n, d, x, l) ==
  /\ Inner(m, l) /\ d \in Bits(m) /\ Bits(m) \subseteq Bits(n) \union {d}
  /\ \A e \in Bits(m) : ChildAt(m, e) = IF e = d THEN x ELSE ChildAt(n, e)

LEMMA GoodChange ==
  ASSUME MapConstants, NEW l \in 0 .. MapHeight - 1, NEW r, NEW n, Good(n, l, r), Inner(n, l),
         NEW m, NEW d, NEW x, Changes(m, n, d, x, l), Good(x, l + 1, Append(r, d))
  PROVE  Good(m, l, r)
<1>1. Fine(m, l, r)
  <2>1. l \in 0 .. MapHeight /\ r \in Seq(Digits) /\ Len(r) = l /\ l < MapHeight
    BY GoodKind, Sizes
  <2> QED BY <2>1 DEF Fine, Changes
<1>2. ASSUME NEW e \in Bits(m) PROVE Good(ChildAt(m, e), l + 1, Append(r, e))
  <2>1. CASE e = d
    BY <2>1 DEF Changes
  <2>2. CASE e # d
    <3>1. e \in Bits(n) /\ ChildAt(m, e) = ChildAt(n, e)
      BY <2>2 DEF Changes
    <3> QED BY <3>1, GoodDown
  <2> QED BY <2>1, <2>2
<1> QED BY <1>1, <1>2, GoodUp

\* Where the way of set ends.
LEMMA SetEnds ==
  ASSUME MapConstants, NEW k \in Keys, NEW v, v # Absent, NEW l, NEW n, OpensTo(n, n, l, k),
         Mask(Hash[k], l) \notin Bits(n)
  PROVE  Sets(SetLast(n, l, k, v), n, l, k, v)
<1> DEFINE r == Prefix(Hash[k], l)  d == Mask(Hash[k], l)
<1>1. Good(n, l, r) /\ (Inner(n, l) \/ ((Leafy(n) \/ Shared(n)) /\ n.hash = Hash[k]))
  BY DEF OpensTo
<1>2. l \in 0 .. MapHeight /\ l \in Nat /\ r \in Seq(Digits) /\ Len(r) = l /\ Hash[k] \in Nat
  BY <1>1, GoodKind, Sizes
<1>3. CASE Leafy(n) /\ n.hash = Hash[k]
  <2>1. n.kind = "leaf"
    BY <1>3, LeafyFacts
  <2>2. SetLast(n, l, k, v) = leaf_node_set(n, k, v)
    BY <2>1 DEF SetLast
  <2> QED BY <1>2, <1>3, <2>2, SetLeaf
<1>4. CASE Shared(n) /\ n.hash = Hash[k]
  <2>1. n.kind = "collision"
    BY <1>4, SharedFacts
  <2>2. SetLast(n, l, k, v) = collision_node_set(n, k, v)
    BY <2>1 DEF SetLast
  <2> QED BY <1>2, <1>4, <2>2, SetShared
<1>5. CASE Inner(n, l)
  <2>1. l \in 0 .. MapHeight - 1
    <3>1. n.kind \in {"idx", "full"}
      BY <1>5, InnerBits
    <3> QED BY <1>1, <3>1, GoodKind, LeafyFacts, SharedFacts
  <2>2. d \in Digits \ Bits(n)
    BY <1>2, MaskDigit
  <2> DEFINE leaf == Leaf(k, v)
             m == IdxOrFull(n.bitmap \union {d}, InsertAt(n.nodes, Position(n.bitmap, d), leaf), l)
  <2>3. Leafy(leaf) /\ leaf.hash = Hash[k] /\ leaf.key = k
    BY LeafMade
  <2> HIDE DEF leaf, r, d
  <2>4. /\ Inner(m, l) /\ Bits(m) = Bits(n) \union {d} /\ n.kind = "idx"
        /\ \A e \in Bits(n) \union {d} : ChildAt(m, e) = IF e = d THEN leaf ELSE ChildAt(n, e)
    <3>1. Adds(m, n, d, leaf, l)
      BY <1>5, <2>2, AddFacts
    <3> HIDE DEF m
    <3> QED BY <3>1 DEF Adds
  <2>5. SetLast(n, l, k, v) = Result(m, TRUE)
    BY <2>4 DEF SetLast, idx_node_set, d, leaf
  <2> HIDE DEF m
  <2>6. Append(r, d) = Prefix(Hash[k], l + 1) /\ l + 1 \in 0 .. MapHeight
    <3>1. Append(r, d) = Prefix(Hash[k], l + 1)
      BY <1>2, <2>2, PrefixNext DEF r, d
    <3> QED BY <2>1, <3>1, Sizes
  <2>7. Good(leaf, l + 1, Append(r, d))
    BY <2>3, <2>6, GoodTip
  <2>8. Good(m, l, r)
    <3>1. Changes(m, n, d, leaf, l)
      BY <2>4 DEF Changes
    <3> QED BY <1>1, <1>5, <2>1, <2>7, <3>1, GoodChange
  <2>9. \A j \in Keys : Find(n, l, j) = IF Mask(Hash[j], l) \in Bits(n) THEN Find(ChildAt(n, Mask(Hash[j], l)), l + 1, j) ELSE {}
    BY <1>5, <2>1, InnerFind
  <2>10. \A j \in Keys : Find(m, l, j) = IF Mask(Hash[j], l) \in Bits(m) THEN Find(ChildAt(m, Mask(Hash[j], l)), l + 1, j) ELSE {}
    BY <2>1, <2>4, InnerFind
  <2>11. \A j \in Keys : Find(leaf, l + 1, j) = IF leaf.key = j THEN {leaf} ELSE {}
    BY <2>3, <2>6, FindLeaf
  <2>12. ASSUME NEW j \in Keys PROVE Find(m, l, j) = IF j = k THEN {leaf} ELSE Find(n, l, j)
    <3>1. CASE Mask(Hash[j], l) = d
      <4>1. Find(m, l, j) = Find(leaf, l + 1, j) /\ Find(n, l, j) = {}
        BY <2>2, <2>4, <2>9, <2>10, <3>1
      <4> QED BY <2>3, <2>11, <4>1
    <3>2. CASE Mask(Hash[j], l) # d
      <4>1. Find(m, l, j) = Find(n, l, j)
        BY <2>4, <2>9, <2>10, <3>2
      <4>2. j # k
        BY <3>2 DEF d
      <4> QED BY <4>1, <4>2
    <3> QED BY <3>1, <3>2
  <2>13. Find(n, l, k) = {}
    BY <2>2, <2>9 DEF d
  <2> DEFINE q == Result(m, TRUE)
  <2>14. q.n = m /\ q.added = TRUE
    BY DEF Result
  <2> HIDE DEF q
  <2>15. Sets(q, n, l, k, v)
    BY <2>8, <2>12, <2>13, <2>14 DEF Sets, r, leaf
  <2> QED BY <2>5, <2>15 DEF q
<1> QED BY <1>1, <1>3, <1>4, <1>5

LEMMA SetIs ==
  ASSUME MapConstants, NEW k \in Keys, NEW v, v # Absent, NEW l, NEW n, Good(n, l, Prefix(Hash[k], l))
  PROVE  Sets(NodeSet(n, l, k, v), n, l, k, v)
<1> DEFINE S == {j \in Nat : \A m, p : /\ Good(m, p, Prefix(Hash[k], p)) /\ MapHeight - p = j
                                       => Sets(NodeSet(m, p, k, v), m, p, k, v)}
<1>1. ASSUME NEW m, NEW p, Good(m, p, Prefix(Hash[k], p)),
             Mask(Hash[k], p) \notin Bits(Opened(m, p, k))
      PROVE  Sets(NodeSet(m, p, k, v), m, p, k, v)
  <2> DEFINE o == Opened(m, p, k)  q == SetLast(o, p, k, v)
  <2>1. OpensTo(o, m, p, k)
    BY <1>1, OpenedIs
  <2>2. OpensTo(o, o, p, k)
    <3> HIDE DEF o
    <3> QED BY <2>1 DEF OpensTo
  <2>3. p \in 0 .. MapHeight
    BY <1>1, GoodKind
  <2>4. NodeSet(m, p, k, v) = q
    BY <1>1, <2>3, NodeSetEnds
  <2>5. Sets(q, o, p, k, v)
    <3>1. Mask(Hash[k], p) \notin Bits(o)
      BY <1>1
    <3> HIDE DEF o
    <3> QED BY <2>2, <3>1, SetEnds
  <2> HIDE DEF q, o
  <2>6. Sets(q, m, p, k, v)
    BY <2>1, <2>5 DEF Sets, OpensTo
  <2> QED BY <2>4, <2>6
<1>2. 0 \in S
  <2> SUFFICES ASSUME NEW m, NEW p, Good(m, p, Prefix(Hash[k], p)), MapHeight - p = 0
               PROVE  Sets(NodeSet(m, p, k, v), m, p, k, v)
    OBVIOUS
  <2> DEFINE o == Opened(m, p, k)
  <2>1. OpensTo(o, m, p, k)
    BY OpenedIs
  <2> HIDE DEF o
  <2>2. Good(o, p, Prefix(Hash[k], p))
    BY <2>1 DEF OpensTo
  <2>3. Bits(o) = {}
    <3>1. p \in 0 .. MapHeight /\ ~(p \in 0 .. MapHeight - 1)
      BY <2>2, GoodKind, Sizes
    <3> QED BY <2>2, <3>1, GoodKind
  <2>4. Mask(Hash[k], p) \notin Bits(Opened(m, p, k))
    BY <2>3 DEF o
  <2> QED BY <1>1, <2>4
<1>3. ASSUME NEW j \in Nat, j \in S PROVE j + 1 \in S
  <2> SUFFICES ASSUME NEW m, NEW p, Good(m, p, Prefix(Hash[k], p)), MapHeight - p = j + 1
               PROVE  Sets(NodeSet(m, p, k, v), m, p, k, v)
    OBVIOUS
  <2> DEFINE o == Opened(m, p, k)  d == Mask(Hash[k], p)  r == Prefix(Hash[k], p)
  <2>1. CASE d \notin Bits(o)
    BY <1>1, <2>1
  <2>2. CASE d \in Bits(o)
    <3>1. OpensTo(o, m, p, k)
      BY OpenedIs
    <3>2. p \in 0 .. MapHeight /\ p \in Nat /\ r \in Seq(Digits) /\ Len(r) = p /\ MapHeight \in Nat /\ Hash[k] \in Nat
      BY GoodKind, Sizes
    <3>3. p \in 0 .. MapHeight - 1 /\ MapHeight - (p + 1) = j
      BY <3>2
    <3> DEFINE c == ChildAt(o, d)  sub == NodeSet(c, p + 1, k, v)  w == WithChild(o, d, sub.n, p)
               q == Result(w, sub.added)
    <3>4. NodeSet(m, p, k, v) = q
      BY <2>2, <3>3, NodeSetNext
    <3>5. d \in Digits
      BY <3>2, MaskDigit
    <3>6. Append(r, d) = Prefix(Hash[k], p + 1)
      BY <3>2, <3>5, PrefixNext
    <3> HIDE DEF o, d, r
    <3>7. Good(o, p, r) /\ (\A i \in Keys : Find(o, p, i) = Find(m, p, i)) /\ Inner(o, p)
      <4>1. Good(o, p, r) /\ \A i \in Keys : Find(o, p, i) = Find(m, p, i)
        BY <3>1 DEF OpensTo, r
      <4>2. Inner(o, p)
        BY <2>2, <4>1, GoodKind
      <4> QED BY <4>1, <4>2
    <3>8. Good(c, p + 1, Prefix(Hash[k], p + 1))
      BY <2>2, <3>6, <3>7, GoodDown
    <3> HIDE DEF c
    <3>9. Sets(sub, c, p + 1, k, v)
      BY <1>3, <3>3, <3>8
    <3> DEFINE x == sub.n
    <3>10. /\ Good(x, p + 1, Append(r, d)) /\ sub.added = (Find(c, p + 1, k) = {})
           /\ \A i \in Keys : Find(x, p + 1, i) = IF i = k THEN {Leaf(k, v)} ELSE Find(c, p + 1, i)
      BY <3>6, <3>9 DEF Sets
    <3>11. q.n = w /\ q.added = sub.added
      BY DEF Result
    <3> HIDE DEF q
    <3>12. w = WithChild(o, d, x, p)
      OBVIOUS
    <3> HIDE DEF sub, x, w
    <3>13. /\ Inner(w, p) /\ Bits(w) = Bits(o)
           /\ \A e \in Bits(o) : ChildAt(w, e) = IF e = d THEN x ELSE ChildAt(o, e)
      BY <2>2, <3>7, <3>12, WithChildFacts
    <3>14. Good(w, p, r)
      <4>1. Changes(w, o, d, x, p)
        BY <2>2, <3>13 DEF Changes
      <4> QED BY <3>3, <3>7, <3>10, <4>1, GoodChange
    <3>15. \A i \in Keys : Find(o, p, i) = IF Mask(Hash[i], p) \in Bits(o) THEN Find(ChildAt(o, Mask(Hash[i], p)), p + 1, i) ELSE {}
      BY <3>3, <3>7, InnerFind
    <3>16. \A i \in Keys : Find(w, p, i) = IF Mask(Hash[i], p) \in Bits(w) THEN Find(ChildAt(w, Mask(Hash[i], p)), p + 1, i) ELSE {}
      BY <3>3, <3>13, InnerFind
    <3>17. ASSUME NEW i \in Keys PROVE Find(w, p, i) = IF i = k THEN {Leaf(k, v)} ELSE Find(m, p, i)
      <4>1. CASE Mask(Hash[i], p) = d
        <5>1. Find(w, p, i) = Find(x, p + 1, i) /\ Find(o, p, i) = Find(c, p + 1, i)
          BY <2>2, <3>13, <3>15, <3>16, <4>1 DEF c
        <5> QED BY <3>7, <3>10, <5>1
      <4>2. CASE Mask(Hash[i], p) # d
        <5>1. Find(w, p, i) = Find(o, p, i)
          BY <3>13, <3>15, <3>16, <4>2
        <5>2. i # k
          BY <4>2 DEF d
        <5> QED BY <3>7, <5>1, <5>2
      <4> QED BY <4>1, <4>2
    <3>18. Find(m, p, k) = Find(c, p + 1, k)
      BY <2>2, <3>7, <3>15 DEF c, d
    <3>19. Sets(q, m, p, k, v)
      BY <3>10, <3>11, <3>14, <3>17, <3>18 DEF Sets, r
    <3> QED BY <3>4, <3>19
  <2> QED BY <2>1, <2>2
<1>4. Nat \subseteq S
  <2> HIDE DEF S
  <2> QED BY <1>2, <1>3, Induction
<1>5. l \in 0 .. MapHeight
  BY GoodKind
<1>6. MapHeight - l \in Nat
  BY <1>5, Sizes
<1> QED BY <1>4, <1>6

-----------------------------------------------------------------------------
(* What without changes *)

\* What is left as q of the node n without k.
Drops(q, n, l, r, k) ==
  IF Find(n, l, k) = {} THEN q = n
  ELSE IF q = NoNode THEN \A j \in Keys : j # k => Find(n, l, j) = {}
  ELSE Good(q, l, r) /\ \A j \in Keys : Find(q, l, j) = IF j = k THEN {} ELSE Find(n, l, j)

LEMMA DropLeaf ==
  ASSUME MapConstants, NEW n, Leafy(n), NEW l \in 0 .. MapHeight, NEW r, NEW k \in Keys
  PROVE  Drops(leaf_node_without(n, k), n, l, r, k)
<1>1. \A j \in Keys : Find(n, l, j) = IF n.key = j THEN {n} ELSE {}
  BY FindLeaf
<1>2. n.hash = Hash[n.key] /\ n.key \in Keys
  BY LeafyFacts
<1>3. CASE n.key = k
  <2>1. leaf_node_without(n, k) = NoNode
    BY <1>2, <1>3 DEF leaf_node_without
  <2> QED BY <1>1, <1>3, <2>1 DEF Drops
<1>4. CASE n.key # k
  <2>1. leaf_node_without(n, k) = n
    BY <1>4 DEF leaf_node_without
  <2> QED BY <1>1, <1>4, <2>1 DEF Drops
<1> QED BY <1>3, <1>4

LEMMA DropShared ==
  ASSUME MapConstants, NEW n, Shared(n), NEW l \in 0 .. MapHeight, NEW k \in Keys
  PROVE  Drops(collision_node_without(n, k), n, l, Prefix(n.hash, l), k)
<1> DEFINE t == n.leaves  x == IndexOf(n, k)  q == collision_node_without(n, k)
<1>1. /\ t \in Seq(Range(t)) /\ Len(t) >= 2 /\ Len(t) \in Nat
      /\ \A i \in 1 .. Len(t) : Leafy(t[i]) /\ t[i].hash = n.hash
      /\ \A i, j \in 1 .. Len(t) : t[i].key = t[j].key => i = j
  BY SharedFacts
<1>2. \/ x = 0 /\ \A i \in 1 .. Len(t) : t[i].key # k
      \/ x \in 1 .. Len(t) /\ x # 0 /\ \A i \in 1 .. Len(t) : t[i].key = k <=> i = x
  BY IndexFacts
<1>3. \A j \in Keys : /\ \A i \in 1 .. Len(t) : t[i].key = j => Find(n, l, j) = {t[i]}
                      /\ (\A i \in 1 .. Len(t) : t[i].key # j) => Find(n, l, j) = {}
  BY FindShared
<1>4. q = IF x = 0 THEN n ELSE IF Len(t) = 2 THEN t[3 - x] ELSE Collision(n.hash, RemoveAt(t, x))
  BY DEF collision_node_without
<1> HIDE DEF t, x, q
<1>5. CASE x = 0
  <2>1. Find(n, l, k) = {}
    BY <1>2, <1>3, <1>5
  <2>2. Drops(q, n, l, Prefix(n.hash, l), k)
    BY <1>4, <1>5, <2>1 DEF Drops
  <2> QED BY <2>2 DEF q
<1>6. CASE x # 0 /\ Len(t) = 2
  <2> DEFINE y == 3 - x
  <2>1. x \in 1 .. Len(t) /\ y \in 1 .. Len(t) /\ y # x /\ \A i \in 1 .. Len(t) : i = x \/ i = y
    BY <1>2, <1>6
  <2>2. q = t[y]
    BY <1>4, <1>6
  <2> HIDE DEF y
  <2>3. Leafy(q) /\ q.hash = n.hash /\ q.key # k
    BY <1>1, <1>2, <1>6, <2>1, <2>2
  <2>4. Good(q, l, Prefix(n.hash, l)) /\ q # NoNode
    <3>1. Good(q, l, Prefix(n.hash, l))
      BY <2>3, GoodTip
    <3> QED BY <3>1, GoodKind
  <2>5. ASSUME NEW j \in Keys PROVE Find(q, l, j) = IF j = k THEN {} ELSE Find(n, l, j)
    <3>1. Find(q, l, j) = IF q.key = j THEN {q} ELSE {}
      BY <2>3, FindLeaf
    <3>2. CASE q.key = j
      BY <1>3, <2>1, <2>2, <2>3, <3>1, <3>2
    <3>3. CASE q.key # j /\ j # k
      <4>1. \A i \in 1 .. Len(t) : t[i].key # j
        BY <1>2, <1>6, <2>1, <2>2, <3>3
      <4> QED BY <1>3, <3>1, <3>3, <4>1
    <3>4. CASE j = k
      BY <2>3, <3>1, <3>4
    <3> QED BY <3>2, <3>3, <3>4
  <2>6. Find(n, l, k) # {}
    BY <1>2, <1>3, <1>6
  <2>7. Drops(q, n, l, Prefix(n.hash, l), k)
    BY <2>4, <2>5, <2>6 DEF Drops
  <2> QED BY <2>7 DEF q
<1>7. CASE x # 0 /\ Len(t) # 2
  <2> DEFINE s == RemoveAt(t, x)
  <2>1. x \in 1 .. Len(t) /\ \A i \in 1 .. Len(t) : t[i].key = k <=> i = x
    BY <1>2, <1>7
  <2>2. /\ s \in Seq(Range(t)) /\ Len(s) = Len(t) - 1
        /\ \A i \in 1 .. Len(t) - 1 : s[i] = IF i < x THEN t[i] ELSE t[i + 1]
    BY <1>1, <2>1, RemoveFacts
  <2>3. q = Collision(n.hash, s)
    BY <1>4, <1>7
  <2> HIDE DEF s
  <2>4. Len(s) >= 2 /\ Len(s) \in Nat
    BY <1>1, <1>7, <2>2
  <2> DEFINE From(i) == IF i < x THEN i ELSE i + 1
  <2>5. \A i \in 1 .. Len(s) : From(i) \in 1 .. Len(t) /\ From(i) # x /\ s[i] = t[From(i)]
    BY <1>1, <2>1, <2>2
  <2>6. \A i, j \in 1 .. Len(s) : From(i) = From(j) => i = j
    BY <1>1, <2>1, <2>2
  <2>7. \A i \in 1 .. Len(t) : i # x => \E j \in 1 .. Len(s) : From(j) = i
    <3> SUFFICES ASSUME NEW i \in 1 .. Len(t), i # x PROVE \E j \in 1 .. Len(s) : From(j) = i
      OBVIOUS
    <3>1. CASE i < x
      <4>1. i \in 1 .. Len(s) /\ From(i) = i
        BY <1>1, <2>1, <2>2, <3>1
      <4> QED BY <4>1
    <3>2. CASE i > x
      <4>1. i - 1 \in 1 .. Len(s) /\ From(i - 1) = i
        BY <1>1, <2>1, <2>2, <3>2
      <4> QED BY <4>1
    <3> QED BY <2>1, <3>1, <3>2
  <2> HIDE DEF From
  <2>8. \A i \in 1 .. Len(s) : Leafy(s[i]) /\ s[i].hash = n.hash
    BY <1>1, <2>5
  <2>9. \A i, j \in 1 .. Len(s) : s[i].key = s[j].key => i = j
    <3> TAKE i, j \in 1 .. Len(s)
    <3>1. s[i] = t[From(i)] /\ s[j] = t[From(j)] /\ From(i) \in 1 .. Len(t) /\ From(j) \in 1 .. Len(t)
      BY <2>5
    <3>2. t[From(i)].key = t[From(j)].key => From(i) = From(j)
      BY <1>1, <3>1
    <3> QED BY <2>6, <3>1, <3>2
  <2>10. Shared(q) /\ q.leaves = s /\ q.hash = n.hash
    BY <2>2, <2>3, <2>4, <2>8, <2>9, SharedMade
  <2>11. Good(q, l, Prefix(n.hash, l)) /\ q # NoNode
    <3>1. Good(q, l, Prefix(n.hash, l))
      BY <2>10, GoodTip
    <3> QED BY <3>1, GoodKind
  <2>12. ASSUME NEW j \in Keys PROVE Find(q, l, j) = IF j = k THEN {} ELSE Find(n, l, j)
    <3>1. CASE j = k
      <4>1. \A i \in 1 .. Len(s) : s[i].key # j
        BY <2>1, <2>5, <3>1
      <4>2. Find(q, l, j) = {}
        BY <2>10, <4>1, FindShared
      <4> QED BY <3>1, <4>2
    <3>2. CASE j # k /\ \E i \in 1 .. Len(t) : t[i].key = j
      <4>1. PICK i \in 1 .. Len(t) : t[i].key = j
        BY <3>2
      <4>2. i # x
        BY <2>1, <3>2, <4>1
      <4>3. PICK e \in 1 .. Len(s) : From(e) = i
        BY <2>7, <4>2
      <4>4. s[e] = t[i]
        BY <2>5, <4>3
      <4>5. Find(q, l, j) = {s[e]}
        BY <2>10, <4>1, <4>4, FindShared
      <4> QED BY <1>3, <3>2, <4>1, <4>4, <4>5
    <3>3. CASE j # k /\ \A i \in 1 .. Len(t) : t[i].key # j
      <4>1. \A i \in 1 .. Len(s) : s[i].key # j
        BY <2>5, <3>3
      <4>2. Find(q, l, j) = {}
        BY <2>10, <4>1, FindShared
      <4> QED BY <1>3, <3>3, <4>2
    <3> QED BY <3>1, <3>2, <3>3
  <2>13. Find(n, l, k) # {}
    BY <1>3, <2>1
  <2>14. Drops(q, n, l, Prefix(n.hash, l), k)
    BY <2>11, <2>12, <2>13 DEF Drops
  <2> QED BY <2>14 DEF q
<1> QED BY <1>5, <1>6, <1>7

LEMMA WithoutIs ==
  ASSUME MapConstants, NEW k \in Keys, NEW n, NEW l, NEW r, Good(n, l, r)
  PROVE  Drops(Without(n, l, k), n, l, r, k)
<1> DEFINE S == {j \in Nat : \A m, p, q : Good(m, p, q) /\ MapHeight - p = j => Drops(Without(m, p, k), m, p, q, k)}
<1>1. ASSUME NEW m, NEW p, NEW q, Good(m, p, q), ~Inner(m, p)
      PROVE  Drops(Without(m, p, k), m, p, q, k)
  <2>1. p \in 0 .. MapHeight /\ (Leafy(m) \/ Shared(m)) /\ Prefix(m.hash, p) = q
    BY <1>1, GoodKind
  <2>2. Without(m, p, k) = WithoutLast(m, k)
    BY <2>1, TipBits, WithoutEnds
  <2>3. CASE Leafy(m)
    <3>1. WithoutLast(m, k) = leaf_node_without(m, k)
      BY <2>3, LeafyFacts DEF WithoutLast
    <3>2. Drops(leaf_node_without(m, k), m, p, q, k)
      BY <2>1, <2>3, DropLeaf
    <3> QED BY <2>2, <3>1, <3>2
  <2>4. CASE Shared(m)
    <3>1. WithoutLast(m, k) = collision_node_without(m, k)
      BY <2>4, SharedFacts DEF WithoutLast
    <3>2. Drops(collision_node_without(m, k), m, p, Prefix(m.hash, p), k)
      BY <2>1, <2>4, DropShared
    <3> QED BY <2>1, <2>2, <3>1, <3>2
  <2> QED BY <2>1, <2>3, <2>4
<1>2. 0 \in S
  <2> SUFFICES ASSUME NEW m, NEW p, NEW q, Good(m, p, q), MapHeight - p = 0
               PROVE  Drops(Without(m, p, k), m, p, q, k)
    OBVIOUS
  <2>1. ~Inner(m, p)
    <3>1. p \in 0 .. MapHeight /\ (Inner(m, p) => p < MapHeight)
      <4>1. Inner(m, p) => m.kind \in {"idx", "full"}
        BY InnerBits
      <4> QED BY <4>1, GoodKind, LeafyFacts, SharedFacts
    <3> QED BY <3>1, Sizes
  <2> QED BY <1>1, <2>1
<1>3. ASSUME NEW j \in Nat, j \in S PROVE j + 1 \in S
  <2> SUFFICES ASSUME NEW m, NEW p, NEW q, Good(m, p, q), MapHeight - p = j + 1
               PROVE  Drops(Without(m, p, k), m, p, q, k)
    OBVIOUS
  <2> DEFINE d == Mask(Hash[k], p)
  <2>1. CASE ~Inner(m, p)
    BY <1>1, <2>1
  <2>2. CASE Inner(m, p) /\ d \notin Bits(m)
    <3>1. p \in 0 .. MapHeight /\ p \in 0 .. MapHeight - 1
      <4>1. p \in 0 .. MapHeight /\ MapHeight \in Nat
        BY GoodKind, Sizes
      <4> QED BY <4>1
    <3>2. m.kind \in {"idx", "full"} /\ m.level = p
      BY <2>2, InnerBits
    <3>3. ~Leads(m, k)
      BY <2>2, <3>2 DEF Leads
    <3>4. Without(m, p, k) = m
      <4>1. Without(m, p, k) = WithoutLast(m, k)
        BY <3>1, <3>3, WithoutEnds
      <4> QED BY <3>2, <4>1 DEF WithoutLast
    <3>5. Find(m, p, k) = {}
      BY <2>2, <3>1, InnerFind
    <3> QED BY <3>4, <3>5 DEF Drops
  <2>3. CASE Inner(m, p) /\ d \in Bits(m)
    <3>1. p \in 0 .. MapHeight /\ p \in Nat /\ q \in Seq(Digits) /\ Len(q) = p /\ MapHeight \in Nat
      BY GoodKind, Sizes
    <3>2. p \in 0 .. MapHeight - 1 /\ MapHeight - (p + 1) = j
      BY <3>1
    <3>3. m.kind \in {"idx", "full"} /\ m.level = p /\ Bits(m) # {}
      BY <2>3, InnerBits
    <3>4. Leads(m, k)
      BY <2>3, <3>3 DEF Leads
    <3> DEFINE c == ChildAt(m, d)  sub == Without(c, p + 1, k)  w == Without(m, p, k)
    <3>5. w = IF sub = NoNode THEN Cut(m, d) ELSE WithChild(m, d, sub, p)
      BY <3>2, <3>3, <3>4, WithoutNext
    <3>6. Good(c, p + 1, Append(q, d)) /\ c # NoNode
      <4>1. Good(c, p + 1, Append(q, d))
        BY <2>3, GoodDown
      <4> HIDE DEF c
      <4> QED BY <4>1, GoodKind
    <3>7. \A i \in Keys : Find(m, p, i) = IF Mask(Hash[i], p) \in Bits(m) THEN Find(ChildAt(m, Mask(Hash[i], p)), p + 1, i) ELSE {}
      BY <2>3, <3>2, InnerFind
    <3>8. Find(m, p, k) = Find(c, p + 1, k)
      BY <2>3, <3>7
    <3>9. \A i \in Keys : Mask(Hash[i], p) = d => Find(m, p, i) = Find(c, p + 1, i)
      BY <2>3, <3>7
    <3>10. WithChild(m, d, c, p) = m
      BY <2>3, WithChildFacts
    <3>11. \A i \in Keys : Mask(Hash[i], p) # d => i # k
      OBVIOUS
    <3> HIDE DEF c
    <3>12. Drops(sub, c, p + 1, Append(q, d), k)
      BY <1>3, <3>2, <3>6
    <3> HIDE DEF sub, d
    <3>13. CASE Find(c, p + 1, k) = {}
      <4>1. sub = c
        BY <3>12, <3>13 DEF Drops
      <4>2. w = m
        BY <3>5, <3>6, <3>10, <4>1
      <4> QED BY <3>8, <3>13, <4>2 DEF Drops
    <3>14. CASE Find(c, p + 1, k) # {} /\ sub = NoNode
      <4>1. w = Cut(m, d)
        BY <3>5, <3>14
      <4>2. \A i \in Keys : i # k => Find(c, p + 1, i) = {}
        BY <3>12, <3>14 DEF Drops
      <4>3. CASE Bits(m) = {d}
        <5>1. w = NoNode
          BY <4>1, <4>3 DEF Cut
        <5>2. \A i \in Keys : i # k => Find(m, p, i) = {}
          BY <3>7, <3>9, <4>2, <4>3
        <5> QED BY <3>8, <3>14, <5>1, <5>2 DEF Drops
      <4>4. CASE Bits(m) # {d}
        <5>1. /\ Inner(w, p) /\ Bits(w) = Bits(m) \ {d}
              /\ \A e \in Bits(m) \ {d} : ChildAt(w, e) = ChildAt(m, e)
          BY <2>3, <4>1, <4>4, CutFacts
        <5> HIDE DEF w
        <5>2. Fine(w, p, q)
          <6>1. p < MapHeight
            BY <3>1, <3>2
          <6> QED BY <3>1, <5>1, <6>1 DEF Fine
        <5>3. ASSUME NEW e \in Bits(w) PROVE Good(ChildAt(w, e), p + 1, Append(q, e))
          <6>1. e \in Bits(m) /\ ChildAt(w, e) = ChildAt(m, e)
            BY <5>1
          <6> QED BY <6>1, GoodDown
        <5>4. Good(w, p, q)
          BY <5>2, <5>3, GoodUp
        <5>5. \A i \in Keys : Find(w, p, i) = IF Mask(Hash[i], p) \in Bits(w) THEN Find(ChildAt(w, Mask(Hash[i], p)), p + 1, i) ELSE {}
          BY <3>2, <5>1, InnerFind
        <5>6. ASSUME NEW i \in Keys PROVE Find(w, p, i) = IF i = k THEN {} ELSE Find(m, p, i)
          <6>1. CASE Mask(Hash[i], p) = d
            <7>1. Find(w, p, i) = {}
              BY <5>1, <5>5, <6>1
            <7> QED BY <3>9, <4>2, <6>1, <7>1
          <6>2. CASE Mask(Hash[i], p) # d
            <7>1. Find(w, p, i) = Find(m, p, i)
              BY <3>7, <5>1, <5>5, <6>2
            <7> QED BY <3>11, <6>2, <7>1 DEF d
          <6> QED BY <6>1, <6>2
        <5>7. w # NoNode
          BY <5>4, GoodKind
        <5>8. Drops(w, m, p, q, k)
          BY <3>8, <3>14, <5>4, <5>6, <5>7 DEF Drops
        <5> QED BY <5>8 DEF w
      <4> QED BY <4>3, <4>4
    <3>15. CASE Find(c, p + 1, k) # {} /\ sub # NoNode
      <4>1. w = WithChild(m, d, sub, p)
        BY <3>5, <3>15
      <4>2. /\ Good(sub, p + 1, Append(q, d))
            /\ \A i \in Keys : Find(sub, p + 1, i) = IF i = k THEN {} ELSE Find(c, p + 1, i)
        BY <3>12, <3>15 DEF Drops
      <4>3. /\ Inner(w, p) /\ Bits(w) = Bits(m)
            /\ \A e \in Bits(m) : ChildAt(w, e) = IF e = d THEN sub ELSE ChildAt(m, e)
        BY <2>3, <4>1, WithChildFacts
      <4> HIDE DEF w
      <4>4. Good(w, p, q)
        <5>1. Changes(w, m, d, sub, p)
          BY <2>3, <4>3 DEF Changes, d
        <5> QED BY <2>3, <3>2, <4>2, <5>1, GoodChange
      <4>5. \A i \in Keys : Find(w, p, i) = IF Mask(Hash[i], p) \in Bits(w) THEN Find(ChildAt(w, Mask(Hash[i], p)), p + 1, i) ELSE {}
        BY <3>2, <4>3, InnerFind
      <4>6. ASSUME NEW i \in Keys PROVE Find(w, p, i) = IF i = k THEN {} ELSE Find(m, p, i)
        <5>1. CASE Mask(Hash[i], p) = d
          <6>1. Find(w, p, i) = Find(sub, p + 1, i)
            BY <2>3, <4>3, <4>5, <5>1
          <6> QED BY <3>9, <4>2, <5>1, <6>1
        <5>2. CASE Mask(Hash[i], p) # d
          <6>1. Find(w, p, i) = Find(m, p, i)
            BY <3>7, <4>3, <4>5, <5>2
          <6> QED BY <3>11, <5>2, <6>1
        <5> QED BY <5>1, <5>2
      <4>7. w # NoNode
        BY <4>4, GoodKind
      <4>8. Drops(w, m, p, q, k)
        BY <3>8, <3>15, <4>4, <4>6, <4>7 DEF Drops
      <4> QED BY <4>8 DEF w
    <3> QED BY <3>13, <3>14, <3>15
  <2> QED BY <2>1, <2>2, <2>3
<1>4. Nat \subseteq S
  <2> HIDE DEF S
  <2> QED BY <1>2, <1>3, Induction
<1>5. l \in 0 .. MapHeight
  BY GoodKind
<1>6. MapHeight - l \in Nat
  BY <1>5, Sizes
<1> QED BY <1>4, <1>6

-----------------------------------------------------------------------------
(* Maps *)

\* The keys that are in a map; what is found in one, and what a map is.
HeldIn(m) == {k \in Keys : Find(m.root, 0, k) # {}}
Finds(m, k) == Find(m.root, 0, k)

Sound(m) ==
  /\ m.root = EmptyNode \/ Good(m.root, 0, <<>>)
  /\ IsFiniteSet(HeldIn(m)) /\ m.cnt = Cardinality(HeldIn(m))

LEMMA EmptyNodeFacts ==
  ASSUME MapConstants, NEW k
  PROVE  /\ Find(EmptyNode, 0, k) = {} /\ Without(EmptyNode, 0, k) = EmptyNode
         /\ \A v : NodeSet(EmptyNode, 0, k, v) = Result(Leaf(k, v), TRUE)
<1>1. 0 \in 0 .. MapHeight
  BY Sizes
<1>2. EmptyNode.kind = "empty" /\ Bits(EmptyNode) = {} /\ ~Leads(EmptyNode, k)
  BY TipBits DEF EmptyNode
<1>3. Find(EmptyNode, 0, k) = {}
  <2>1. Find(EmptyNode, 0, k) = FindLast(EmptyNode, k)
    BY <1>1, <1>2, FindEnds
  <2> QED BY <1>2, <2>1 DEF FindLast
<1>4. Without(EmptyNode, 0, k) = EmptyNode
  <2>1. Without(EmptyNode, 0, k) = WithoutLast(EmptyNode, k)
    BY <1>1, <1>2, WithoutEnds
  <2> QED BY <1>2, <2>1 DEF WithoutLast
<1>5. ASSUME NEW v PROVE NodeSet(EmptyNode, 0, k, v) = Result(Leaf(k, v), TRUE)
  <2>1. Opened(EmptyNode, 0, k) = EmptyNode
    BY <1>2 DEF Opened
  <2>2. NodeSet(EmptyNode, 0, k, v) = SetLast(EmptyNode, 0, k, v)
    BY <1>1, <1>2, <2>1, NodeSetEnds
  <2> QED BY <1>2, <2>2 DEF SetLast
<1> QED BY <1>3, <1>4, <1>5

\* What is found in a map is the leaf of the key; what map_get() gives.
LEMMA MapFinds ==
  ASSUME MapConstants, NEW m, Sound(m), NEW k \in Keys
  PROVE  \/ Finds(m, k) = {} /\ Get(m, k) = Absent
         \/ \E leaf : /\ Finds(m, k) = {leaf} /\ Leafy(leaf) /\ leaf.key = k
                      /\ Get(m, k) = leaf.val /\ leaf.val # Absent
<1>1. Finds(m, k) = {} \/ \E leaf : Finds(m, k) = {leaf} /\ Leafy(leaf) /\ leaf.key = k
  <2>1. CASE m.root = EmptyNode
    BY <2>1, EmptyNodeFacts DEF Finds
  <2>2. CASE Good(m.root, 0, <<>>)
    <3>1. FindsOnly(m.root, 0, <<>>, k)
      BY <2>2, FindOnly
    <3> QED BY <3>1 DEF FindsOnly, Finds
  <2> QED BY <2>1, <2>2 DEF Sound
<1> DEFINE F == Finds(m, k)
<1>2. Get(m, k) = IF F = {} THEN Absent ELSE (CHOOSE leaf \in F : TRUE).val
  BY DEF Get, Finds
<1> HIDE DEF F
<1>3. CASE F = {}
  BY <1>2, <1>3 DEF F
<1>4. CASE F # {}
  <2>1. PICK leaf : F = {leaf} /\ Leafy(leaf) /\ leaf.key = k
    BY <1>1, <1>4 DEF F
  <2>2. (CHOOSE x \in {leaf} : TRUE) = leaf
    OBVIOUS
  <2>3. Get(m, k) = leaf.val
    BY <1>2, <1>4, <2>1, <2>2
  <2>4. leaf.val # Absent
    BY <2>1, LeafyFacts
  <2> QED BY <2>1, <2>3, <2>4 DEF F
<1> QED BY <1>3, <1>4

LEMMA MapHeld ==
  ASSUME MapConstants, NEW m, Sound(m)
  PROVE  /\ \A k \in Keys : (k \in HeldIn(m)) = (Get(m, k) # Absent)
         /\ m.cnt \in Nat /\ (m.cnt = 0 <=> m.root = EmptyNode)
         /\ HeldIn(m) \subseteq Keys /\ IsFiniteSet(HeldIn(m)) /\ m.cnt = Cardinality(HeldIn(m))
<1>1. ASSUME NEW k \in Keys PROVE (k \in HeldIn(m)) = (Get(m, k) # Absent)
  <2>1. k \in HeldIn(m) <=> Finds(m, k) # {}
    BY DEF HeldIn, Finds
  <2>2. Finds(m, k) # {} <=> Get(m, k) # Absent
    BY MapFinds
  <2> QED BY <2>1, <2>2
<1>2. HeldIn(m) \subseteq Keys /\ IsFiniteSet(HeldIn(m)) /\ m.cnt = Cardinality(HeldIn(m))
  BY DEF HeldIn, Sound
<1>3. m.cnt \in Nat /\ (m.cnt = 0 <=> HeldIn(m) = {})
  BY <1>2, FS_CardinalityType, FS_EmptySet
<1>4. HeldIn(m) = {} <=> m.root = EmptyNode
  <2>1. CASE m.root = EmptyNode
    BY <2>1, EmptyNodeFacts DEF HeldIn
  <2>2. CASE Good(m.root, 0, <<>>)
    <3>1. \E k \in Keys : Find(m.root, 0, k) # {}
      BY <2>2, GoodHas
    <3>2. m.root # EmptyNode
      BY <2>2, GoodKind
    <3> QED BY <3>1, <3>2 DEF HeldIn
  <2> QED BY <2>1, <2>2 DEF Sound
<1> QED BY <1>1, <1>2, <1>3, <1>4

LEMMA EmptyIs ==
  ASSUME MapConstants
  PROVE  Sound(EmptyMap) /\ \A k \in Keys : Finds(EmptyMap, k) = {}
<1>1. EmptyMap.root = EmptyNode /\ EmptyMap.cnt = 0
  BY DEF EmptyMap
<1>2. \A k \in Keys : Finds(EmptyMap, k) = {}
  BY <1>1, EmptyNodeFacts DEF Finds
<1>3. HeldIn(EmptyMap) = {}
  BY <1>2 DEF HeldIn, Finds
<1> QED BY <1>1, <1>2, <1>3, FS_EmptySet DEF Sound

\* m is a map in which k has the leaves F, and other keys those that they have in o.
Becomes(m, o, k, F) ==
  Sound(m) /\ \A j \in Keys : Finds(m, j) = IF j = k THEN F ELSE Finds(o, j)

LEMMA InsertedIs ==
  ASSUME MapConstants, NEW m, Sound(m), NEW k \in Keys, NEW v, v # Absent
  PROVE  Becomes(Inserted(m, k, v), m, k, {Leaf(k, v)})
<1> DEFINE q == NodeSet(m.root, 0, k, v)  o == Inserted(m, k, v)  H == HeldIn(m)
<1>1. o.root = q.n /\ o.cnt = IF q.added THEN m.cnt + 1 ELSE m.cnt
  BY DEF Inserted
<1>2. Prefix(Hash[k], 0) = <<>> /\ 0 \in 0 .. MapHeight
  BY PrefixEmpty, Sizes
<1>3. /\ Good(q.n, 0, <<>>) /\ q.added = (Finds(m, k) = {})
      /\ \A j \in Keys : Find(q.n, 0, j) = IF j = k THEN {Leaf(k, v)} ELSE Finds(m, j)
  <2>1. CASE m.root = EmptyNode
    <3> DEFINE leaf == Leaf(k, v)
    <3>1. q.n = leaf /\ q.added = TRUE
      BY <2>1, EmptyNodeFacts DEF Result
    <3>2. Leafy(leaf) /\ leaf.key = k /\ leaf.hash = Hash[k]
      BY LeafMade
    <3> HIDE DEF leaf, q
    <3>3. Good(leaf, 0, <<>>)
      BY <1>2, <3>2, PrefixEmpty, GoodTip
    <3>4. \A j \in Keys : Find(leaf, 0, j) = IF leaf.key = j THEN {leaf} ELSE {}
      BY <1>2, <3>2, FindLeaf
    <3>5. \A j \in Keys : Finds(m, j) = {}
      BY <2>1, EmptyNodeFacts DEF Finds
    <3> QED BY <3>1, <3>2, <3>3, <3>4, <3>5 DEF leaf
  <2>2. CASE Good(m.root, 0, <<>>)
    <3>1. Sets(q, m.root, 0, k, v)
      BY <1>2, <2>2, SetIs
    <3> HIDE DEF q
    <3> QED BY <1>2, <3>1 DEF Sets, Finds
  <2> QED BY <2>1, <2>2 DEF Sound
<1> HIDE DEF q, o
<1>4. \A j \in Keys : Finds(o, j) = IF j = k THEN {Leaf(k, v)} ELSE Finds(m, j)
  BY <1>1, <1>3 DEF Finds
<1>5. HeldIn(o) = H \union {k}
  BY <1>4 DEF HeldIn, Finds
<1>6. IsFiniteSet(H) /\ m.cnt = Cardinality(H) /\ m.cnt \in Nat /\ (k \in H <=> Finds(m, k) # {})
  BY MapHeld DEF HeldIn, Finds
<1> HIDE DEF H
<1>7. IsFiniteSet(H \union {k}) /\ Cardinality(H \union {k}) = IF k \in H THEN Cardinality(H) ELSE Cardinality(H) + 1
  BY <1>6, FS_AddElement
<1>8. o.cnt = Cardinality(HeldIn(o)) /\ IsFiniteSet(HeldIn(o))
  <2>1. q.added <=> k \notin H
    BY <1>3, <1>6
  <2> QED BY <1>1, <1>5, <1>6, <1>7, <2>1
<1>9. Becomes(o, m, k, {Leaf(k, v)})
  BY <1>1, <1>3, <1>4, <1>8 DEF Becomes, Sound
<1> QED BY <1>9 DEF o

LEMMA RemovedIs ==
  ASSUME MapConstants, NEW m, Sound(m), NEW k \in Keys
  PROVE  Becomes(Removed(m, k), m, k, {})
<1> DEFINE q == Without(m.root, 0, k)  o == Removed(m, k)  H == HeldIn(m)
<1>1. o = IF q = m.root THEN m ELSE IF q = NoNode THEN EmptyMap ELSE [cnt |-> m.cnt - 1, root |-> q]
  BY DEF Removed
<1> HIDE DEF o
<1>2. CASE m.root = EmptyNode
  <2>1. o = m /\ \A j \in Keys : Finds(m, j) = {}
    BY <1>1, <1>2, EmptyNodeFacts DEF Finds
  <2>2. Becomes(o, m, k, {})
    BY <2>1 DEF Becomes
  <2> QED BY <2>2 DEF o
<1>3. CASE Good(m.root, 0, <<>>)
  <2>1. Drops(q, m.root, 0, <<>>, k)
    BY <1>3, WithoutIs
  <2>2. m.root # NoNode
    BY <1>3, GoodKind
  <2> HIDE DEF q
  <2>3. CASE Finds(m, k) = {}
    <3>1. q = m.root
      BY <2>1, <2>3 DEF Drops, Finds
    <3>2. Becomes(o, m, k, {})
      BY <1>1, <2>3, <3>1 DEF Becomes
    <3> QED BY <3>2 DEF o
  <2>4. CASE Finds(m, k) # {} /\ q = NoNode
    <3>1. \A j \in Keys : j # k => Finds(m, j) = {}
      BY <2>1, <2>4 DEF Drops, Finds
    <3>2. o = EmptyMap
      BY <1>1, <2>2, <2>4
    <3>3. Becomes(o, m, k, {})
      BY <3>1, <3>2, EmptyIs DEF Becomes
    <3> QED BY <3>3 DEF o
  <2>5. CASE Finds(m, k) # {} /\ q # NoNode
    <3>1. Good(q, 0, <<>>) /\ \A j \in Keys : Find(q, 0, j) = IF j = k THEN {} ELSE Finds(m, j)
      BY <2>1, <2>5 DEF Drops, Finds
    <3>2. q # m.root
      BY <2>5, <3>1 DEF Finds
    <3>3. o.root = q /\ o.cnt = m.cnt - 1
      BY <1>1, <2>5, <3>2
    <3>4. \A j \in Keys : Finds(o, j) = IF j = k THEN {} ELSE Finds(m, j)
      BY <3>1, <3>3 DEF Finds
    <3>5. HeldIn(o) = H \ {k} /\ k \in H
      BY <2>5, <3>4 DEF HeldIn, Finds
    <3>6. IsFiniteSet(H) /\ m.cnt = Cardinality(H)
      BY MapHeld
    <3> HIDE DEF H
    <3>7. IsFiniteSet(H \ {k}) /\ Cardinality(H \ {k}) = Cardinality(H) - 1
      BY <3>5, <3>6, FS_RemoveElement
    <3>8. Becomes(o, m, k, {})
      BY <3>1, <3>3, <3>4, <3>5, <3>6, <3>7 DEF Becomes, Sound
    <3> QED BY <3>8 DEF o
  <2> QED BY <2>3, <2>4, <2>5
<1> QED BY <1>2, <1>3 DEF Sound

-----------------------------------------------------------------------------
(* The map of some keys and values *)

\* m is what is made of the first j keys of s and their values, one after the other.
Making(m, s, j) ==
  m = [i \in 0 .. j |-> IF i = 0 THEN EmptyMap ELSE Inserted(m[i - 1], s[2 * i - 1], s[2 * i])]

LEMMA Makings ==
  ASSUME NEW s, NEW j \in Nat
  PROVE  \E m : Making(m, s, j)
<1> DEFINE Add(x, i) == Inserted(x, s[2 * i - 1], s[2 * i])
           Is(m, n) == m = [i \in 0 .. n |-> IF i = 0 THEN EmptyMap ELSE Add(m[i - 1], i)]
           S == {n \in Nat : \E m : Is(m, n)}
<1> HIDE DEF Add
<1>1. 0 \in S
  <2> DEFINE g == [i \in 0 .. 0 |-> EmptyMap]
  <2>1. \A i \in 0 .. 0 : i = 0
    OBVIOUS
  <2>2. Is(g, 0)
    BY <2>1
  <2> HIDE DEF g, Is
  <2> QED BY <2>2
<1>2. ASSUME NEW n \in Nat, n \in S PROVE n + 1 \in S
  <2>1. PICK f : Is(f, n)
    BY <1>2
  <2> DEFINE e == n + 1
             g == [i \in 0 .. e |-> IF i = e THEN Add(f[n], e) ELSE f[i]]
  <2>2. ASSUME NEW i \in 0 .. e PROVE g[i] = IF i = 0 THEN EmptyMap ELSE Add(g[i - 1], i)
    <3>1. CASE i = e
      <4>1. i - 1 = n /\ i - 1 \in 0 .. e /\ i - 1 # e /\ i # 0
        BY <3>1
      <4>2. g[i] = Add(f[n], e) /\ g[i - 1] = f[n]
        BY <3>1, <4>1
      <4> HIDE DEF g
      <4> QED BY <3>1, <4>1, <4>2
    <3>2. CASE i # e
      <4>1. i \in 0 .. n /\ (i # 0 => i - 1 \in 0 .. e /\ i - 1 # e)
        BY <3>2
      <4>2. g[i] = f[i] /\ (i # 0 => g[i - 1] = f[i - 1])
        BY <3>2, <4>1
      <4>3. f[i] = IF i = 0 THEN EmptyMap ELSE Add(f[i - 1], i)
        BY <2>1, <4>1
      <4> HIDE DEF g
      <4> QED BY <4>2, <4>3
    <3> QED BY <3>1, <3>2
  <2>3. g = [i \in 0 .. e |-> g[i]]
    OBVIOUS
  <2> HIDE DEF g
  <2>4. Is(g, n + 1)
    BY <2>2, <2>3
  <2> QED BY <2>4
<1>3. j \in S
  <2> HIDE DEF S
  <2> QED BY <1>1, <1>2, Induction
<1>4. PICK m : Is(m, j)
  BY <1>3
<1>5. Making(m, s, j)
  BY <1>4 DEF Making, Add
<1> QED BY <1>5

\* Which of the first j keys of s are k; m has the last value of every key.
UsesTo(s, j, k) == {x \in 1 .. j : s[2 * x - 1] = k}
LastOf(p, U) == p \in U /\ \A y \in U : y <= p
HasLast(m, s, j) ==
  Sound(m) /\ \A k \in Keys : \/ UsesTo(s, j, k) = {} /\ Finds(m, k) = {}
                              \/ \E p : LastOf(p, UsesTo(s, j, k)) /\ Finds(m, k) = {Leaf(k, s[2 * p])}

LEMMA HasNext ==
  ASSUME MapConstants, NEW s, NEW j \in Nat, NEW m, HasLast(m, s, j),
         s[2 * (j + 1) - 1] \in Keys, s[2 * (j + 1)] # Absent
  PROVE  HasLast(Inserted(m, s[2 * (j + 1) - 1], s[2 * (j + 1)]), s, j + 1)
<1> DEFINE e == j + 1  c == s[2 * e - 1]  v == s[2 * e]  o == Inserted(m, c, v)
<1>1. Becomes(o, m, c, {Leaf(c, v)})
  BY InsertedIs DEF HasLast
<1>2. c \in Keys
  OBVIOUS
<1>3. \A x : x \in 1 .. e <=> x \in 1 .. j \/ x = e
  OBVIOUS
<1>4. e \in 1 .. e /\ \A x \in 1 .. j : x <= e
  OBVIOUS
<1>5. e <= e
  OBVIOUS
<1>6. c = s[2 * e - 1] /\ v = s[2 * e]
  OBVIOUS
<1> HIDE DEF e, c, v, o
<1>7. ASSUME NEW k \in Keys
      PROVE  \/ UsesTo(s, e, k) = {} /\ Finds(o, k) = {}
             \/ \E p : LastOf(p, UsesTo(s, e, k)) /\ Finds(o, k) = {Leaf(k, s[2 * p])}
  <2>1. CASE k = c
    <3>1. LastOf(e, UsesTo(s, e, k))
      <4>1. e \in UsesTo(s, e, k)
        BY <1>4, <1>6, <2>1 DEF UsesTo
      <4>2. \A y \in UsesTo(s, e, k) : y <= e
        BY <1>3, <1>4, <1>5 DEF UsesTo
      <4> QED BY <4>1, <4>2 DEF LastOf
    <3>2. Finds(o, k) = {Leaf(k, s[2 * e])}
      BY <1>1, <1>6, <2>1 DEF Becomes
    <3> QED BY <3>1, <3>2
  <2>2. CASE k # c
    <3>1. UsesTo(s, e, k) = UsesTo(s, j, k)
      BY <1>3, <1>6, <2>2 DEF UsesTo
    <3>2. Finds(o, k) = Finds(m, k)
      BY <1>1, <2>2 DEF Becomes
    <3> QED BY <3>1, <3>2 DEF HasLast
  <2> QED BY <2>1, <2>2
<1>8. HasLast(o, s, e)
  BY <1>1, <1>7 DEF HasLast, Becomes
<1> QED BY <1>8 DEF o, c, v, e

LEMMA CreatedIs ==
  ASSUME MapConstants, NEW s \in Literals
  PROVE  HasLast(Created(s), s, Len(s) \div 2)
<1> DEFINE n == Len(s) \div 2
<1>1. s \in Seq(Range(s)) /\ \A i \in 1 .. n : s[2 * i - 1] \in Keys /\ s[2 * i] # Absent
  BY DEF MapConstants
<1>2. n \in Nat
  <2>1. Len(s) \in Nat
    BY <1>1
  <2> QED BY <2>1
<1> DEFINE c == CHOOSE m : Making(m, s, n)
<1>3. Created(s) = c[n]
  BY Zenon DEF Created, Making
<1> HIDE DEF n
<1>4. Making(c, s, n)
  <2>1. \E m : Making(m, s, n)
    BY <1>2, Makings
  <2> QED BY <2>1, Zenon
<1> HIDE DEF c
<1> DEFINE S == {i \in Nat : i <= n => HasLast(c[i], s, i)}
<1>5. 0 \in S
  <2>1. 0 \in 0 .. n
    BY <1>2
  <2>2. c[0] = EmptyMap
    BY <1>4, <2>1 DEF Making
  <2>3. \A k \in Keys : UsesTo(s, 0, k) = {}
    BY DEF UsesTo
  <2>4. HasLast(c[0], s, 0)
    BY <2>2, <2>3, EmptyIs DEF HasLast
  <2> QED BY <2>4
<1>6. ASSUME NEW i \in Nat, i \in S PROVE i + 1 \in S
  <2> SUFFICES ASSUME i + 1 <= n PROVE HasLast(c[i + 1], s, i + 1)
    OBVIOUS
  <2> DEFINE e == i + 1
  <2>1. e \in 0 .. n /\ e # 0 /\ e - 1 = i /\ i <= n /\ e \in 1 .. n
    BY <1>2
  <2>2. HasLast(c[i], s, i)
    BY <1>6, <2>1
  <2> HIDE DEF e
  <2>3. c[e] = Inserted(c[i], s[2 * e - 1], s[2 * e])
    BY <1>4, <2>1 DEF Making
  <2>4. s[2 * e - 1] \in Keys /\ s[2 * e] # Absent
    BY <1>1, <2>1
  <2>5. HasLast(Inserted(c[i], s[2 * e - 1], s[2 * e]), s, e)
    BY <2>2, <2>4, HasNext DEF e
  <2> QED BY <2>3, <2>5 DEF e
<1>7. n \in S
  <2> HIDE DEF S
  <2> QED BY <1>2, <1>5, <1>6, Induction
<1>8. HasLast(c[n], s, n)
  BY <1>2, <1>7
<1> QED BY <1>3, <1>8 DEF n

-----------------------------------------------------------------------------
(* The layers of a tree *)

\* f is the layers as far as level m; where the nodes A lead to.
Layered(f, root, m) ==
  f = [l \in 0 .. m |->
         IF l = 0 THEN {<<root, <<>>>>}
         ELSE UNION {{<<ChildAt(x[1], d), Append(x[2], d)>> : d \in Bits(x[1])} : x \in f[l - 1]}]
Under(A) == UNION {{<<ChildAt(x[1], d), Append(x[2], d)>> : d \in Bits(x[1])} : x \in A}

LEMMA Layerings ==
  ASSUME NEW root, NEW j \in Nat
  PROVE  \E f : Layered(f, root, j)
<1> DEFINE top == {<<root, <<>>>>}
           Is(f, n) == f = [l \in 0 .. n |-> IF l = 0 THEN top ELSE Under(f[l - 1])]
           S == {n \in Nat : \E f : Is(f, n)}
<1> HIDE DEF top
<1>1. 0 \in S
  <2> DEFINE g == [l \in 0 .. 0 |-> top]
  <2>1. \A l \in 0 .. 0 : l = 0
    OBVIOUS
  <2>2. Is(g, 0)
    BY <2>1
  <2> HIDE DEF g, Is
  <2> QED BY <2>2
<1>2. ASSUME NEW n \in Nat, n \in S PROVE n + 1 \in S
  <2>1. PICK f : Is(f, n)
    BY <1>2
  <2> DEFINE e == n + 1
             g == [l \in 0 .. e |-> IF l = e THEN Under(f[n]) ELSE f[l]]
  <2>2. ASSUME NEW l \in 0 .. e PROVE g[l] = IF l = 0 THEN top ELSE Under(g[l - 1])
    <3>1. CASE l = e
      <4>1. l - 1 = n /\ l - 1 \in 0 .. e /\ l - 1 # e /\ l # 0
        BY <3>1
      <4>2. g[l] = Under(f[n]) /\ g[l - 1] = f[n]
        BY <3>1, <4>1
      <4> HIDE DEF g
      <4> QED BY <3>1, <4>1, <4>2
    <3>2. CASE l # e
      <4>1. l \in 0 .. n /\ (l # 0 => l - 1 \in 0 .. e /\ l - 1 # e)
        BY <3>2
      <4>2. g[l] = f[l] /\ (l # 0 => g[l - 1] = f[l - 1])
        BY <3>2, <4>1
      <4>3. f[l] = IF l = 0 THEN top ELSE Under(f[l - 1])
        BY <2>1, <4>1
      <4> HIDE DEF g
      <4> QED BY <4>2, <4>3
    <3> QED BY <3>1, <3>2
  <2>3. g = [l \in 0 .. e |-> g[l]]
    OBVIOUS
  <2> HIDE DEF g
  <2>4. Is(g, n + 1)
    BY <2>2, <2>3
  <2> QED BY <2>4
<1>3. j \in S
  <2> HIDE DEF S
  <2> QED BY <1>1, <1>2, Induction
<1>4. PICK f : Is(f, j)
  BY <1>3
<1>5. Layered(f, root, j)
  BY <1>4, Zenon DEF Layered, Under, top
<1> QED BY <1>5

LEMMA LayersAre ==
  ASSUME MapConstants, NEW root
  PROVE  /\ Layers(root)[0] = {<<root, <<>>>>}
         /\ \A l \in 0 .. MapHeight - 1 : Layers(root)[l + 1] = Under(Layers(root)[l])
<1> DEFINE c == Layers(root)
<1>1. MapHeight \in Nat
  BY Sizes
<1>2. \E f : Layered(f, root, MapHeight)
  BY <1>1, Layerings
<1>3. Layered(c, root, MapHeight)
  BY <1>2, Zenon DEF Layers, Layered
<1> HIDE DEF c
<1>4. \A l \in 0 .. MapHeight : c[l] = IF l = 0 THEN {<<root, <<>>>>} ELSE Under(c[l - 1])
  BY <1>3, Zenon DEF Layered, Under
<1>5. c[0] = {<<root, <<>>>>}
  BY <1>1, <1>4
<1>6. ASSUME NEW l \in 0 .. MapHeight - 1 PROVE c[l + 1] = Under(c[l])
  <2>1. l + 1 \in 0 .. MapHeight /\ l + 1 # 0 /\ (l + 1) - 1 = l
    BY <1>1
  <2> QED BY <1>4, <2>1
<1> QED BY <1>5, <1>6 DEF c

\* A node of a tree with the digits that lead to it, from which keys are found that begin
\* with them.
Leading(x, l, root) ==
  /\ Good(x[1], l, x[2])
  /\ \A k \in Keys : Prefix(Hash[k], l) = x[2] => Find(root, 0, k) = Find(x[1], l, k)

LEMMA LayersGood ==
  ASSUME MapConstants, NEW root, Good(root, 0, <<>>)
  PROVE  \A l \in 0 .. MapHeight : \A x \in Layers(root)[l] : Leading(x, l, root)
<1> DEFINE L == Layers(root)
           S == {l \in Nat : l <= MapHeight => \A x \in L[l] : Leading(x, l, root)}
<1>1. L[0] = {<<root, <<>>>>} /\ \A l \in 0 .. MapHeight - 1 : L[l + 1] = Under(L[l])
  BY LayersAre
<1> HIDE DEF L
<1>2. MapHeight \in Nat
  BY Sizes
<1>3. 0 \in S
  <2> DEFINE x == <<root, <<>>>>
  <2>1. x[1] = root /\ x[2] = <<>>
    OBVIOUS
  <2> HIDE DEF x
  <2>2. Leading(x, 0, root)
    BY <2>1 DEF Leading
  <2> QED BY <1>1, <2>2 DEF x
<1>4. ASSUME NEW l \in Nat, l \in S PROVE l + 1 \in S
  <2> SUFFICES ASSUME l + 1 <= MapHeight, NEW x \in L[l + 1] PROVE Leading(x, l + 1, root)
    OBVIOUS
  <2>1. l \in 0 .. MapHeight - 1 /\ l <= MapHeight
    BY <1>2
  <2>2. x \in Under(L[l])
    BY <1>1, <2>1
  <2>3. PICK y \in L[l] : \E d \in Bits(y[1]) : x = <<ChildAt(y[1], d), Append(y[2], d)>>
    BY <2>2 DEF Under
  <2>4. PICK d \in Bits(y[1]) : x = <<ChildAt(y[1], d), Append(y[2], d)>>
    BY <2>3
  <2>5. x[1] = ChildAt(y[1], d) /\ x[2] = Append(y[2], d)
    BY <2>4
  <2>6. Leading(y, l, root)
    BY <1>4, <2>1
  <2> DEFINE n == y[1]  r == y[2]
  <2> HIDE DEF n, r
  <2>7. Good(n, l, r) /\ d \in Bits(n) /\ x[1] = ChildAt(n, d) /\ x[2] = Append(r, d)
    BY <2>4, <2>5, <2>6 DEF Leading, n, r
  <2>8. Good(x[1], l + 1, x[2])
    BY <2>7, GoodDown
  <2>9. Inner(n, l) /\ r \in Seq(Digits) /\ Len(r) = l
    BY <2>7, GoodKind
  <2>10. d \in Digits
    BY <2>7, <2>9, InnerBits
  <2>11. ASSUME NEW k \in Keys, Prefix(Hash[k], l + 1) = x[2]
         PROVE  Find(root, 0, k) = Find(x[1], l + 1, k)
    <3>1. Hash[k] \in Nat /\ Prefix(Hash[k], l + 1) = Append(r, d)
      BY <2>7, <2>11, Sizes
    <3>2. Prefix(Hash[k], l) = r /\ Mask(Hash[k], l) = d
      BY <2>9, <2>10, <3>1, PrefixNext
    <3>3. Find(root, 0, k) = Find(n, l, k)
      BY <2>6, <3>2 DEF Leading, n, r
    <3>4. Find(n, l, k) = IF d \in Bits(n) THEN Find(ChildAt(n, d), l + 1, k) ELSE {}
      BY <2>1, <2>9, <3>2, InnerFind
    <3> QED BY <2>7, <3>3, <3>4
  <2> QED BY <2>8, <2>11 DEF Leading
<1>5. Nat \subseteq S
  <2> HIDE DEF S
  <2> QED BY <1>3, <1>4, Induction
<1>6. ASSUME NEW l \in 0 .. MapHeight PROVE \A x \in L[l] : Leading(x, l, root)
  <2>1. l \in Nat /\ l <= MapHeight
    BY <1>2
  <2> QED BY <1>5, <2>1
<1> QED BY <1>6 DEF L

\* What is found is among the leaves.
LEMMA LeavesFound ==
  ASSUME MapConstants, NEW root, Good(root, 0, <<>>), NEW k \in Keys, NEW leaf, Find(root, 0, k) = {leaf}
  PROVE  leaf \in Leaves(root)
<1> DEFINE L == Layers(root)
           S == {j \in Nat : \A l, x : /\ l \in 0 .. MapHeight /\ MapHeight - l = j /\ x \in L[l]
                                       /\ Find(x[1], l, k) = {leaf}
                                       => leaf \in Leaves(root)}
<1>1. L[0] = {<<root, <<>>>>} /\ \A l \in 0 .. MapHeight - 1 : L[l + 1] = Under(L[l])
  BY LayersAre
<1>2. \A l \in 0 .. MapHeight : \A x \in L[l] : Good(x[1], l, x[2])
  BY LayersGood DEF Leading
<1>3. \A l \in 0 .. MapHeight : \A x \in L[l] : LeavesOf(x[1]) \subseteq Leaves(root)
  BY DEF Leaves
<1> HIDE DEF L
<1>4. MapHeight \in Nat
  BY Sizes
<1>5. ASSUME NEW l \in 0 .. MapHeight, NEW x \in L[l], Find(x[1], l, k) = {leaf}, ~Inner(x[1], l)
      PROVE  leaf \in Leaves(root)
  <2> DEFINE n == x[1]
  <2>1. Leafy(n) \/ Shared(n)
    <3>1. Good(x[1], l, x[2])
      BY <1>2
    <3> QED BY <1>5, <3>1, GoodKind
  <2>2. LeavesOf(n) \subseteq Leaves(root)
    BY <1>3
  <2>3. Find(n, l, k) = {leaf}
    BY <1>5
  <2> HIDE DEF n
  <2>4. CASE Leafy(n)
    <3>1. Find(n, l, k) = IF n.key = k THEN {n} ELSE {}
      BY <2>4, FindLeaf
    <3>2. leaf = n
      BY <2>3, <3>1
    <3>3. n.kind = "leaf"
      BY <2>4, LeafyFacts
    <3> QED BY <2>2, <3>2, <3>3 DEF LeavesOf
  <2>5. CASE Shared(n)
    <3> DEFINE i == IndexOf(n, k)
    <3>1. Find(n, l, k) = IF i = 0 THEN {} ELSE {n.leaves[i]}
      BY <2>5, FindShared
    <3>2. i = 0 \/ i \in 1 .. Len(n.leaves)
      BY <2>5, IndexFacts
    <3> HIDE DEF i
    <3>3. leaf = n.leaves[i] /\ i \in 1 .. Len(n.leaves)
      BY <2>3, <3>1, <3>2
    <3>4. n.kind = "collision" /\ n.leaves \in Seq(Range(n.leaves))
      BY <2>5, SharedFacts
    <3>5. leaf \in Range(n.leaves)
      BY <3>3, <3>4, OwnRange
    <3> QED BY <2>2, <3>4, <3>5 DEF LeavesOf
  <2> QED BY <2>1, <2>4, <2>5
<1>6. 0 \in S
  <2> SUFFICES ASSUME NEW l \in 0 .. MapHeight, NEW x \in L[l], MapHeight - l = 0, Find(x[1], l, k) = {leaf}
               PROVE  leaf \in Leaves(root)
    OBVIOUS
  <2>1. ~Inner(x[1], l)
    <3>1. Good(x[1], l, x[2]) /\ ~(l \in 0 .. MapHeight - 1)
      BY <1>2, <1>4
    <3>2. Inner(x[1], l) => x[1].kind \in {"idx", "full"}
      BY InnerBits
    <3>3. Leafy(x[1]) \/ Shared(x[1])
      BY <3>1, GoodKind
    <3> QED BY <3>2, <3>3, LeafyFacts, SharedFacts
  <2> QED BY <1>5, <2>1
<1>7. ASSUME NEW j \in Nat, j \in S PROVE j + 1 \in S
  <2> SUFFICES ASSUME NEW l \in 0 .. MapHeight, NEW x \in L[l], MapHeight - l = j + 1, Find(x[1], l, k) = {leaf}
               PROVE  leaf \in Leaves(root)
    OBVIOUS
  <2>1. CASE ~Inner(x[1], l)
    BY <1>5, <2>1
  <2>2. CASE Inner(x[1], l)
    <3> DEFINE d == Mask(Hash[k], l)  y == <<ChildAt(x[1], d), Append(x[2], d)>>
    <3>1. l \in 0 .. MapHeight - 1 /\ l + 1 \in 0 .. MapHeight /\ MapHeight - (l + 1) = j
      BY <1>4
    <3>2. Find(x[1], l, k) = IF d \in Bits(x[1]) THEN Find(ChildAt(x[1], d), l + 1, k) ELSE {}
      BY <2>2, <3>1, InnerFind
    <3>3. d \in Bits(x[1]) /\ Find(ChildAt(x[1], d), l + 1, k) = {leaf}
      BY <3>2
    <3>4. y \in L[l + 1]
      <4>1. y \in Under(L[l])
        BY <3>3 DEF Under
      <4> HIDE DEF y
      <4> QED BY <1>1, <3>1, <4>1
    <3>5. y[1] = ChildAt(x[1], d)
      OBVIOUS
    <3> HIDE DEF y, d
    <3>6. Find(y[1], l + 1, k) = {leaf}
      BY <3>3, <3>5
    <3> QED BY <1>7, <3>1, <3>4, <3>6
  <2> QED BY <2>1, <2>2
<1>8. MapHeight \in S
  <2> HIDE DEF S
  <2> QED BY <1>4, <1>6, <1>7, Induction
<1> DEFINE x == <<root, <<>>>>
<1>9. x[1] = root /\ x \in L[0] /\ 0 \in 0 .. MapHeight /\ MapHeight - 0 = MapHeight
  BY <1>1, <1>4
<1> HIDE DEF x
<1>10. Find(x[1], 0, k) = {leaf}
  BY <1>9
<1> QED BY <1>8, <1>9, <1>10

\* A leaf is what is found for its key.
LEMMA LeavesAre ==
  ASSUME MapConstants, NEW root, Good(root, 0, <<>>), NEW leaf \in Leaves(root)
  PROVE  Leafy(leaf) /\ leaf.key \in Keys /\ Find(root, 0, leaf.key) = {leaf}
<1>1. PICK l \in 0 .. MapHeight : \E x \in Layers(root)[l] : leaf \in LeavesOf(x[1])
  BY DEF Leaves
<1>2. PICK x \in Layers(root)[l] : leaf \in LeavesOf(x[1])
  BY <1>1
<1> DEFINE n == x[1]  r == x[2]
<1>3. Good(n, l, r) /\ \A k \in Keys : Prefix(Hash[k], l) = r => Find(root, 0, k) = Find(n, l, k)
  BY <1>2, LayersGood DEF Leading
<1>4. leaf \in LeavesOf(n)
  BY <1>2
<1> HIDE DEF n, r
<1>5. CASE Leafy(n) /\ Prefix(n.hash, l) = r
  <2>1. n.kind = "leaf" /\ n.key \in Keys /\ n.hash = Hash[n.key]
    BY <1>5, LeafyFacts
  <2>2. leaf = n
    BY <1>4, <2>1 DEF LeavesOf
  <2>3. Find(n, l, n.key) = {n}
    BY <1>5, <2>1, FindLeaf
  <2> QED BY <1>3, <1>5, <2>1, <2>2, <2>3
<1>6. CASE Shared(n) /\ Prefix(n.hash, l) = r
  <2>1. n.kind = "collision" /\ n.leaves \in Seq(Range(n.leaves))
    BY <1>6, SharedFacts
  <2>2. leaf \in Range(n.leaves)
    BY <1>4, <2>1 DEF LeavesOf
  <2>3. PICK i \in 1 .. Len(n.leaves) : leaf = n.leaves[i]
    BY <2>1, <2>2 DEF Range
  <2>4. Leafy(leaf) /\ leaf.key \in Keys /\ n.hash = Hash[leaf.key]
    BY <1>6, <2>3, SharedFacts
  <2>5. Find(n, l, leaf.key) = {leaf}
    BY <1>6, <2>3, <2>4, FindShared
  <2> QED BY <1>3, <1>6, <2>4, <2>5
<1>7. CASE Inner(n, l)
  <2>1. n.kind \in {"idx", "full"}
    BY <1>7, InnerBits
  <2>2. LeavesOf(n) = {}
    BY <2>1 DEF LeavesOf
  <2> QED BY <1>4, <2>2
<1> QED BY <1>3, <1>5, <1>6, <1>7, GoodKind

\* A map without nodes has no leaves.
LEMMA NoLeaves ==
  ASSUME MapConstants
  PROVE  Leaves(EmptyNode) = {}
<1> DEFINE L == Layers(EmptyNode)
           S == {l \in Nat : l <= MapHeight => \A x \in L[l] : x[1] = EmptyNode}
<1>1. L[0] = {<<EmptyNode, <<>>>>} /\ \A l \in 0 .. MapHeight - 1 : L[l + 1] = Under(L[l])
  BY LayersAre
<1> HIDE DEF L
<1>2. MapHeight \in Nat /\ Bits(EmptyNode) = {} /\ LeavesOf(EmptyNode) = {}
  <2>1. Bits(EmptyNode) = {}
    BY TipBits
  <2>2. EmptyNode.kind = "empty"
    BY DEF EmptyNode
  <2> QED BY <2>1, <2>2, Sizes DEF LeavesOf
<1>3. 0 \in S
  BY <1>1
<1>4. ASSUME NEW l \in Nat, l \in S PROVE l + 1 \in S
  <2> SUFFICES ASSUME l + 1 <= MapHeight, NEW x \in L[l + 1] PROVE x[1] = EmptyNode
    OBVIOUS
  <2>1. l \in 0 .. MapHeight - 1 /\ l <= MapHeight
    BY <1>2
  <2>2. x \in Under(L[l])
    BY <1>1, <2>1
  <2>3. PICK y \in L[l] : \E d \in Bits(y[1]) : x = <<ChildAt(y[1], d), Append(y[2], d)>>
    BY <2>2 DEF Under
  <2>4. y[1] = EmptyNode
    BY <1>4, <2>1
  <2> QED BY <1>2, <2>3, <2>4
<1>5. Nat \subseteq S
  <2> HIDE DEF S
  <2> QED BY <1>3, <1>4, Induction
<1>6. ASSUME NEW l \in 0 .. MapHeight, NEW x \in L[l] PROVE LeavesOf(x[1]) = {}
  <2>1. l \in Nat /\ l <= MapHeight
    BY <1>2
  <2>2. x[1] = EmptyNode
    BY <1>5, <2>1
  <2> QED BY <1>2, <2>2
<1> QED BY <1>6 DEF Leaves, L

\* There are as many leaves as keys that are found.
LEMMA LeavesCount ==
  ASSUME MapConstants, NEW m, Sound(m)
  PROVE  m.cnt = Cardinality(Leaves(m.root))
<1> DEFINE H == HeldIn(m)  T == Leaves(m.root)
<1>1. IsFiniteSet(H) /\ m.cnt = Cardinality(H) /\ H \subseteq Keys
  BY MapHeld
<1>2. CASE m.root = EmptyNode
  BY <1>1, <1>2, MapHeld, NoLeaves, FS_EmptySet
<1>3. CASE Good(m.root, 0, <<>>)
  <2> DEFINE Of(k) == CHOOSE leaf : Find(m.root, 0, k) = {leaf}
             f == [k \in H |-> Of(k)]
  <2>1. ASSUME NEW k \in H PROVE Find(m.root, 0, k) = {Of(k)} /\ Of(k).key = k /\ Of(k) \in T
    <3>1. k \in Keys /\ Find(m.root, 0, k) # {}
      BY DEF HeldIn
    <3>2. FindsOnly(m.root, 0, <<>>, k)
      BY <1>3, <3>1, FindOnly
    <3>3. \E leaf : Find(m.root, 0, k) = {leaf}
      BY <3>1, <3>2 DEF FindsOnly
    <3>4. Find(m.root, 0, k) = {Of(k)}
      BY <3>3, Zenon
    <3> HIDE DEF Of
    <3>5. Of(k) \in T
      BY <1>3, <3>1, <3>4, LeavesFound
    <3>6. Of(k).key = k
      BY <3>1, <3>2, <3>4 DEF FindsOnly
    <3> QED BY <3>4, <3>5, <3>6
  <2>2. ASSUME NEW leaf \in T PROVE leaf.key \in H /\ Of(leaf.key) = leaf
    <3>1. leaf.key \in Keys /\ Find(m.root, 0, leaf.key) = {leaf}
      BY <1>3, LeavesAre
    <3>2. leaf.key \in H
      BY <3>1 DEF HeldIn
    <3> HIDE DEF Of
    <3> QED BY <2>1, <3>1, <3>2
  <2> HIDE DEF H, T, Of
  <2>3. f \in [H -> T] /\ (\A a, b \in H : f[a] = f[b] => a = b) /\ \A t \in T : \E s \in H : f[s] = t
    <3>1. f \in [H -> T]
      BY <2>1
    <3>2. \A a, b \in H : f[a] = f[b] => a = b
      BY <2>1
    <3>3. \A t \in T : \E s \in H : f[s] = t
      BY <2>2
    <3> QED BY <3>1, <3>2, <3>3
  <2> HIDE DEF f
  <2>4. f \in Bijection(H, T)
    BY <2>3, Fun_IsBij
  <2>5. ExistsBijection(H, T)
    BY <2>4, Fun_ExistsBij
  <2>6. Cardinality(T) = Cardinality(H)
    BY <1>1, <2>5, FS_Bijection DEF H
  <2> QED BY <1>1, <2>6 DEF H, T
<1> QED BY <1>2, <1>3 DEF Sound

LEMMA FineIs ==
  ASSUME MapConstants, NEW n, NEW l, NEW r, Good(n, l, r)
  PROVE  WellFormed(n, l, r)
<1>1. CASE Leafy(n) /\ Prefix(n.hash, l) = r
  <2>1. n.kind = "leaf" /\ n.key \in Keys /\ n.hash = Hash[n.key]
    BY <1>1, LeafyFacts
  <2> QED BY <1>1, <2>1 DEF WellFormed, IsLeaf
<1>2. CASE Shared(n) /\ Prefix(n.hash, l) = r
  <2>1. n.kind = "collision" /\ n.leaves \in Seq(Range(n.leaves)) /\ Len(n.leaves) >= 2
    BY <1>2, SharedFacts
  <2>2. \A leaf \in Range(n.leaves) : IsLeaf(leaf) /\ leaf.hash = n.hash
    <3> TAKE leaf \in Range(n.leaves)
    <3>1. PICK i \in 1 .. Len(n.leaves) : leaf = n.leaves[i]
      BY <2>1 DEF Range
    <3>2. Leafy(leaf) /\ leaf.hash = n.hash
      BY <1>2, <3>1, SharedFacts
    <3> QED BY <3>2, LeafyFacts DEF IsLeaf
  <2> QED BY <1>2, <2>1, <2>2 DEF WellFormed
<1>3. CASE Inner(n, l) /\ l < MapHeight
  <2>1. CASE /\ n = Idx(n.bitmap, n.nodes, l) /\ n.bitmap \in SUBSET Digits /\ n.bitmap # {}
             /\ n.bitmap # Digits /\ Len(n.nodes) = Cardinality(n.bitmap)
    <3>1. n.kind = "idx" /\ n.level = l
      BY <2>1 DEF Idx
    <3> QED BY <1>3, <2>1, <3>1 DEF WellFormed
  <2>2. CASE n = FullNode(n.nodes, l) /\ Len(n.nodes) = MapWidth
    <3>1. n.kind = "full" /\ n.level = l
      BY <2>2 DEF FullNode
    <3> QED BY <1>3, <2>2, <3>1 DEF WellFormed
  <2> QED BY <1>3, <2>1, <2>2 DEF Inner
<1> QED BY <1>1, <1>2, <1>3, GoodKind

-----------------------------------------------------------------------------
(* The theorems *)

\* The map is a tree that find, set and without keep to, with as many keys as it says.
MapSound == Sound(map)

LEMMA SoundShape ==
  ASSUME MapConstants, MapSound
  PROVE  MapShape
<1>1. Sound(map)
  BY DEF MapSound
<1>2. map.cnt \in Nat /\ (map.cnt = 0 <=> map.root = EmptyNode)
  BY <1>1, MapHeld
<1>3. map.cnt = Cardinality(Leaves(map.root))
  BY <1>1, LeavesCount
<1>4. CASE map.root = EmptyNode
  <2>1. Leaves(map.root) = {} /\ map.cnt = 0
    BY <1>2, <1>4, NoLeaves
  <2> QED BY <1>2, <1>3, <1>4, <2>1 DEF MapShape
<1>5. CASE Good(map.root, 0, <<>>)
  <2>1. \A l \in 0 .. MapHeight : \A x \in Layers(map.root)[l] : WellFormed(x[1], l, x[2])
    <3> TAKE l \in 0 .. MapHeight
    <3> TAKE x \in Layers(map.root)[l]
    <3>1. Good(x[1], l, x[2])
      BY <1>5, LayersGood DEF Leading
    <3> QED BY <3>1, FineIs
  <2>2. \A l, m \in Leaves(map.root) : l.key = m.key => l = m
    <3> TAKE l, m \in Leaves(map.root)
    <3>1. Find(map.root, 0, l.key) = {l} /\ Find(map.root, 0, m.key) = {m}
      BY <1>5, LeavesAre
    <3> QED BY <3>1
  <2> QED BY <1>2, <1>3, <2>1, <2>2 DEF MapShape
<1> QED BY <1>1, <1>4, <1>5 DEF Sound

\* The contents of a map.
Contents(m) == [k \in Keys |-> Get(m, k)]

LEMMA HeldIs ==
  ASSUME MapConstants, NEW m, Sound(m)
  PROVE  HeldIn(m) = {k \in Keys : Contents(m)[k] # Absent}
<1>1. \A k \in Keys : (k \in HeldIn(m)) = (Get(m, k) # Absent)
  BY MapHeld
<1>2. HeldIn(m) \subseteq Keys
  BY DEF HeldIn
<1> QED BY <1>1, <1>2 DEF Contents

LEMMA ContentsBecome ==
  ASSUME MapConstants, NEW m, Sound(m), NEW o, NEW k \in Keys, NEW F, Becomes(o, m, k, F),
         NEW v, \/ F = {} /\ v = Absent
                \/ F = {Leaf(k, v)}
  PROVE  /\ Contents(o) = [Contents(m) EXCEPT ![k] = v] /\ Contents(o)[k] = v
         /\ o.cnt = Cardinality(HeldIn(o))
         /\ HeldIn(o) = IF F = {} THEN HeldIn(m) \ {k} ELSE HeldIn(m) \union {k}
<1>1. Sound(o) /\ \A j \in Keys : Finds(o, j) = IF j = k THEN F ELSE Finds(m, j)
  BY DEF Becomes
<1>2. ASSUME NEW j \in Keys, j # k PROVE Get(o, j) = Get(m, j)
  <2>1. Find(o.root, 0, j) = Find(m.root, 0, j)
    BY <1>1, <1>2 DEF Finds
  <2> QED BY <2>1 DEF Get
<1>3. Get(o, k) = v
  <2>1. \/ Finds(o, k) = {} /\ Get(o, k) = Absent
        \/ \E leaf : Finds(o, k) = {leaf} /\ Get(o, k) = leaf.val
    BY <1>1, MapFinds
  <2>2. Leaf(k, v).val = v
    BY DEF Leaf
  <2>3. Finds(o, k) = F
    BY <1>1
  <2> QED BY <2>1, <2>2, <2>3
<1>4. Contents(o) = [Contents(m) EXCEPT ![k] = v] /\ Contents(o)[k] = v
  BY <1>2, <1>3 DEF Contents
<1>5. HeldIn(o) = IF F = {} THEN HeldIn(m) \ {k} ELSE HeldIn(m) \union {k}
  BY <1>1 DEF HeldIn, Finds
<1>6. o.cnt = Cardinality(HeldIn(o))
  BY <1>1 DEF Sound
<1> QED BY <1>4, <1>5, <1>6

LEMMA MapStart ==
  ASSUME MapConstants, MapInit
  PROVE  MapSound /\ Map!Init
<1>1. map = EmptyMap /\ mapOutcome = "made"
  BY DEF MapInit
<1>2. Sound(map) /\ \A k \in Keys : Finds(map, k) = {}
  BY <1>1, EmptyIs
<1>3. \A k \in Keys : Get(map, k) = Absent
  BY <1>2, MapFinds
<1>4. map.cnt = 0
  BY <1>1 DEF EmptyMap
<1> QED BY <1>1, <1>2, <1>3, <1>4 DEF MapSound, Map!Init

\* The contract counts with the same operator.
LEMMA SameCardinality ==
  ASSUME NEW S
  PROVE  Map!Cardinality(S) = Cardinality(S)
  BY Zenon DEF Cardinality, Map!Cardinality

LEMMA MapStep ==
  ASSUME MapConstants, MapSound, [MapNext]_mapVars
  PROVE  MapSound' /\ [Map!Next]_(Map!vars)
<1> DEFINE c == Contents(map)
<1>1. Sound(map)
  BY DEF MapSound
<1>2. Map!Held = HeldIn(map)
  BY <1>1, HeldIs DEF Map!Held, Contents
<1>3. Absent \notin Values
  BY DEF MapConstants
<1>4. ASSUME NEW k \in Keys, NEW v \in Values, GivesMap(Inserted(map, k, v))
      PROVE  MapSound' /\ Map!Put(k, v)
  <2> DEFINE o == Inserted(map, k, v)
  <2>1. map' = o /\ mapOutcome' = "made"
    BY <1>4 DEF GivesMap
  <2>2. v # Absent
    BY <1>3
  <2>3. Becomes(o, map, k, {Leaf(k, v)})
    BY <1>1, <2>2, InsertedIs
  <2> HIDE DEF o
  <2>4. /\ Contents(o) = [c EXCEPT ![k] = v] /\ Contents(o)[k] = v
        /\ o.cnt = Cardinality(HeldIn(o)) /\ HeldIn(o) = HeldIn(map) \union {k}
    <3> DEFINE F == {Leaf(k, v)}
    <3>1. Becomes(o, map, k, F) /\ F = {Leaf(k, v)} /\ F # {}
      BY <2>3
    <3> HIDE DEF F
    <3> QED BY <1>1, <3>1, ContentsBecome
  <2>5. MapSound'
    BY <2>1, <2>3 DEF MapSound, Becomes
  <2>6. Map!Put(k, v)
    <3>1. map'.cnt = Map!Cardinality(Map!Held \union {k})
      BY <1>2, <2>1, <2>4, SameCardinality
    <3>2. Contents(map') = [Contents(map) EXCEPT ![k] = v] /\ Contents(map')[k] = v
      BY <2>1, <2>4
    <3> QED BY <2>1, <3>1, <3>2 DEF Map!Put, Contents
  <2> QED BY <2>5, <2>6
<1>5. ASSUME NEW k \in Keys, RemoveKey(k)
      PROVE  MapSound' /\ Map!Remove(k)
  <2> DEFINE o == Removed(map, k)
  <2>1. map' = o /\ mapOutcome' = "made"
    BY <1>5 DEF RemoveKey, GivesMap
  <2>2. Becomes(o, map, k, {})
    BY <1>1, RemovedIs
  <2> HIDE DEF o
  <2>3. /\ Contents(o) = [c EXCEPT ![k] = Absent] /\ Contents(o)[k] = Absent
        /\ o.cnt = Cardinality(HeldIn(o)) /\ HeldIn(o) = HeldIn(map) \ {k}
    <3> DEFINE F == {}
    <3>1. Becomes(o, map, k, F) /\ F = {}
      BY <2>2
    <3> HIDE DEF F
    <3> QED BY <1>1, <3>1, ContentsBecome
  <2>4. MapSound'
    BY <2>1, <2>2 DEF MapSound, Becomes
  <2>5. Map!Remove(k)
    <3>1. map'.cnt = Map!Cardinality(Map!Held \ {k})
      BY <1>2, <2>1, <2>3, SameCardinality
    <3>2. Contents(map') = [Contents(map) EXCEPT ![k] = Absent] /\ Contents(map')[k] = Absent
      BY <2>1, <2>3
    <3> QED BY <2>1, <3>1, <3>2 DEF Map!Remove, Contents
  <2> QED BY <2>4, <2>5
<1>6. ASSUME NEW s \in Literals, CreateMap(s)
      PROVE  MapSound' /\ Map!Create(s)
  <2>1. CASE Len(s) % 2 = 0
    <3> DEFINE o == Created(s)  n == Len(s) \div 2
    <3>1. map' = o /\ mapOutcome' = "made"
      BY <1>6, <2>1 DEF CreateMap, GivesMap
    <3>2. HasLast(o, s, n)
      BY CreatedIs
    <3>3. \A k \in Keys : Map!Uses(s, k) = UsesTo(s, n, k)
      BY DEF Map!Uses, UsesTo
    <3> HIDE DEF o, n
    <3>4. Sound(o)
      BY <3>2 DEF HasLast
    <3>5. n \in Nat
      <4>1. Len(s) \in Nat
        BY DEF MapConstants
      <4> QED BY <4>1 DEF n
    <3>6. ASSUME NEW k \in Keys
          PROVE  /\ Get(o, k) = IF Map!Uses(s, k) = {} THEN Absent ELSE s[2 * Map!Latest(s, k)]
                 /\ k \in HeldIn(o) <=> Map!Uses(s, k) # {}
      <4> DEFINE U == Map!Uses(s, k)
      <4>1. \/ U = {} /\ Finds(o, k) = {}
            \/ \E p : LastOf(p, U) /\ Finds(o, k) = {Leaf(k, s[2 * p])}
        BY <3>2, <3>3 DEF HasLast
      <4>2. U \subseteq Nat
        BY <3>3, <3>5 DEF UsesTo
      <4>3. Map!Latest(s, k) = CHOOSE i \in U : \A j \in U : j <= i
        BY DEF Map!Latest
      <4> HIDE DEF U
      <4>4. \/ Finds(o, k) = {} /\ Get(o, k) = Absent
            \/ \E leaf : Finds(o, k) = {leaf} /\ Get(o, k) = leaf.val
        BY <3>4, MapFinds
      <4>5. k \in HeldIn(o) <=> Finds(o, k) # {}
        BY DEF HeldIn, Finds
      <4>6. CASE U = {} /\ Finds(o, k) = {}
        BY <4>4, <4>5, <4>6 DEF U
      <4>7. CASE \E p : LastOf(p, U) /\ Finds(o, k) = {Leaf(k, s[2 * p])}
        <5>1. PICK p : LastOf(p, U) /\ Finds(o, k) = {Leaf(k, s[2 * p])}
          BY <4>7
        <5>2. p \in U /\ \A y \in U : y <= p
          BY <5>1 DEF LastOf
        <5>3. Map!Latest(s, k) = p
          <6> DEFINE x == CHOOSE i \in U : \A j \in U : j <= i
          <6>1. x \in U /\ \A j \in U : j <= x
            BY <5>2
          <6> HIDE DEF x
          <6>2. x <= p /\ p <= x /\ x \in Nat /\ p \in Nat
            BY <4>2, <5>2, <6>1
          <6>3. x = p
            BY <6>2
          <6> QED BY <4>3, <6>3 DEF x
        <5>4. Leaf(k, s[2 * p]).val = s[2 * p]
          BY DEF Leaf
        <5>5. Get(o, k) = s[2 * p]
          BY <4>4, <5>1, <5>4
        <5> QED BY <4>5, <5>1, <5>2, <5>3, <5>5 DEF U
      <4> QED BY <4>1, <4>6, <4>7
    <3>7. HeldIn(o) = {k \in Keys : Map!Uses(s, k) # {}}
      <4>1. HeldIn(o) \subseteq Keys
        BY DEF HeldIn
      <4> QED BY <3>6, <4>1
    <3>8. o.cnt = Map!Cardinality({k \in Keys : Map!Uses(s, k) # {}})
      BY <3>4, <3>7, SameCardinality DEF Sound
    <3>9. [k \in Keys |-> Get(o, k)] = [k \in Keys |-> IF Map!Uses(s, k) = {} THEN Absent ELSE s[2 * Map!Latest(s, k)]]
      BY <3>6
    <3>10. MapSound'
      BY <3>1, <3>4 DEF MapSound
    <3>11. Map!Create(s)
      BY <2>1, <3>1, <3>8, <3>9 DEF Map!Create
    <3> QED BY <3>10, <3>11
  <2>2. CASE Len(s) % 2 # 0
    <3>1. mapOutcome' = "error" /\ map' = map
      BY <1>6, <2>2 DEF CreateMap
    <3> QED BY <1>1, <2>2, <3>1 DEF MapSound, Map!Create
  <2> QED BY <2>1, <2>2
<1>7. ASSUME NEW k \in Keys, NEW v \in Values, InsertNew(k, v)
      PROVE  MapSound' /\ (Map!Put(k, v) \/ Map!Refuse)
  <2>1. CASE v \in Keys /\ Has(map, v)
    <3>1. mapOutcome' = "refused" /\ map' = map
      BY <1>7, <2>1 DEF InsertNew
    <3> QED BY <1>1, <3>1 DEF MapSound, Map!Refuse
  <2>2. CASE ~(v \in Keys /\ Has(map, v))
    <3>1. GivesMap(Inserted(map, k, v))
      BY <1>7, <2>2 DEF InsertNew
    <3> QED BY <1>4, <3>1
  <2> QED BY <2>1, <2>2
<1>8. CASE UNCHANGED mapVars
  <2>1. map' = map /\ mapOutcome' = mapOutcome
    BY <1>8 DEF mapVars
  <2> QED BY <1>1, <2>1 DEF MapSound, Map!vars
<1>9. CASE MapNext
  <2>1. CASE \E s \in Literals : CreateMap(s)
    BY <1>6, <2>1 DEF Map!Next
  <2>2. CASE \E k \in Keys : RemoveKey(k)
    BY <1>5, <2>2 DEF Map!Next
  <2>3. CASE \E k \in Keys, v \in Values : InsertKey(k, v)
    BY <1>4, <2>3 DEF InsertKey, Map!Next
  <2>4. CASE \E k \in Keys, v \in Values : InsertNew(k, v)
    BY <1>7, <2>4 DEF Map!Next
  <2> QED BY <1>9, <2>1, <2>2, <2>3, <2>4 DEF MapNext
<1> QED BY <1>8, <1>9

\* For all hashes of all keys, any width and any number of digits, what map_insert(),
\* map_remove() and su_map() make is a tree in which the keys are where find looks.
THEOREM MapsStaySound == MapSpec => []MapSound
<1>1. MapInit => MapSound
  BY MapAssumption, MapStart
<1>2. MapSound /\ [MapNext]_mapVars => MapSound'
  BY MapAssumption, MapStep
<1> QED BY <1>1, <1>2, PTL DEF MapSpec

\* The tree of a map (seq.c:394-887) always has its shape: children and bits agree,
\* digits lead to the leaves that have them, a key is there once, and cnt counts them.
THEOREM MapShapeKept == MapSpec => []MapShape
<1>1. MapSound => MapShape
  BY MapAssumption, SoundShape
<1> QED BY <1>1, MapsStaySound, PTL

\* The maps of seq.c behave as functions from keys to values: what one operation does to
\* a key is done to no other, whatever digits or whole hashes the keys share, and
\* map_length() is the number of keys.
THEOREM ImplementsMaps == MapSpec => MapImplements
<1>1. MapInit => Map!Init
  BY MapAssumption, MapStart
<1>2. MapSound /\ [MapNext]_mapVars => [Map!Next]_(Map!vars)
  BY MapAssumption, MapStep
<1> QED BY <1>1, <1>2, MapsStaySound, PTL DEF MapSpec, MapImplements, Map!Spec

=============================================================================
