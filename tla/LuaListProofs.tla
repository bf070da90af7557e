--------------------------- MODULE LuaListProofs ---------------------------
(***************************************************************************)
(* That the library of Lua for lists implements its contract, for any      *)
(* values, orders and lengths.                                             *)
(*                                                                         *)
(* The invariant.  While sort runs, the list is a rearrangement of what it *)
(* was (Kept).  If the function is an order, then two places are in order  *)
(* unless both are in one part that is still to be sorted: the part of     *)
(* this call of auxsort or one that a caller goes on with (Sorted); and    *)
(* the scans have left behind them what is not greater, and not less, than *)
(* the pivot (Scanned), which is what stops the other scan.                *)
(***************************************************************************)
EXTENDS LuaList, FiniteSetTheorems, TLAPS

Values == Elems \union {NoValue}
Steps  == {"idle", "ends", "middle", "third", "up", "down"}
Parts1 == [1 .. 2 -> Int]

\* x may come before y.
Before(r, x, y) == <<y, x>> \notin r

InPart(w, p) == w[1] <= p /\ p <= w[2]
\* Two places are in one part that waits; a place is in one.
Together(cs, p, q) == \E c \in DOMAIN cs : InPart(cs[c], p) /\ InPart(cs[c], q)
Waits(cs, p)       == \E c \in DOMAIN cs : InPart(cs[c], p)
Disjoint(cs)       == \A c, d \in DOMAIN cs : \A p \in Int :
                         InPart(cs[c], p) /\ InPart(cs[d], p) => c = d

\* Any function.
PartOK(l, u) == 1 <= l /\ l <= Limit + 2 /\ 0 <= u /\ u <= Limit
ScanOK ==
  /\ at \in {"middle", "third"} => lower + 2 <= upper /\ lower <= up /\ up <= upper
  /\ at \in {"up", "down"} => /\ lower + 2 < upper
                              /\ lower <= down /\ down < upper
  /\ at = "up"   => lower <= up /\ up <= upper
  /\ at = "down" => lower < up /\ up <= upper + 1
SortOK ==
  /\ at \in Steps
  /\ lower \in Int /\ upper \in Int /\ PartOK(lower, upper)
  /\ up \in Int /\ down \in Int /\ pivot \in Values
  /\ calls \in Seq(Parts1) /\ \A c \in DOMAIN calls : PartOK(calls[c][1], calls[c][2])
  /\ ScanOK
TypeOK ==
  /\ table \in [Places -> Values] /\ before \in [Places -> Values]
  /\ order \in Orders \union {Unreliable}
  /\ SortOK

Occurs(t, v) == Cardinality({k \in 1 .. Limit + 1 : t[k] = v})
Kept == at # "idle" => /\ Whole(before)
                       /\ \A v \in Values : Occurs(table, v) = Occurs(before, v)

\* A function that is an order.
Apart(l, u, cs) == \A p \in Int : l <= p /\ p <= u => ~Waits(cs, p)
Sorted(r, t, n, l, u, cs) ==
  \A p, q \in 1 .. n : p < q => \/ Before(r, t[p], t[q])
                                \/ l <= p /\ q <= u
                                \/ Together(cs, p, q)
Inside1(n, l, u, cs) == /\ 1 <= l /\ u <= n
                        /\ \A c \in DOMAIN cs : 1 <= cs[c][1] /\ cs[c][2] <= n
NotGreater(r, t, from, to, x) == \A k \in Int : from <= k /\ k <= to => Before(r, t[k], x)
NotLess(r, t, from, to, x)    == \A k \in Int : from <= k /\ k <= to => Before(r, x, t[k])

Scanned ==
  /\ at \in {"middle", "third"} =>
       /\ up = (lower + upper) \div 2
       /\ Before(order, table[lower], table[upper])
  /\ at = "third" => Before(order, table[lower], table[up])
  /\ at = "up" => /\ up <= down
                  /\ up = down => lower < up /\ down + 2 <= upper
                  /\ NotGreater(order, table, lower, up, pivot)
  /\ at = "down" => /\ up < upper /\ lower < down /\ up <= down + 1
                    /\ Before(order, pivot, table[up])
                    /\ NotGreater(order, table, lower, up - 1, pivot)
  /\ at \in {"up", "down"} => /\ table[upper - 1] = pivot
                              /\ NotLess(order, table, down, upper, pivot)
Ordered(r, t, n, l, u, cs) ==
  /\ Inside1(n, l, u, cs)
  /\ Disjoint(cs) /\ Apart(l, u, cs)
  /\ Sorted(r, t, n, l, u, cs)
Ranked(n) ==
  /\ ListOf(table, n)
  /\ Ordered(order, table, n, lower, upper, calls)
  /\ Scanned
Reliable == at # "idle" /\ order # Unreliable => Ranked(aux_getn(before))

IInv == TypeOK /\ Kept /\ Reliable

-----------------------------------------------------------------------------
(* Orders, lengths, exchanges *)

LEMMA Reflexive ==
  ASSUME NEW r \in Orders, NEW x \in Elems
  PROVE  Before(r, x, x)
  BY ListAssumption DEF StrictWeakOrder, Before

LEMMA Total ==
  ASSUME NEW r \in Orders, NEW x \in Elems, NEW y \in Elems, <<x, y>> \in r
  PROVE  Before(r, x, y)
  BY ListAssumption DEF StrictWeakOrder, Before

LEMMA Transitive ==
  ASSUME NEW r \in Orders, NEW x \in Elems, NEW y \in Elems, NEW z \in Elems,
         Before(r, x, y), Before(r, y, z)
  PROVE  Before(r, x, z)
  BY ListAssumption DEF StrictWeakOrder, Before

\* A list has one length.
LEMMA OneLength ==
  ASSUME NEW t, NEW n \in 0 .. Limit, ListOf(t, n)
  PROVE  aux_getn(t) = n
<1>1. Limit \in Nat
  BY ListAssumption
<1>2. aux_getn(t) \in 0 .. Limit /\ ListOf(t, aux_getn(t))
  BY DEF aux_getn
<1> DEFINE m == aux_getn(t)
<1>3. \A k \in 1 .. n : t[k] # NoValue
  BY DEF ListOf
<1>4. \A k \in 1 .. m : t[k] # NoValue
  BY <1>2 DEF ListOf
<1>5. \A k \in Places : k \notin 1 .. n => t[k] = NoValue
  BY DEF ListOf
<1>6. \A k \in Places : k \notin 1 .. m => t[k] = NoValue
  BY <1>2 DEF ListOf
<1>7. m \in 0 .. Limit
  BY <1>2
<1> HIDE DEF m
<1>8. ~(m < n)
  <2> SUFFICES ASSUME m < n PROVE FALSE
    OBVIOUS
  <2>1. n \in Places /\ n \notin 1 .. m /\ n \in 1 .. n
    BY <1>1, <1>7 DEF Places
  <2> QED BY <2>1, <1>3, <1>6
<1>9. ~(n < m)
  <2> SUFFICES ASSUME n < m PROVE FALSE
    OBVIOUS
  <2>1. m \in Places /\ m \notin 1 .. n /\ m \in 1 .. m
    BY <1>1, <1>7 DEF Places
  <2> QED BY <2>1, <1>4, <1>5
<1>10. m = n
  BY <1>7, <1>8, <1>9
<1> QED BY <1>10 DEF m

LEMMA LengthOfWhole ==
  ASSUME NEW t, Whole(t)
  PROVE  aux_getn(t) \in 0 .. Limit /\ ListOf(t, aux_getn(t))
  BY DEF Whole, aux_getn

\* An exchange neither loses nor doubles a value.
Shuffled(t, s) == s \in [Places -> Values] /\ \A v \in Values : Occurs(s, v) = Occurs(t, v)

LEMMA Exchange ==
  ASSUME NEW t \in [Places -> Values], NEW x \in 1 .. Limit + 1, NEW y \in 1 .. Limit + 1
  PROVE  Shuffled(t, set2(t, x, y))
<1> DEFINE s == set2(t, x, y)
<1>1. Limit \in Nat /\ x \in Places /\ y \in Places
  BY ListAssumption DEF Places
<1>2. s \in [Places -> Values] /\ \A k \in Places : s[k] = IF k = y THEN t[x] ELSE IF k = x THEN t[y] ELSE t[k]
  BY <1>1 DEF set2
<1> HIDE DEF s
<1>3. ASSUME NEW v \in Values PROVE Occurs(s, v) = Occurs(t, v)
  <2> DEFINE A == {k \in 1 .. Limit + 1 : t[k] = v}
             B == {k \in 1 .. Limit + 1 : s[k] = v}
             f == [k \in A |-> IF k = x THEN y ELSE IF k = y THEN x ELSE k]
  <2>0. 1 .. Limit + 1 \subseteq Places
    BY <1>1 DEF Places
  <2>1. f \in [A -> B]
    BY <1>1, <1>2, <2>0
  <2>2. \A a, b \in A : f[a] = f[b] => a = b
    OBVIOUS
  <2>3. \A b \in B : \E a \in A : f[a] = b
    <3> SUFFICES ASSUME NEW b \in B PROVE \E a \in A : f[a] = b
      OBVIOUS
    <3>1. CASE b = x
      <4>1. y \in A /\ f[y] = b
        BY <1>1, <1>2, <2>0, <3>1
      <4> QED BY <4>1
    <3>2. CASE b = y
      <4>1. x \in A /\ f[x] = b
        BY <1>1, <1>2, <2>0, <3>2
      <4> QED BY <4>1
    <3>3. CASE b # x /\ b # y
      <4>1. b \in A /\ f[b] = b
        BY <1>1, <1>2, <2>0, <3>3
      <4> QED BY <4>1
    <3> QED BY <3>1, <3>2, <3>3
  <2> HIDE DEF A, B, f
  <2>4. f \in Bijection(A, B)
    BY <2>1, <2>2, <2>3 DEF Bijection, Injection, Surjection, IsInjective
  <2>5. IsFiniteSet(A)
    <3>1. IsFiniteSet(1 .. Limit + 1)
      BY <1>1, FS_Interval
    <3> QED BY <3>1, FS_Subset DEF A
  <2>6. Cardinality(B) = Cardinality(A)
    BY <2>4, <2>5, FS_Bijection DEF ExistsBijection
  <2> QED BY <2>6 DEF Occurs, A, B
<1> QED BY <1>2, <1>3 DEF Shuffled, s

LEMMA Same ==
  ASSUME NEW t \in [Places -> Values]
  PROVE  Shuffled(t, t)
  BY DEF Shuffled

LEMMA Exchanges ==
  ASSUME NEW t \in [Places -> Values], NEW s, Shuffled(t, s),
         NEW x \in 1 .. Limit + 1, NEW y \in 1 .. Limit + 1
  PROVE  Shuffled(t, set2(s, x, y))
<1>1. s \in [Places -> Values]
  BY DEF Shuffled
<1>2. Shuffled(s, set2(s, x, y))
  BY <1>1, Exchange
<1> QED BY <1>2 DEF Shuffled

-----------------------------------------------------------------------------
(* Types: the steps of sort leave a part and scans, and rearrange the list *)

Moved == Shuffled(table, table') /\ SortOK'

LEMMA LeavingOK ==
  ASSUME NEW r, Leaves(r)
  PROVE  SortOK'
<1>1. Limit \in Nat
  BY ListAssumption
<1>2. calls' = <<>> /\ lower' = 1 /\ upper' = 0 /\ up' = 0 /\ down' = 0 /\ pivot' = NoValue /\ at' = "idle"
  BY DEF Leaves, NoScan
<1>3. <<>> \in Seq(Parts1) /\ DOMAIN <<>> = {}
  OBVIOUS
<1> QED BY <1>1, <1>2, <1>3 DEF SortOK, ScanOK, PartOK, Steps, Values

LEMMA FirstCall ==
  ASSUME NEW cs \in Seq(Parts1), cs # <<>>,
         \A c \in DOMAIN cs : PartOK(cs[c][1], cs[c][2])
  PROVE  /\ Head(cs)[1] \in Int /\ Head(cs)[2] \in Int /\ PartOK(Head(cs)[1], Head(cs)[2])
         /\ Tail(cs) \in Seq(Parts1)
         /\ \A c \in DOMAIN Tail(cs) : PartOK(Tail(cs)[c][1], Tail(cs)[c][2])
<1>1. Len(cs) \in Nat /\ Len(cs) >= 1 /\ DOMAIN cs = 1 .. Len(cs)
  OBVIOUS
<1>2. Head(cs) = cs[1] /\ 1 \in DOMAIN cs /\ cs[1] \in Parts1
  BY <1>1
<1>3. Len(Tail(cs)) = Len(cs) - 1 /\ Tail(cs) \in Seq(Parts1) /\ DOMAIN Tail(cs) = 1 .. Len(cs) - 1
  BY <1>1
<1>4. \A c \in 1 .. Len(cs) - 1 : Tail(cs)[c] = cs[c + 1] /\ c + 1 \in DOMAIN cs
  BY <1>1
<1>5. Head(cs)[1] \in Int /\ Head(cs)[2] \in Int /\ PartOK(Head(cs)[1], Head(cs)[2])
  BY <1>2 DEF Parts1
<1>6. \A c \in DOMAIN Tail(cs) : PartOK(Tail(cs)[c][1], Tail(cs)[c][2])
  <2> SUFFICES ASSUME NEW c \in DOMAIN Tail(cs) PROVE PartOK(Tail(cs)[c][1], Tail(cs)[c][2])
    OBVIOUS
  <2>1. Tail(cs)[c] = cs[c + 1] /\ c + 1 \in DOMAIN cs
    BY <1>3, <1>4
  <2> QED BY <2>1
<1> QED BY <1>3, <1>5, <1>6

LEMMA ReturningOK ==
  ASSUME TypeOK, Returns
  PROVE  SortOK'
<1>1. CASE calls = <<>>
  BY <1>1, LeavingOK DEF Returns
<1>2. CASE calls # <<>>
  <2>1. /\ lower' = Head(calls)[1] /\ upper' = Head(calls)[2] /\ calls' = Tail(calls)
        /\ at' = "ends" /\ up' = 0 /\ down' = 0 /\ pivot' = NoValue
    BY <1>2 DEF Returns, NoScan
  <2>2. calls \in Seq(Parts1) /\ \A c \in DOMAIN calls : PartOK(calls[c][1], calls[c][2])
    BY DEF TypeOK, SortOK
  <2>3. lower' \in Int /\ upper' \in Int /\ PartOK(lower', upper')
    BY <1>2, <2>1, <2>2, FirstCall
  <2>4. calls' \in Seq(Parts1) /\ \A c \in DOMAIN calls' : PartOK(calls'[c][1], calls'[c][2])
    BY <1>2, <2>1, <2>2, FirstCall
  <2> QED BY <2>1, <2>3, <2>4 DEF SortOK, ScanOK, Steps, Values
<1> QED BY <1>1, <1>2

LEMMA PushedCall ==
  ASSUME NEW cs \in Seq(Parts1), NEW l \in Int, NEW u \in Int, PartOK(l, u),
         \A c \in DOMAIN cs : PartOK(cs[c][1], cs[c][2])
  PROVE  /\ <<<<l, u>>>> \o cs \in Seq(Parts1)
         /\ \A c \in DOMAIN (<<<<l, u>>>> \o cs) : PartOK((<<<<l, u>>>> \o cs)[c][1], (<<<<l, u>>>> \o cs)[c][2])
<1> DEFINE p == <<l, u>>
           s == <<p>> \o cs
<1>1. p \in Parts1 /\ p[1] = l /\ p[2] = u
  BY DEF Parts1
<1> HIDE DEF p
<1>2. s \in Seq(Parts1) /\ Len(s) = 1 + Len(cs) /\ DOMAIN s = 1 .. 1 + Len(cs)
      /\ DOMAIN cs = 1 .. Len(cs) /\ Len(cs) \in Nat
  BY <1>1
<1>3. s[1] = p
  BY <1>1
<1>4. \A c \in 2 .. 1 + Len(cs) : s[c] = cs[c - 1] /\ c - 1 \in DOMAIN cs
  BY <1>1, <1>2
<1> HIDE DEF s
<1>5. \A c \in DOMAIN s : PartOK(s[c][1], s[c][2])
  <2> SUFFICES ASSUME NEW c \in DOMAIN s PROVE PartOK(s[c][1], s[c][2])
    OBVIOUS
  <2>1. CASE c = 1
    BY <1>1, <1>3, <2>1
  <2>2. CASE c # 1
    BY <1>2, <1>4, <2>2
  <2> QED BY <2>1, <2>2
<1> QED BY <1>2, <1>5 DEF s, p

LEMMA HalvingOK ==
  ASSUME TypeOK, Halves, lower < up, up <= upper + 1, lower < upper
  PROVE  SortOK'
<1>1. /\ Limit \in Nat /\ lower \in Int /\ upper \in Int /\ up \in Int /\ PartOK(lower, upper)
      /\ calls \in Seq(Parts1) /\ \A c \in DOMAIN calls : PartOK(calls[c][1], calls[c][2])
  BY ListAssumption DEF TypeOK, SortOK
<1>2. at' = "ends" /\ up' = 0 /\ down' = 0 /\ pivot' = NoValue
  BY DEF Halves, NoScan
<1>3. /\ up + 1 \in Int /\ up - 1 \in Int /\ PartOK(up + 1, upper) /\ PartOK(lower, up - 1)
  BY <1>1 DEF PartOK
<1>4. CASE up - lower < upper - up
  <2>1. lower' = lower /\ upper' = up - 1 /\ calls' = <<<<up + 1, upper>>>> \o calls
    BY <1>4 DEF Halves
  <2>2. calls' \in Seq(Parts1) /\ \A c \in DOMAIN calls' : PartOK(calls'[c][1], calls'[c][2])
    BY <1>1, <1>3, <2>1, PushedCall
  <2> QED BY <1>1, <1>2, <1>3, <2>1, <2>2 DEF SortOK, ScanOK, Steps, Values
<1>5. CASE ~(up - lower < upper - up)
  <2>1. lower' = up + 1 /\ upper' = upper /\ calls' = <<<<lower, up - 1>>>> \o calls
    BY <1>5 DEF Halves
  <2>2. calls' \in Seq(Parts1) /\ \A c \in DOMAIN calls' : PartOK(calls'[c][1], calls'[c][2])
    BY <1>1, <1>3, <2>1, PushedCall
  <2> QED BY <1>1, <1>2, <1>3, <2>1, <2>2 DEF SortOK, ScanOK, Steps, Values
<1> QED BY <1>4, <1>5

LEMMA Bounds ==
  ASSUME TypeOK, lower < upper
  PROVE  /\ Limit \in Nat /\ lower \in 1 .. Limit + 1 /\ upper \in 1 .. Limit + 1
         /\ upper - 1 \in 1 .. Limit + 1
  BY ListAssumption DEF TypeOK, SortOK, PartOK

LEMMA PivotOK ==
  ASSUME TypeOK, at \in {"middle", "third"}, NEW t, Shuffled(table, t), PivotFrom(t)
  PROVE  Moved
<1>1. /\ lower \in Int /\ upper \in Int /\ up \in Int /\ down \in Int /\ pivot \in Values
      /\ PartOK(lower, upper) /\ lower + 2 <= upper /\ lower <= up /\ up <= upper
      /\ calls \in Seq(Parts1) /\ \A c \in DOMAIN calls : PartOK(calls[c][1], calls[c][2])
      /\ table \in [Places -> Values]
  BY DEF TypeOK, SortOK, ScanOK
<1>2. CASE upper - lower = 2
  <2>1. table' = t /\ Returns
    BY <1>2 DEF PivotFrom
  <2> QED BY <2>1, ReturningOK DEF Moved
<1>3. CASE upper - lower # 2
  <2>1. /\ table' = set2(t, up, upper - 1) /\ pivot' = t[up] /\ up' = lower /\ down' = upper - 1
        /\ at' = "up" /\ lower' = lower /\ upper' = upper /\ calls' = calls
    BY <1>3 DEF PivotFrom, Goes
  <2>2. up \in 1 .. Limit + 1 /\ upper - 1 \in 1 .. Limit + 1 /\ up \in Places
    BY <1>1, ListAssumption DEF PartOK, Places
  <2>3. Shuffled(table, table')
    BY <1>1, <2>1, <2>2, Exchanges
  <2>4. t[up] \in Values
    BY <2>2 DEF Shuffled
  <2>5. lower + 2 < upper
    BY <1>1, <1>3
  <2>6. SortOK'
    BY <1>1, <2>1, <2>4, <2>5 DEF SortOK, ScanOK, Steps, PartOK
  <2> QED BY <2>3, <2>6 DEF Moved
<1> QED BY <1>2, <1>3

LEMMA DoneOK ==
  ASSUME TypeOK, Done
  PROVE  Moved
  BY ReturningOK, Same DEF Done, Moved, TypeOK

LEMMA BothEndsOK ==
  ASSUME TypeOK, BothEnds
  PROVE  Moved
<1>1. lower < upper /\ at = "ends" /\ lower \in 1 .. Limit + 1 /\ upper \in 1 .. Limit + 1
      /\ table \in [Places -> Values]
  BY Bounds DEF BothEnds, TypeOK
<1>2. table' = table \/ table' = set2(table, lower, upper)
  BY DEF BothEnds
<1>3. Shuffled(table, table')
  BY <1>1, <1>2, Same, Exchange
<1>4. CASE upper - lower = 1
  BY <1>3, <1>4, ReturningOK DEF BothEnds, Moved
<1>5. CASE upper - lower # 1
  <2>1. /\ at' = "middle" /\ lower' = lower /\ upper' = upper /\ calls' = calls
        /\ up' = (lower + upper) \div 2 /\ down' = down /\ pivot' = pivot
    BY <1>5 DEF BothEnds, Goes
  <2>2. /\ lower \in Int /\ upper \in Int /\ down \in Int /\ pivot \in Values /\ PartOK(lower, upper)
        /\ calls \in Seq(Parts1) /\ \A c \in DOMAIN calls : PartOK(calls[c][1], calls[c][2])
    BY DEF TypeOK, SortOK
  <2>3. up' \in Int /\ lower <= up' /\ up' <= upper /\ lower + 2 <= upper
    BY <1>1, <1>5, <2>1, <2>2
  <2>4. SortOK'
    BY <2>1, <2>2, <2>3 DEF SortOK, ScanOK, Steps
  <2> QED BY <1>3, <2>4 DEF Moved
<1> QED BY <1>4, <1>5

LEMMA Between ==
  ASSUME TypeOK, at \in {"middle", "third"}
  PROVE  /\ lower < upper /\ up \in 1 .. Limit + 1 /\ up \in Places
         /\ lower \in 1 .. Limit + 1 /\ upper \in 1 .. Limit + 1 /\ table \in [Places -> Values]
  BY ListAssumption DEF TypeOK, SortOK, ScanOK, PartOK, Places

LEMMA MiddleOK ==
  ASSUME TypeOK, Middle
  PROVE  Moved
<1>0. at = "middle"
  BY DEF Middle
<1>1. lower < upper /\ up \in 1 .. Limit + 1 /\ lower \in 1 .. Limit + 1 /\ table \in [Places -> Values]
  BY <1>0, Between
<1>2. PivotFrom(set2(table, up, lower)) \/ (Goes("third") /\ UNCHANGED <<table, scans>>)
  BY DEF Middle
<1>3. CASE PivotFrom(set2(table, up, lower))
  <2>1. Shuffled(table, set2(table, up, lower))
    BY <1>1, Exchange
  <2> QED BY <1>0, <1>3, <2>1, PivotOK
<1>4. CASE Goes("third") /\ UNCHANGED <<table, scans>>
  <2>1. SortOK'
    BY <1>0, <1>4 DEF Goes, scans, TypeOK, SortOK, ScanOK, Steps
  <2> QED BY <1>1, <1>4, <2>1, Same DEF Moved
<1> QED BY <1>2, <1>3, <1>4

LEMMA ThirdOK ==
  ASSUME TypeOK, Third
  PROVE  Moved
<1>0. at = "third"
  BY DEF Third
<1>1. up \in 1 .. Limit + 1 /\ upper \in 1 .. Limit + 1 /\ table \in [Places -> Values]
  BY <1>0, Between
<1>2. Shuffled(table, table) /\ Shuffled(table, set2(table, up, upper))
  BY <1>1, Exchange, Same
<1>3. PivotFrom(table) \/ PivotFrom(set2(table, up, upper))
  BY DEF Third
<1> QED BY <1>0, <1>2, <1>3, PivotOK

LEMMA FailsOK ==
  ASSUME TypeOK, Fails, UNCHANGED table
  PROVE  Moved
  BY LeavingOK, Same DEF Fails, Moved, TypeOK

LEMMA UpOK ==
  ASSUME TypeOK, Up
  PROVE  Moved
<1>0. at = "up" /\ table' = table /\ table \in [Places -> Values]
  BY DEF Up, TypeOK
<1>1. CASE Fails
  BY <1>0, <1>1, FailsOK
<1>2. CASE ~Fails
  <2>1. PICK less \in sort_comp(table[up + 1], pivot) :
          /\ ~(less /\ up + 1 > upper)
          /\ Goes(IF less THEN "up" ELSE "down") /\ up' = up + 1 /\ UNCHANGED <<down, pivot>>
    BY <1>2 DEF Up
  <2>2. /\ lower' = lower /\ upper' = upper /\ calls' = calls /\ down' = down /\ pivot' = pivot
        /\ at' = IF less THEN "up" ELSE "down"
    BY <2>1 DEF Goes
  <2>3. SortOK'
    BY <1>0, <2>1, <2>2 DEF TypeOK, SortOK, ScanOK, Steps
  <2> QED BY <1>0, <2>3, Same DEF Moved
<1> QED BY <1>1, <1>2

LEMMA DownOK ==
  ASSUME TypeOK, Down
  PROVE  Moved
<1>0. /\ at = "down" /\ table \in [Places -> Values] /\ lower + 2 < upper /\ lower < up /\ up <= upper + 1
      /\ lower <= down /\ down < upper
      /\ Limit \in Nat /\ lower \in Int /\ upper \in Int /\ up \in Int /\ down \in Int /\ PartOK(lower, upper)
  BY ListAssumption DEF Down, TypeOK, SortOK, ScanOK
<1>1. up \in 1 .. Limit + 1 /\ upper - 1 \in 1 .. Limit + 1
  BY <1>0 DEF PartOK
<1>2. CASE Fails /\ UNCHANGED table
  BY <1>2, FailsOK
<1>3. CASE ~(Fails /\ UNCHANGED table)
  <2>1. PICK less \in sort_comp(pivot, table[down - 1]) :
          /\ ~(less /\ down - 1 < lower)
          /\ IF less THEN Goes("down") /\ down' = down - 1 /\ UNCHANGED <<table, up, pivot>>
             ELSE IF down - 1 < up THEN table' = set2(table, upper - 1, up) /\ Halves
             ELSE table' = set2(table, up, down - 1) /\ Goes("up") /\ down' = down - 1
                  /\ UNCHANGED <<up, pivot>>
    BY <1>3 DEF Down
  <2>2. CASE less
    <3>1. /\ lower' = lower /\ upper' = upper /\ calls' = calls /\ down' = down - 1 /\ up' = up
          /\ pivot' = pivot /\ table' = table /\ at' = "down" /\ down - 1 >= lower
      BY <1>0, <2>1, <2>2 DEF Goes
    <3>2. SortOK'
      BY <1>0, <3>1 DEF TypeOK, SortOK, ScanOK, Steps
    <3> QED BY <1>0, <3>1, <3>2, Same DEF Moved
  <2>3. CASE ~less /\ down - 1 < up
    <3>1. table' = set2(table, upper - 1, up) /\ Halves
      BY <2>1, <2>3
    <3>2. SortOK'
      BY <1>0, <3>1, HalvingOK
    <3> QED BY <1>0, <1>1, <3>1, <3>2, Exchange DEF Moved
  <2>4. CASE ~less /\ ~(down - 1 < up)
    <3>1. /\ lower' = lower /\ upper' = upper /\ calls' = calls /\ down' = down - 1 /\ up' = up
          /\ pivot' = pivot /\ table' = set2(table, up, down - 1) /\ at' = "up" /\ down - 1 >= up
      BY <1>0, <2>1, <2>4 DEF Goes
    <3>2. SortOK'
      BY <1>0, <3>1 DEF TypeOK, SortOK, ScanOK, Steps
    <3>3. down - 1 \in 1 .. Limit + 1
      BY <1>0, <3>1 DEF PartOK
    <3> QED BY <1>0, <1>1, <3>1, <3>2, <3>3, Exchange DEF Moved
  <2> QED BY <2>2, <2>3, <2>4
<1> QED BY <1>2, <1>3

LEMMA SortingOK ==
  ASSUME TypeOK, Sorting
  PROVE  Moved
<1>1. Raises => Moved
  BY FailsOK DEF Raises
<1> QED BY <1>1, DoneOK, BothEndsOK, MiddleOK, ThirdOK, UpOK, DownOK DEF Sorting

-----------------------------------------------------------------------------
(* Order: exchanges, parts that are done, halves *)

InPlace(r, t, l, u) == \A p, q \in Int : l <= p /\ p < q /\ q <= u => Before(r, t[p], t[q])

LEMMA Exchanged ==
  ASSUME NEW t \in [Places -> Values], NEW x \in Places, NEW y \in Places
  PROVE  /\ set2(t, x, y) \in [Places -> Values]
         /\ set2(t, x, y)[x] = t[y] /\ set2(t, x, y)[y] = t[x]
         /\ \A k \in Places : k # x /\ k # y => set2(t, x, y)[k] = t[k]
  BY DEF set2

\* What is exchanged within a part stays in order with the rest.
LEMMA ExchangeOrdered ==
  ASSUME NEW r, NEW t \in [Places -> Values], NEW n \in 0 .. Limit, NEW l \in Int, NEW u \in Int,
         NEW cs, Ordered(r, t, n, l, u, cs),
         NEW x \in Int, NEW y \in Int, l <= x, x <= u, l <= y, y <= u
  PROVE  Ordered(r, set2(t, x, y), n, l, u, cs)
<1> DEFINE s == set2(t, x, y)
<1>1. Limit \in Nat /\ n \in Int /\ 1 <= l /\ u <= n
  BY ListAssumption DEF Ordered, Inside1
<1>2. x \in Places /\ y \in Places /\ 1 .. n \subseteq Places
  BY <1>1 DEF Places
<1>3. s[x] = t[y] /\ s[y] = t[x] /\ \A k \in Places : k # x /\ k # y => s[k] = t[k]
  BY <1>2, Exchanged
<1> HIDE DEF s
<1>4. \A k \in 1 .. n : l <= k /\ k <= u => ~Waits(cs, k)
  BY <1>1 DEF Ordered, Apart
<1>5. \A p, q \in 1 .. n : p < q => Before(r, t[p], t[q]) \/ (l <= p /\ q <= u) \/ Together(cs, p, q)
  BY DEF Ordered, Sorted
<1>6. \A p, q : Together(cs, p, q) => Waits(cs, p) /\ Waits(cs, q)
  BY DEF Together, Waits
\* The place where it was.
<1>7. \A k \in 1 .. n : \E m \in 1 .. n : /\ s[k] = t[m]
                                        /\ IF l <= k /\ k <= u THEN l <= m /\ m <= u ELSE m = k
  <2> SUFFICES ASSUME NEW k \in 1 .. n
               PROVE \E m \in 1 .. n : s[k] = t[m] /\ IF l <= k /\ k <= u THEN l <= m /\ m <= u ELSE m = k
    OBVIOUS
  <2>0. k \in Places /\ x \in 1 .. n /\ y \in 1 .. n
    BY <1>1, <1>2
  <2>1. CASE k = x
    BY <1>3, <2>0, <2>1
  <2>2. CASE k = y
    BY <1>3, <2>0, <2>2
  <2>3. CASE k # x /\ k # y
    BY <1>3, <2>0, <2>3
  <2> QED BY <2>1, <2>2, <2>3
<1>8. ASSUME NEW p \in 1 .. n, NEW q \in 1 .. n, p < q
      PROVE  \/ Before(r, s[p], s[q])
             \/ l <= p /\ q <= u
             \/ Together(cs, p, q)
  <2>1. PICK a \in 1 .. n : s[p] = t[a] /\ IF l <= p /\ p <= u THEN l <= a /\ a <= u ELSE a = p
    BY <1>7
  <2>2. PICK b \in 1 .. n : s[q] = t[b] /\ IF l <= q /\ q <= u THEN l <= b /\ b <= u ELSE b = q
    BY <1>7
  <2>3. CASE l <= p /\ p <= u /\ l <= q /\ q <= u
    BY <2>3
  <2>4. CASE l <= p /\ p <= u /\ ~(l <= q /\ q <= u)
    <3>1. b = q /\ a < b /\ ~(b <= u) /\ ~Waits(cs, a)
      BY <1>4, <2>1, <2>2, <2>4, <1>1, <1>8
    <3> QED BY <1>5, <1>6, <2>1, <2>2, <3>1
  <2>5. CASE ~(l <= p /\ p <= u) /\ l <= q /\ q <= u
    <3>1. a = p /\ a < b /\ ~(l <= a) /\ ~Waits(cs, b)
      BY <1>4, <2>1, <2>2, <2>5, <1>1, <1>8
    <3> QED BY <1>5, <1>6, <2>1, <2>2, <3>1
  <2>6. CASE ~(l <= p /\ p <= u) /\ ~(l <= q /\ q <= u)
    <3>1. a = p /\ b = q
      BY <2>1, <2>2, <2>6
    <3> QED BY <1>5, <2>1, <2>2, <3>1, <1>8
  <2> QED BY <2>3, <2>4, <2>5, <2>6
<1>9. Sorted(r, s, n, l, u, cs)
  BY <1>8 DEF Sorted
<1> QED BY <1>9 DEF Ordered, s

LEMMA ExchangeList ==
  ASSUME NEW t \in [Places -> Values], NEW n \in 0 .. Limit, ListOf(t, n),
         NEW x \in 1 .. n, NEW y \in 1 .. n
  PROVE  ListOf(set2(t, x, y), n)
<1>1. Limit \in Nat /\ x \in Places /\ y \in Places /\ 1 .. n \subseteq Places
  BY ListAssumption DEF Places
<1> DEFINE s == set2(t, x, y)
<1>2. s[x] = t[y] /\ s[y] = t[x] /\ \A k \in Places : k # x /\ k # y => s[k] = t[k]
  BY <1>1, Exchanged
<1> HIDE DEF s
<1>3. ListOf(s, n)
  BY <1>1, <1>2 DEF ListOf
<1> QED BY <1>3 DEF s

LEMMA Popped ==
  ASSUME NEW cs \in Seq(Parts1), cs # <<>>, Disjoint(cs)
  PROVE  /\ Disjoint(Tail(cs)) /\ Apart(Head(cs)[1], Head(cs)[2], Tail(cs))
         /\ \A p, q \in Int : Together(cs, p, q) =>
              (InPart(Head(cs), p) /\ InPart(Head(cs), q)) \/ Together(Tail(cs), p, q)
<1>1. Len(cs) \in Nat /\ Len(cs) >= 1 /\ DOMAIN cs = 1 .. Len(cs) /\ Head(cs) = cs[1] /\ 1 \in DOMAIN cs
  OBVIOUS
<1> DEFINE ts == Tail(cs)
<1>2. DOMAIN ts = 1 .. Len(cs) - 1
  BY <1>1
<1>3. \A c \in 1 .. Len(cs) - 1 : ts[c] = cs[c + 1] /\ c + 1 \in DOMAIN cs
  BY <1>1
<1> HIDE DEF ts
<1>4. \A c, d \in DOMAIN cs : \A p \in Int : InPart(cs[c], p) /\ InPart(cs[d], p) => c = d
  BY DEF Disjoint
<1>5. Disjoint(ts)
  <2> SUFFICES ASSUME NEW c \in DOMAIN ts, NEW d \in DOMAIN ts, NEW p \in Int, InPart(ts[c], p), InPart(ts[d], p)
               PROVE c = d
    BY DEF Disjoint
  <2>1. c + 1 \in DOMAIN cs /\ d + 1 \in DOMAIN cs /\ ts[c] = cs[c + 1] /\ ts[d] = cs[d + 1]
        /\ c \in Int /\ d \in Int
    BY <1>2, <1>3
  <2>2. c + 1 = d + 1
    BY <1>4, <2>1
  <2> QED BY <2>1, <2>2
<1>6. Apart(Head(cs)[1], Head(cs)[2], ts)
  <2> SUFFICES ASSUME NEW p \in Int, Head(cs)[1] <= p, p <= Head(cs)[2], NEW c \in DOMAIN ts, InPart(ts[c], p)
               PROVE FALSE
    BY DEF Apart, Waits
  <2>1. c + 1 \in DOMAIN cs /\ ts[c] = cs[c + 1] /\ c \in Int /\ c >= 1
    BY <1>2, <1>3
  <2>2. InPart(cs[1], p)
    BY <1>1 DEF InPart
  <2>3. c + 1 = 1
    BY <1>1, <1>4, <2>1, <2>2
  <2> QED BY <2>1, <2>3
<1>7. ASSUME NEW p \in Int, NEW q \in Int, Together(cs, p, q)
      PROVE  (InPart(Head(cs), p) /\ InPart(Head(cs), q)) \/ Together(ts, p, q)
  <2>1. PICK c \in DOMAIN cs : InPart(cs[c], p) /\ InPart(cs[c], q)
    BY <1>7 DEF Together
  <2>2. CASE c = 1
    BY <1>1, <2>1, <2>2
  <2>3. CASE c # 1
    <3>1. c - 1 \in DOMAIN ts /\ ts[c - 1] = cs[c]
      BY <1>1, <1>2, <1>3, <2>3
    <3> QED BY <2>1, <3>1 DEF Together
  <2> QED BY <2>2, <2>3
<1> QED BY <1>5, <1>6, <1>7 DEF ts

LEMMA Pushed ==
  ASSUME NEW cs \in Seq(Parts1), Disjoint(cs), NEW l \in Int, NEW u \in Int,
         NEW a \in Int, NEW b \in Int, Apart(l, u, cs), l <= a, b <= u
  PROVE  /\ Disjoint(<<<<a, b>>>> \o cs)
         /\ \A p \in Int : l <= p /\ p <= u /\ (p < a \/ b < p) => ~Waits(<<<<a, b>>>> \o cs, p)
         /\ \A p, q \in Int : Together(cs, p, q) \/ (a <= p /\ p <= b /\ a <= q /\ q <= b)
                             => Together(<<<<a, b>>>> \o cs, p, q)
<1> DEFINE w == <<a, b>>
           s == <<w>> \o cs
<1>1. w \in Parts1 /\ w[1] = a /\ w[2] = b
  BY DEF Parts1
<1> HIDE DEF w
<1>2. Len(cs) \in Nat /\ DOMAIN cs = 1 .. Len(cs) /\ DOMAIN s = 1 .. 1 + Len(cs) /\ s[1] = w
  BY <1>1
<1>3. \A c \in 2 .. 1 + Len(cs) : s[c] = cs[c - 1] /\ c - 1 \in DOMAIN cs
  BY <1>1, <1>2
<1>4. \A c \in DOMAIN cs : c + 1 \in DOMAIN s /\ s[c + 1] = cs[c]
  BY <1>1, <1>2
<1> HIDE DEF s
<1>5. \A p \in Int : InPart(w, p) => l <= p /\ p <= u
  BY <1>1 DEF InPart
<1>6. \A p \in Int : l <= p /\ p <= u => \A c \in DOMAIN cs : ~InPart(cs[c], p)
  BY DEF Apart, Waits
<1>7. Disjoint(s)
  <2> SUFFICES ASSUME NEW c \in DOMAIN s, NEW d \in DOMAIN s, NEW p \in Int, InPart(s[c], p), InPart(s[d], p)
               PROVE c = d
    BY DEF Disjoint
  <2>0. c \in Int /\ d \in Int
    BY <1>2
  <2>1. CASE c = 1 /\ d # 1
    <3>1. s[d] = cs[d - 1] /\ d - 1 \in DOMAIN cs
      BY <1>2, <1>3, <2>1
    <3> QED BY <1>2, <1>5, <1>6, <2>1, <3>1
  <2>2. CASE c # 1 /\ d = 1
    <3>1. s[c] = cs[c - 1] /\ c - 1 \in DOMAIN cs
      BY <1>2, <1>3, <2>2
    <3> QED BY <1>2, <1>5, <1>6, <2>2, <3>1
  <2>3. CASE c # 1 /\ d # 1
    <3>1. s[c] = cs[c - 1] /\ c - 1 \in DOMAIN cs /\ s[d] = cs[d - 1] /\ d - 1 \in DOMAIN cs
      BY <1>2, <1>3, <2>3
    <3>2. c - 1 = d - 1
      BY <3>1 DEF Disjoint
    <3> QED BY <2>0, <3>2
  <2> QED BY <2>1, <2>2, <2>3
<1>8. ASSUME NEW p \in Int, l <= p, p <= u, p < a \/ b < p, Waits(s, p)
      PROVE  FALSE
  <2>1. PICK c \in DOMAIN s : InPart(s[c], p)
    BY <1>8 DEF Waits
  <2>2. CASE c = 1
    BY <1>1, <1>2, <1>8, <2>1, <2>2 DEF InPart
  <2>3. CASE c # 1
    <3>1. s[c] = cs[c - 1] /\ c - 1 \in DOMAIN cs
      BY <1>2, <1>3, <2>3
    <3> QED BY <1>6, <1>8, <2>1, <3>1
  <2> QED BY <2>2, <2>3
<1>9. ASSUME NEW p \in Int, NEW q \in Int, Together(cs, p, q) \/ (a <= p /\ p <= b /\ a <= q /\ q <= b)
      PROVE  Together(s, p, q)
  <2>1. CASE Together(cs, p, q)
    <3>1. PICK c \in DOMAIN cs : InPart(cs[c], p) /\ InPart(cs[c], q)
      BY <2>1 DEF Together
    <3> QED BY <1>4, <3>1 DEF Together
  <2>2. CASE a <= p /\ p <= b /\ a <= q /\ q <= b
    <3>1. 1 \in DOMAIN s /\ InPart(s[1], p) /\ InPart(s[1], q)
      BY <1>1, <1>2, <2>2 DEF InPart
    <3> QED BY <3>1 DEF Together
  <2> QED BY <1>9, <2>1, <2>2
<1> QED BY <1>7, <1>8, <1>9 DEF s, w

\* A part is done: what is left are the parts of the callers.
LEMMA PartDone ==
  ASSUME NEW r, NEW t, NEW n \in 0 .. Limit, NEW l \in Int, NEW u \in Int, NEW cs \in Seq(Parts1),
         Ordered(r, t, n, l, u, cs), InPlace(r, t, l, u)
  PROVE  IF cs = <<>> THEN InPlace(r, t, 1, n)
         ELSE Ordered(r, t, n, Head(cs)[1], Head(cs)[2], Tail(cs))
<1>1. Limit \in Nat /\ n \in Int /\ 1 <= l /\ u <= n
  BY ListAssumption DEF Ordered, Inside1
<1>2. \A p, q \in 1 .. n : p < q => Before(r, t[p], t[q]) \/ Together(cs, p, q)
  <2> SUFFICES ASSUME NEW p \in 1 .. n, NEW q \in 1 .. n, p < q
               PROVE Before(r, t[p], t[q]) \/ Together(cs, p, q)
    OBVIOUS
  <2>1. Before(r, t[p], t[q]) \/ (l <= p /\ q <= u) \/ Together(cs, p, q)
    BY DEF Ordered, Sorted
  <2>2. l <= p /\ q <= u => Before(r, t[p], t[q])
    BY DEF InPlace
  <2> QED BY <2>1, <2>2
<1>3. CASE cs = <<>>
  <2>1. \A p, q \in Int : ~Together(cs, p, q)
    BY <1>3 DEF Together
  <2> QED BY <1>1, <1>2, <1>3, <2>1 DEF InPlace
<1>4. CASE cs # <<>>
  <2>0. Disjoint(cs) /\ \A c \in DOMAIN cs : 1 <= cs[c][1] /\ cs[c][2] <= n
    BY DEF Ordered, Inside1
  <2>1. Disjoint(Tail(cs)) /\ Apart(Head(cs)[1], Head(cs)[2], Tail(cs))
    BY <1>4, <2>0, Popped
  <2>2. \A p, q \in Int : Together(cs, p, q) =>
              (InPart(Head(cs), p) /\ InPart(Head(cs), q)) \/ Together(Tail(cs), p, q)
    BY <1>4, <2>0, Popped
  <2>3. Sorted(r, t, n, Head(cs)[1], Head(cs)[2], Tail(cs))
    <3> SUFFICES ASSUME NEW p \in 1 .. n, NEW q \in 1 .. n, p < q
                 PROVE Before(r, t[p], t[q]) \/ (Head(cs)[1] <= p /\ q <= Head(cs)[2]) \/ Together(Tail(cs), p, q)
      BY DEF Sorted
    <3> QED BY <1>1, <1>2, <2>2 DEF InPart
  <2>4. Inside1(n, Head(cs)[1], Head(cs)[2], Tail(cs))
    <3>1. Len(cs) \in Nat /\ Len(cs) >= 1 /\ DOMAIN cs = 1 .. Len(cs) /\ Head(cs) = cs[1] /\ 1 \in DOMAIN cs
      BY <1>4
    <3>2. DOMAIN Tail(cs) = 1 .. Len(cs) - 1 /\ \A c \in 1 .. Len(cs) - 1 : Tail(cs)[c] = cs[c + 1] /\ c + 1 \in DOMAIN cs
      BY <1>4, <3>1
    <3> QED BY <2>0, <3>1, <3>2 DEF Inside1
  <2> QED BY <1>4, <2>1, <2>3, <2>4 DEF Ordered
<1> QED BY <1>3, <1>4

\* A part is cut into one that waits and one that is sorted next.
LEMMA Cut ==
  ASSUME NEW r, NEW t, NEW n \in 0 .. Limit, NEW l \in Int, NEW u \in Int, NEW cs \in Seq(Parts1),
         Ordered(r, t, n, l, u, cs),
         NEW a \in Int, NEW b \in Int, NEW c \in Int, NEW d \in Int,
         l <= a, b <= u, l <= c, d <= u, b < c \/ d < a,
         \A p, q \in Int : l <= p /\ p < q /\ q <= u =>
            Before(r, t[p], t[q]) \/ (a <= p /\ q <= b) \/ (c <= p /\ q <= d)
  PROVE  Ordered(r, t, n, c, d, <<<<a, b>>>> \o cs)
<1>1. /\ Limit \in Nat /\ n \in Int /\ 1 <= l /\ u <= n /\ Disjoint(cs) /\ Apart(l, u, cs)
      /\ \A k \in DOMAIN cs : 1 <= cs[k][1] /\ cs[k][2] <= n
  BY ListAssumption DEF Ordered, Inside1
<1> DEFINE s == <<<<a, b>>>> \o cs
<1>2. Disjoint(s) /\ \A p \in Int : l <= p /\ p <= u /\ (p < a \/ b < p) => ~Waits(s, p)
  BY <1>1, Pushed
<1>3. \A p, q \in Int : Together(cs, p, q) \/ (a <= p /\ p <= b /\ a <= q /\ q <= b) => Together(s, p, q)
  BY <1>1, Pushed
<1>4. Inside1(n, c, d, s)
  <2> DEFINE w == <<a, b>>
             v == <<w>> \o cs
  <2>1. w \in Parts1 /\ w[1] = a /\ w[2] = b
    BY DEF Parts1
  <2> HIDE DEF w
  <2>2. Len(cs) \in Nat /\ DOMAIN cs = 1 .. Len(cs) /\ DOMAIN v = 1 .. 1 + Len(cs) /\ v[1] = w
    BY <2>1
  <2>3. \A k \in 2 .. 1 + Len(cs) : v[k] = cs[k - 1] /\ k - 1 \in DOMAIN cs
    BY <2>1, <2>2
  <2> HIDE DEF v
  <2>4. \A k \in DOMAIN v : 1 <= v[k][1] /\ v[k][2] <= n
    <3> SUFFICES ASSUME NEW k \in DOMAIN v PROVE 1 <= v[k][1] /\ v[k][2] <= n
      OBVIOUS
    <3>1. CASE k = 1
      BY <1>1, <2>1, <2>2, <3>1
    <3>2. CASE k # 1
      BY <1>1, <2>2, <2>3, <3>2
    <3> QED BY <3>1, <3>2
  <2>5. Inside1(n, c, d, v)
    BY <1>1, <2>4 DEF Inside1
  <2> QED BY <2>5 DEF v, w
<1> HIDE DEF s
<1>5. Apart(c, d, s)
  BY <1>2 DEF Apart
<1>6. Sorted(r, t, n, c, d, s)
  <2> SUFFICES ASSUME NEW p \in 1 .. n, NEW q \in 1 .. n, p < q
               PROVE Before(r, t[p], t[q]) \/ (c <= p /\ q <= d) \/ Together(s, p, q)
    BY DEF Sorted
  <2>1. Before(r, t[p], t[q]) \/ (l <= p /\ q <= u) \/ Together(cs, p, q)
    BY DEF Ordered, Sorted
  <2>2. CASE l <= p /\ q <= u
    BY <1>3, <2>2
  <2> QED BY <1>3, <2>1, <2>2
<1> QED BY <1>2, <1>4, <1>5, <1>6 DEF Ordered, s

LEMMA Elements ==
  ASSUME NEW t \in [Places -> Values], NEW n \in 0 .. Limit, ListOf(t, n), NEW k \in Int, 1 <= k, k <= n
  PROVE  k \in Places /\ t[k] \in Elems
<1>1. k \in Places
  BY ListAssumption DEF Places
<1> QED BY <1>1 DEF ListOf, Values

\* What the scans leave: nothing before i comes after it, nothing behind it before it.
LEMMA Crossing ==
  ASSUME NEW r \in Orders, NEW t \in [Places -> Values], NEW n \in 0 .. Limit, ListOf(t, n),
         NEW l \in Int, NEW u \in Int, NEW i \in Int, 1 <= l, l <= i, i <= u, u <= n,
         NotGreater(r, t, l, i - 1, t[i]), NotLess(r, t, i + 1, u, t[i])
  PROVE  \A p, q \in Int : l <= p /\ p < q /\ q <= u =>
            Before(r, t[p], t[q]) \/ (l <= p /\ q <= i - 1) \/ (i + 1 <= p /\ q <= u)
<1> SUFFICES ASSUME NEW p \in Int, NEW q \in Int, l <= p, p < q, q <= u, ~(q <= i - 1), ~(i + 1 <= p)
             PROVE Before(r, t[p], t[q])
  OBVIOUS
<1>0. n \in Int
  BY ListAssumption
<1>1. t[p] \in Elems /\ t[q] \in Elems /\ t[i] \in Elems
  BY <1>0, Elements
<1>2. p = i \/ Before(r, t[p], t[i])
  BY DEF NotGreater
<1>3. q = i \/ Before(r, t[i], t[q])
  BY DEF NotLess
<1> QED BY <1>1, <1>2, <1>3, Transitive

LEMMA Halved ==
  ASSUME NEW r \in Orders, NEW t \in [Places -> Values], NEW n \in 0 .. Limit, ListOf(t, n),
         NEW l \in Int, NEW u \in Int, NEW i \in Int, NEW cs \in Seq(Parts1), l <= i, i <= u,
         Ordered(r, t, n, l, u, cs),
         NotGreater(r, t, l, i - 1, t[i]), NotLess(r, t, i + 1, u, t[i])
  PROVE  /\ Ordered(r, t, n, l, i - 1, <<<<i + 1, u>>>> \o cs)
         /\ Ordered(r, t, n, i + 1, u, <<<<l, i - 1>>>> \o cs)
<1>1. n \in Int /\ 1 <= l /\ u <= n /\ i - 1 \in Int /\ i + 1 \in Int
  BY ListAssumption DEF Ordered, Inside1
<1> DEFINE h == i - 1
           g == i + 1
<1>2. \A p, q \in Int : l <= p /\ p < q /\ q <= u =>
            Before(r, t[p], t[q]) \/ (l <= p /\ q <= h) \/ (g <= p /\ q <= u)
  BY <1>1, Crossing
<1>3. h \in Int /\ g \in Int /\ h < g /\ l <= g /\ h <= u
  BY <1>1
<1> HIDE DEF h, g
<1>4. Ordered(r, t, n, l, h, <<<<g, u>>>> \o cs)
  BY <1>2, <1>3, Cut
<1>5. Ordered(r, t, n, g, u, <<<<l, h>>>> \o cs)
  BY <1>2, <1>3, Cut
<1> QED BY <1>4, <1>5 DEF h, g

-----------------------------------------------------------------------------
(* The steps of sort, when the function is an order *)

Under(n) == /\ TypeOK /\ at # "idle" /\ n \in 0 .. Limit
            /\ order \in Orders /\ Ranked(n)
            /\ at' # "idle" => order' = order
Good(n)  == IF at' = "idle" THEN result' = <<>> /\ ListOf(table', n) /\ InPlace(order, table', 1, n)
            ELSE Ranked(n)'

LEMMA Known ==
  ASSUME NEW n, Under(n)
  PROVE  /\ Limit \in Nat /\ n \in Nat /\ n <= Limit /\ n \in 0 .. Limit
         /\ table \in [Places -> Values] /\ ListOf(table, n) /\ order \in Orders
         /\ lower \in Int /\ upper \in Int /\ up \in Int /\ down \in Int /\ pivot \in Values
         /\ calls \in Seq(Parts1)
         /\ Ordered(order, table, n, lower, upper, calls) /\ 1 <= lower /\ upper <= n
  BY ListAssumption DEF Under, TypeOK, SortOK, Ranked, Ordered, Inside1

LEMMA ReturnsGood ==
  ASSUME NEW n, Under(n), ListOf(table', n),
         Ordered(order, table', n, lower, upper, calls), InPlace(order, table', lower, upper), Returns
  PROVE  Good(n)
<1>1. /\ n \in 0 .. Limit /\ lower \in Int /\ upper \in Int /\ calls \in Seq(Parts1)
  BY Known
<1>2. IF calls = <<>> THEN InPlace(order, table', 1, n)
      ELSE Ordered(order, table', n, Head(calls)[1], Head(calls)[2], Tail(calls))
  BY <1>1, PartDone
<1>3. CASE calls = <<>>
  <2>1. at' = "idle" /\ result' = <<>>
    BY <1>3 DEF Returns, Leaves
  <2> QED BY <1>2, <1>3, <2>1 DEF Good
<1>4. CASE calls # <<>>
  <2>1. at' = "ends" /\ lower' = Head(calls)[1] /\ upper' = Head(calls)[2] /\ calls' = Tail(calls)
    BY <1>4 DEF Returns
  <2>2. order' = order
    BY <2>1 DEF Under
  <2>3. Ordered(order', table', n, lower', upper', calls')
    BY <1>2, <1>4, <2>1, <2>2
  <2>4. Scanned'
    BY <2>1 DEF Scanned
  <2> QED BY <2>1, <2>3, <2>4 DEF Good, Ranked
<1> QED BY <1>3, <1>4

LEMMA DoneGood ==
  ASSUME NEW n, Under(n), Done
  PROVE  Good(n)
<1>1. table' = table /\ ~(lower < upper) /\ Returns /\ lower \in Int /\ upper \in Int
  BY Known DEF Done
<1>2. InPlace(order, table', lower, upper)
  BY <1>1 DEF InPlace
<1>3. ListOf(table', n) /\ Ordered(order, table', n, lower, upper, calls)
  BY <1>1, Known
<1> QED BY <1>1, <1>2, <1>3, ReturnsGood

\* An exchange within the part.
LEMMA InsidePart ==
  ASSUME NEW n, Under(n), NEW x \in Int, NEW y \in Int, lower <= x, x <= upper, lower <= y, y <= upper,
         NEW t \in [Places -> Values], ListOf(t, n), Ordered(order, t, n, lower, upper, calls)
  PROVE  /\ set2(t, x, y) \in [Places -> Values]
         /\ ListOf(set2(t, x, y), n) /\ Ordered(order, set2(t, x, y), n, lower, upper, calls)
         /\ set2(t, x, y)[x] = t[y] /\ set2(t, x, y)[y] = t[x]
         /\ \A k \in Int : lower <= k /\ k <= upper /\ k # x /\ k # y => set2(t, x, y)[k] = t[k]
<1>1. Limit \in Nat /\ n \in Nat /\ n <= Limit /\ lower \in Int /\ upper \in Int /\ 1 <= lower
      /\ upper <= n /\ n \in 0 .. Limit
  BY Known
<1>2. x \in 1 .. n /\ y \in 1 .. n
  BY <1>1
<1>3. x \in Places /\ y \in Places /\ \A k \in Int : lower <= k /\ k <= upper => k \in Places
  BY <1>1 DEF Places
<1>4. ListOf(set2(t, x, y), n)
  BY <1>1, <1>2, ExchangeList
<1>5. Ordered(order, set2(t, x, y), n, lower, upper, calls)
  BY <1>1, ExchangeOrdered
<1> QED BY <1>3, <1>4, <1>5, Exchanged

\* What the function says of two places of the part, and what it does not.
LEMMA Answer ==
  ASSUME NEW n, Under(n), NEW x \in Elems, NEW y \in Elems, NEW less \in sort_comp(x, y)
  PROVE  /\ less => Before(order, x, y)
         /\ ~less => Before(order, y, x)
         /\ Before(order, y, x) => ~less
<1>1. order \in Orders /\ order # Unreliable
  BY ListAssumption DEF Under
<1>2. less = (<<x, y>> \in order)
  BY <1>1 DEF sort_comp
<1>3. less <=> <<x, y>> \in order
  BY <1>2, Zenon
<1>4. <<x, y>> \in order => Before(order, x, y)
  BY <1>1, Total
<1>5. Before(order, y, x) <=> ~(<<x, y>> \in order)
  BY DEF Before
<1> QED BY <1>3, <1>4, <1>5

LEMMA BothEndsGood ==
  ASSUME NEW n, Under(n), BothEnds
  PROVE  Good(n)
<1>1. /\ n \in Nat /\ n <= Limit /\ n \in 0 .. Limit /\ lower \in Int /\ upper \in Int
         /\ 1 <= lower /\ upper <= n
      /\ lower < upper /\ table \in [Places -> Values] /\ ListOf(table, n)
      /\ Ordered(order, table, n, lower, upper, calls)
  BY Known DEF BothEnds
<1>2. table[lower] \in Elems /\ table[upper] \in Elems
  BY <1>1, Elements
<1>3. PICK less \in sort_comp(table[upper], table[lower]) :
        table' = IF less THEN set2(table, lower, upper) ELSE table
  BY DEF BothEnds
<1>4. /\ ListOf(table', n) /\ Ordered(order, table', n, lower, upper, calls)
      /\ Before(order, table'[lower], table'[upper])
  <2>1. CASE less
    <3>1. table' = set2(table, lower, upper)
      BY <1>3, <2>1
    <3>2. ListOf(table', n) /\ Ordered(order, table', n, lower, upper, calls)
          /\ table'[lower] = table[upper] /\ table'[upper] = table[lower]
      BY <1>1, <3>1, InsidePart
    <3>3. Before(order, table[upper], table[lower])
      BY <1>2, <2>1, Answer
    <3> QED BY <3>2, <3>3
  <2>2. CASE ~less
    <3>1. table' = table
      BY <1>3, <2>2
    <3>2. Before(order, table[lower], table[upper])
      BY <1>2, <2>2, Answer
    <3> QED BY <1>1, <3>1, <3>2
  <2> QED BY <2>1, <2>2
<1>5. CASE upper - lower = 1
  <2>1. InPlace(order, table', lower, upper)
    <3>1. \A p, q \in Int : lower <= p /\ p < q /\ q <= upper => p = lower /\ q = upper
      BY <1>1, <1>5
    <3> QED BY <1>4, <3>1 DEF InPlace
  <2> QED BY <1>4, <1>5, <2>1, ReturnsGood DEF BothEnds
<1>6. CASE upper - lower # 1
  <2>1. /\ at' = "middle" /\ lower' = lower /\ upper' = upper /\ calls' = calls
        /\ up' = (lower + upper) \div 2
    BY <1>6 DEF BothEnds, Goes
  <2>2. order' = order
    BY <2>1 DEF Under
  <2>3. Scanned'
    BY <1>4, <2>1, <2>2 DEF Scanned
  <2> QED BY <1>4, <2>1, <2>2, <2>3 DEF Good, Ranked
<1> QED BY <1>5, <1>6

\* Three elements in order, the middle one as the pivot.
LEMMA PivotGood ==
  ASSUME NEW n, Under(n), at \in {"middle", "third"},
         NEW t \in [Places -> Values], ListOf(t, n), Ordered(order, t, n, lower, upper, calls),
         Before(order, t[lower], t[up]), Before(order, t[up], t[upper]), PivotFrom(t)
  PROVE  Good(n)
<1>1. /\ n \in Nat /\ n <= Limit /\ n \in 0 .. Limit /\ lower \in Int /\ upper \in Int /\ up \in Int
      /\ 1 <= lower /\ upper <= n /\ order \in Orders
  BY Known
<1>2. lower + 2 <= upper /\ lower < up /\ up < upper
  <2>1. lower + 2 <= upper /\ up = (lower + upper) \div 2
    BY DEF Under, TypeOK, SortOK, ScanOK, Ranked, Scanned
  <2> QED BY <1>1, <2>1
<1>3. t[lower] \in Elems /\ t[up] \in Elems /\ t[upper] \in Elems
  BY <1>1, <1>2, Elements
<1>4. CASE upper - lower = 2
  <2>1. table' = t /\ Returns
    BY <1>4 DEF PivotFrom
  <2>2. InPlace(order, t, lower, upper)
    <3>1. Before(order, t[lower], t[upper])
      BY <1>1, <1>3, Transitive
    <3>2. \A p, q \in Int : lower <= p /\ p < q /\ q <= upper =>
            (p = lower /\ q = up) \/ (p = up /\ q = upper) \/ (p = lower /\ q = upper)
      BY <1>1, <1>2, <1>4
    <3> QED BY <3>1, <3>2 DEF InPlace
  <2> QED BY <2>1, <2>2, ReturnsGood
<1>5. CASE upper - lower # 2
  <2> DEFINE s == set2(t, up, upper - 1)
             m == upper - 1
  <2>1. /\ table' = s /\ pivot' = t[up] /\ up' = lower /\ down' = m
        /\ at' = "up" /\ lower' = lower /\ upper' = upper /\ calls' = calls
    BY <1>5 DEF PivotFrom, Goes
  <2>2. order' = order
    BY <2>1 DEF Under
  <2>3. m \in Int /\ lower <= m /\ m <= upper /\ lower + 2 <= m /\ upper = m + 1
    BY <1>1, <1>2, <1>5
  <2>4. /\ ListOf(s, n) /\ Ordered(order, s, n, lower, upper, calls)
        /\ s[up] = t[m] /\ s[m] = t[up]
        /\ \A k \in Int : lower <= k /\ k <= upper /\ k # up /\ k # m => s[k] = t[k]
    BY <1>1, <1>2, <2>3, InsidePart
  <2> HIDE DEF s, m
  <2>5. s[lower] = t[lower] /\ s[upper] = t[upper]
    BY <1>1, <1>2, <2>3, <2>4
  <2>6. NotGreater(order, s, lower, lower, t[up])
    BY <1>1, <2>5 DEF NotGreater
  <2>7. NotLess(order, s, m, upper, t[up])
    <3>1. Before(order, t[up], t[up])
      BY <1>1, <1>3, Reflexive
    <3>2. \A k \in Int : m <= k /\ k <= upper => k = m \/ k = upper
      BY <1>1, <2>3
    <3> QED BY <2>4, <2>5, <3>1, <3>2 DEF NotLess
  <2>8. Scanned'
    BY <1>1, <2>1, <2>2, <2>3, <2>4, <2>6, <2>7 DEF Scanned, m
  <2> QED BY <2>1, <2>2, <2>4, <2>8 DEF Good, Ranked
<1> QED BY <1>4, <1>5

LEMMA MiddleGood ==
  ASSUME NEW n, Under(n), Middle
  PROVE  Good(n)
<1>0. at = "middle"
  BY DEF Middle
<1>1. /\ n \in Nat /\ n <= Limit /\ n \in 0 .. Limit /\ lower \in Int /\ upper \in Int /\ up \in Int
      /\ 1 <= lower /\ upper <= n /\ order \in Orders /\ table \in [Places -> Values] /\ ListOf(table, n)
      /\ Ordered(order, table, n, lower, upper, calls)
  BY Known
<1>2. lower < up /\ up < upper /\ Before(order, table[lower], table[upper])
  <2>1. lower + 2 <= upper /\ up = (lower + upper) \div 2 /\ Before(order, table[lower], table[upper])
    BY <1>0 DEF Under, TypeOK, SortOK, ScanOK, Ranked, Scanned
  <2> QED BY <1>1, <2>1
<1>3. table[lower] \in Elems /\ table[up] \in Elems /\ table[upper] \in Elems
  BY <1>1, <1>2, Elements
<1>4. PICK less \in sort_comp(table[up], table[lower]) :
        IF less THEN PivotFrom(set2(table, up, lower)) ELSE Goes("third") /\ UNCHANGED <<table, scans>>
  BY DEF Middle
<1>5. CASE less
  <2> DEFINE s == set2(table, up, lower)
  <2>1. /\ s \in [Places -> Values] /\ ListOf(s, n) /\ Ordered(order, s, n, lower, upper, calls)
        /\ s[up] = table[lower] /\ s[lower] = table[up]
        /\ \A k \in Int : lower <= k /\ k <= upper /\ k # up /\ k # lower => s[k] = table[k]
    BY <1>1, <1>2, InsidePart
  <2>2. PivotFrom(s)
    BY <1>4, <1>5
  <2>3. Before(order, table[up], table[lower])
    BY <1>3, <1>5, Answer
  <2> HIDE DEF s
  <2>4. s[upper] = table[upper]
    BY <1>1, <1>2, <2>1
  <2> QED BY <1>0, <1>2, <2>1, <2>2, <2>3, <2>4, PivotGood
<1>6. CASE ~less
  <2>1. /\ at' = "third" /\ lower' = lower /\ upper' = upper /\ calls' = calls /\ table' = table
        /\ up' = up /\ down' = down /\ pivot' = pivot
    BY <1>4, <1>6 DEF Goes, scans
  <2>2. order' = order
    BY <2>1 DEF Under
  <2>3. Before(order, table[lower], table[up])
    BY <1>3, <1>6, Answer
  <2>4. Scanned'
    BY <1>0, <2>1, <2>2, <2>3 DEF Under, Ranked, Scanned
  <2> QED BY <1>1, <2>1, <2>2, <2>4 DEF Good, Ranked
<1> QED BY <1>5, <1>6

LEMMA ThirdGood ==
  ASSUME NEW n, Under(n), Third
  PROVE  Good(n)
<1>0. at = "third"
  BY DEF Third
<1>1. /\ n \in Nat /\ n <= Limit /\ n \in 0 .. Limit /\ lower \in Int /\ upper \in Int /\ up \in Int
      /\ 1 <= lower /\ upper <= n /\ order \in Orders /\ table \in [Places -> Values] /\ ListOf(table, n)
      /\ Ordered(order, table, n, lower, upper, calls)
  BY Known
<1>2. /\ lower < up /\ up < upper
      /\ Before(order, table[lower], table[upper]) /\ Before(order, table[lower], table[up])
  <2>1. /\ lower + 2 <= upper /\ up = (lower + upper) \div 2
        /\ Before(order, table[lower], table[upper]) /\ Before(order, table[lower], table[up])
    BY <1>0 DEF Under, TypeOK, SortOK, ScanOK, Ranked, Scanned
  <2> QED BY <1>1, <2>1
<1>3. table[lower] \in Elems /\ table[up] \in Elems /\ table[upper] \in Elems
  BY <1>1, <1>2, Elements
<1>4. PICK less \in sort_comp(table[upper], table[up]) :
        PivotFrom(IF less THEN set2(table, up, upper) ELSE table)
  BY DEF Third
<1>5. CASE less
  <2> DEFINE s == set2(table, up, upper)
  <2>1. /\ s \in [Places -> Values] /\ ListOf(s, n) /\ Ordered(order, s, n, lower, upper, calls)
        /\ s[up] = table[upper] /\ s[upper] = table[up]
        /\ \A k \in Int : lower <= k /\ k <= upper /\ k # up /\ k # upper => s[k] = table[k]
    BY <1>1, <1>2, InsidePart
  <2>2. PivotFrom(s)
    BY <1>4, <1>5
  <2>3. Before(order, table[upper], table[up])
    BY <1>3, <1>5, Answer
  <2> HIDE DEF s
  <2>4. s[lower] = table[lower]
    BY <1>1, <1>2, <2>1
  <2> QED BY <1>0, <1>2, <2>1, <2>2, <2>3, <2>4, PivotGood
<1>6. CASE ~less
  <2>1. PivotFrom(table)
    BY <1>4, <1>6
  <2>2. Before(order, table[up], table[upper])
    BY <1>3, <1>6, Answer
  <2> QED BY <1>0, <1>1, <1>2, <2>1, <2>2, PivotGood
<1> QED BY <1>5, <1>6

LEMMA Scanning ==
  ASSUME NEW n, Under(n), at \in {"up", "down"}
  PROVE  /\ n \in Nat /\ n <= Limit /\ n \in 0 .. Limit /\ lower \in Int /\ upper \in Int
            /\ up \in Int /\ down \in Int
         /\ 1 <= lower /\ upper <= n /\ order \in Orders /\ table \in [Places -> Values] /\ ListOf(table, n)
         /\ Ordered(order, table, n, lower, upper, calls) /\ calls \in Seq(Parts1)
         /\ lower + 2 < upper /\ lower <= down /\ down < upper
         /\ table[upper - 1] = pivot /\ pivot \in Elems
         /\ NotLess(order, table, down, upper, pivot)
<1>1. /\ n \in Nat /\ n <= Limit /\ n \in 0 .. Limit /\ lower \in Int /\ upper \in Int
         /\ up \in Int /\ down \in Int
      /\ 1 <= lower /\ upper <= n /\ order \in Orders /\ table \in [Places -> Values] /\ ListOf(table, n)
      /\ Ordered(order, table, n, lower, upper, calls) /\ calls \in Seq(Parts1)
  BY Known
<1>2. lower + 2 < upper /\ lower <= down /\ down < upper
  BY DEF Under, TypeOK, SortOK, ScanOK
<1>3. table[upper - 1] = pivot /\ NotLess(order, table, down, upper, pivot)
  BY DEF Under, Ranked, Scanned
<1>4. upper - 1 \in Int /\ 1 <= upper - 1 /\ upper - 1 <= n
  BY <1>1, <1>2
<1>5. pivot \in Elems
  BY <1>1, <1>3, <1>4, Elements
<1> QED BY <1>1, <1>2, <1>3, <1>5

\* Before the scan from below is past the pivot, it has stopped.
LEMMA UpInside ==
  ASSUME NEW n, Under(n), at = "up"
  PROVE  /\ lower <= up /\ up <= down /\ up + 1 < upper
         /\ (up = down => lower < up /\ down + 2 <= upper)
         /\ NotGreater(order, table, lower, up, pivot)
<1>1. lower <= up
  BY DEF Under, TypeOK, SortOK, ScanOK
<1>2. up <= down /\ (up = down => lower < up /\ down + 2 <= upper) /\ NotGreater(order, table, lower, up, pivot)
  BY DEF Under, Ranked, Scanned
<1>3. up \in Int /\ down \in Int /\ upper \in Int /\ down < upper
  BY Scanning
<1> QED BY <1>1, <1>2, <1>3

LEMMA UpGood ==
  ASSUME NEW n, Under(n), Up
  PROVE  Good(n)
<1>0. at = "up" /\ table' = table
  BY DEF Up
<1>1. /\ n \in Nat /\ n <= Limit /\ n \in 0 .. Limit /\ lower \in Int /\ upper \in Int
         /\ up \in Int /\ down \in Int
      /\ 1 <= lower /\ upper <= n /\ order \in Orders /\ table \in [Places -> Values] /\ ListOf(table, n)
      /\ Ordered(order, table, n, lower, upper, calls)
      /\ lower + 2 < upper /\ lower <= down /\ down < upper
      /\ table[upper - 1] = pivot /\ pivot \in Elems
      /\ NotLess(order, table, down, upper, pivot)
  BY <1>0, Scanning
<1>2. /\ lower <= up /\ up <= down /\ up + 1 < upper
      /\ (up = down => lower < up /\ down + 2 <= upper)
      /\ NotGreater(order, table, lower, up, pivot)
  BY <1>0, UpInside
<1> DEFINE m == up + 1
<1>3. m \in Int /\ m = up + 1 /\ up < m /\ lower < m /\ m < upper
  BY <1>1, <1>2
<1>4. PICK less \in sort_comp(table[m], pivot) :
        IF less /\ m > upper THEN Fails
        ELSE Goes(IF less THEN "up" ELSE "down") /\ up' = m /\ UNCHANGED <<down, pivot>>
  BY DEF Up
<1> HIDE DEF m
<1>5. table[m] \in Elems
  BY <1>1, <1>3, Elements
<1>6. /\ lower' = lower /\ upper' = upper /\ calls' = calls /\ up' = m /\ down' = down /\ pivot' = pivot
      /\ at' = IF less THEN "up" ELSE "down"
  BY <1>1, <1>3, <1>4 DEF Goes
<1>7. order' = order
  BY <1>6 DEF Under
<1>8. CASE less
  <2>1. at' = "up"
    BY <1>6, <1>8
  <2>2. Before(order, table[m], pivot)
    BY <1>1, <1>5, <1>8, Answer
  <2>3. ~Before(order, pivot, table[m])
    BY <1>1, <1>5, <1>8, Answer
  <2>4. ~(down <= m)
    BY <1>1, <1>3, <2>3 DEF NotLess
  <2>5. NotGreater(order, table, lower, m, pivot)
    BY <1>1, <1>2, <1>3, <2>2 DEF NotGreater
  <2>6. Scanned'
    BY <1>0, <1>1, <1>3, <1>6, <1>7, <2>1, <2>4, <2>5 DEF Scanned
  <2> QED BY <1>0, <1>1, <1>6, <1>7, <2>1, <2>6 DEF Good, Ranked
<1>9. CASE ~less
  <2>1. at' = "down"
    BY <1>6, <1>9
  <2>2. Before(order, pivot, table[m])
    BY <1>1, <1>5, <1>9, Answer
  <2>3. m - 1 = up
    BY <1>1, <1>3
  <2>4. lower < down /\ m <= down + 1
    BY <1>1, <1>2, <1>3
  <2>5. Scanned'
    BY <1>0, <1>1, <1>2, <1>3, <1>6, <1>7, <2>1, <2>2, <2>3, <2>4 DEF Scanned
  <2> QED BY <1>0, <1>1, <1>6, <1>7, <2>1, <2>5 DEF Good, Ranked
<1> QED BY <1>8, <1>9

\* The scan from above stops at the end of what the other has passed.
LEMMA DownInside ==
  ASSUME NEW n, Under(n), at = "down"
  PROVE  /\ lower < up /\ up < upper /\ lower < down /\ up <= down + 1
         /\ Before(order, pivot, table[up])
         /\ NotGreater(order, table, lower, up - 1, pivot)
  BY DEF Under, TypeOK, SortOK, ScanOK, Ranked, Scanned

LEMMA DownGood ==
  ASSUME NEW n, Under(n), Down
  PROVE  Good(n)
<1>0. at = "down"
  BY DEF Down
<1>1. /\ n \in Nat /\ n <= Limit /\ n \in 0 .. Limit /\ lower \in Int /\ upper \in Int
         /\ up \in Int /\ down \in Int
      /\ 1 <= lower /\ upper <= n /\ order \in Orders /\ table \in [Places -> Values] /\ ListOf(table, n)
      /\ Ordered(order, table, n, lower, upper, calls) /\ calls \in Seq(Parts1)
      /\ lower + 2 < upper /\ lower <= down /\ down < upper
      /\ table[upper - 1] = pivot /\ pivot \in Elems
      /\ NotLess(order, table, down, upper, pivot)
  BY <1>0, Scanning
<1>2. /\ lower < up /\ up < upper /\ lower < down /\ up <= down + 1
      /\ Before(order, pivot, table[up]) /\ NotGreater(order, table, lower, up - 1, pivot)
  BY <1>0, DownInside
<1> DEFINE m == down - 1
           v == upper - 1
<1>3. m \in Int /\ m + 1 = down /\ m < down /\ lower <= m /\ m < upper /\ v \in Int
      /\ v + 1 = upper /\ m < v /\ lower <= v /\ up <= v
  BY <1>1, <1>2
<1>4. PICK less \in sort_comp(pivot, table[m]) :
        IF less /\ m < lower THEN Fails /\ UNCHANGED table
        ELSE IF less THEN Goes("down") /\ down' = m /\ UNCHANGED <<table, up, pivot>>
        ELSE IF m < up THEN table' = set2(table, v, up) /\ Halves
        ELSE table' = set2(table, up, m) /\ Goes("up") /\ down' = m /\ UNCHANGED <<up, pivot>>
  BY DEF Down
<1>5. table[v] = pivot
  BY <1>1
<1> HIDE DEF m, v
<1>6. table[m] \in Elems
  BY <1>1, <1>3, Elements
<1>7. CASE less
  <2>1. /\ at' = "down" /\ lower' = lower /\ upper' = upper /\ calls' = calls /\ up' = up
           /\ down' = m /\ pivot' = pivot
        /\ table' = table
    BY <1>1, <1>3, <1>4, <1>7 DEF Goes
  <2>2. order' = order
    BY <2>1 DEF Under
  <2>3. Before(order, pivot, table[m]) /\ ~Before(order, table[m], pivot)
    BY <1>1, <1>6, <1>7, Answer
  <2>4. ~(m <= up - 1)
    BY <1>1, <1>3, <2>3, <1>2 DEF NotGreater
  <2>5. lower < m /\ up <= m + 1
    BY <1>1, <1>2, <1>3, <2>4
  <2>6. NotLess(order, table, m, upper, pivot)
    <3> SUFFICES ASSUME NEW k \in Int, m <= k, k <= upper PROVE Before(order, pivot, table[k])
      BY DEF NotLess
    <3>1. k = m \/ down <= k
      BY <1>1, <1>3
    <3> QED BY <1>1, <2>3, <3>1 DEF NotLess
  <2>7. Scanned'
    BY <1>0, <1>1, <1>2, <2>1, <2>2, <2>5, <2>6 DEF Scanned
  <2> QED BY <1>1, <2>1, <2>2, <2>7 DEF Good, Ranked
<1>8. CASE ~less /\ m < up
  <2> DEFINE s == set2(table, v, up)
  <2>1. table' = s /\ Halves
    BY <1>4, <1>8
  <2>2. /\ s \in [Places -> Values] /\ ListOf(s, n) /\ Ordered(order, s, n, lower, upper, calls)
        /\ s[v] = table[up] /\ s[up] = table[v]
        /\ \A k \in Int : lower <= k /\ k <= upper /\ k # v /\ k # up => s[k] = table[k]
    BY <1>1, <1>2, <1>3, InsidePart
  <2> HIDE DEF s
  <2>3. s[up] = pivot
    BY <1>5, <2>2
  <2>4. NotGreater(order, s, lower, up - 1, s[up])
    <3> SUFFICES ASSUME NEW k \in Int, lower <= k, k <= up - 1 PROVE Before(order, s[k], pivot)
      BY <2>3 DEF NotGreater
    <3>1. s[k] = table[k]
      BY <1>1, <1>2, <1>3, <2>2
    <3> QED BY <1>2, <3>1 DEF NotGreater
  <2>5. NotLess(order, s, up + 1, upper, s[up])
    <3> SUFFICES ASSUME NEW k \in Int, up + 1 <= k, k <= upper PROVE Before(order, pivot, s[k])
      BY <2>3 DEF NotLess
    <3>1. CASE k = v
      BY <1>2, <2>2, <3>1
    <3>2. CASE k # v
      <4>1. s[k] = table[k]
        BY <1>1, <1>2, <2>2, <3>2
      <4>2. down <= k
        BY <1>1, <1>3, <1>8
      <4> QED BY <1>1, <4>1, <4>2 DEF NotLess
    <3> QED BY <3>1, <3>2
  <2>6. lower <= up /\ up <= upper
    BY <1>1, <1>2
  <2>7. /\ Ordered(order, s, n, lower, up - 1, <<<<up + 1, upper>>>> \o calls)
        /\ Ordered(order, s, n, up + 1, upper, <<<<lower, up - 1>>>> \o calls)
    BY <1>1, <2>2, <2>4, <2>5, <2>6, Halved
  <2>8. at' = "ends"
    BY <2>1 DEF Halves
  <2>9. order' = order
    BY <2>8 DEF Under
  <2>10. Ordered(order, table', n, lower', upper', calls')
    BY <2>1, <2>7 DEF Halves
  <2>11. Scanned'
    BY <2>8 DEF Scanned
  <2> QED BY <2>1, <2>2, <2>8, <2>9, <2>10, <2>11 DEF Good, Ranked
<1>9. CASE ~less /\ ~(m < up)
  <2> DEFINE s == set2(table, up, m)
  <2>1. /\ at' = "up" /\ lower' = lower /\ upper' = upper /\ calls' = calls /\ up' = up
           /\ down' = m /\ pivot' = pivot
        /\ table' = s
    BY <1>4, <1>9 DEF Goes
  <2>2. order' = order
    BY <2>1 DEF Under
  <2>3. /\ s \in [Places -> Values] /\ ListOf(s, n) /\ Ordered(order, s, n, lower, upper, calls)
        /\ s[up] = table[m] /\ s[m] = table[up]
        /\ \A k \in Int : lower <= k /\ k <= upper /\ k # up /\ k # m => s[k] = table[k]
    BY <1>1, <1>2, <1>3, InsidePart
  <2> HIDE DEF s
  <2>4. up <= m /\ m + 2 <= upper
    BY <1>1, <1>3, <1>9
  <2>5. Before(order, table[m], pivot)
    BY <1>1, <1>6, <1>9, Answer
  <2>6. NotGreater(order, s, lower, up, pivot)
    <3> SUFFICES ASSUME NEW k \in Int, lower <= k, k <= up PROVE Before(order, s[k], pivot)
      BY DEF NotGreater
    <3>1. CASE k = up
      BY <2>3, <2>5, <3>1
    <3>2. CASE k # up
      <4>1. s[k] = table[k] /\ k <= up - 1
        BY <1>1, <1>2, <2>3, <2>4, <3>2
      <4> QED BY <1>2, <4>1 DEF NotGreater
    <3> QED BY <3>1, <3>2
  <2>7. NotLess(order, s, m, upper, pivot)
    <3> SUFFICES ASSUME NEW k \in Int, m <= k, k <= upper PROVE Before(order, pivot, s[k])
      BY DEF NotLess
    <3>1. CASE k = m
      BY <1>2, <2>3, <3>1
    <3>2. CASE k # m
      <4>1. s[k] = table[k] /\ down <= k
        BY <1>1, <1>3, <2>3, <2>4, <3>2
      <4> QED BY <1>1, <4>1 DEF NotLess
    <3> QED BY <3>1, <3>2
  <2>8. s[v] = pivot
    BY <1>1, <1>3, <1>5, <2>3, <2>4
  <2>9. Scanned'
    BY <1>1, <1>2, <2>1, <2>2, <2>4, <2>6, <2>7, <2>8, <1>3 DEF Scanned, v
  <2> QED BY <2>1, <2>2, <2>3, <2>9 DEF Good, Ranked
<1> QED BY <1>7, <1>8, <1>9

LEMMA SortingGood ==
  ASSUME NEW n, Under(n), Sorting
  PROVE  Good(n)
<1>1. ~Raises
  BY ListAssumption DEF Raises, Under
<1> QED BY <1>1, DoneGood, BothEndsGood, MiddleGood, ThirdGood, UpGood, DownGood DEF Sorting

-----------------------------------------------------------------------------
(* The invariant *)

LEMMA Initially ==
  ASSUME ListInit
  PROVE  IInv
<1>1. Limit \in Nat
  BY ListAssumption
<1>2. table \in [Places -> Values]
  <2>1. PICK s \in Lists : table = [k \in Places |-> IF k \in DOMAIN s THEN s[k] ELSE NoValue]
    BY DEF ListInit
  <2>2. s \in Seq(Elems)
    BY ListAssumption
  <2>3. \A k \in DOMAIN s : s[k] \in Elems
    BY <2>2
  <2> QED BY <2>1, <2>3 DEF Values
<1>3. /\ at = "idle" /\ order = Unreliable /\ before = Blank /\ calls = <<>>
      /\ lower = 1 /\ upper = 0 /\ up = 0 /\ down = 0 /\ pivot = NoValue
  BY DEF ListInit
<1>4. <<>> \in Seq(Parts1) /\ DOMAIN <<>> = {}
  OBVIOUS
<1>5. SortOK
  BY <1>1, <1>3, <1>4 DEF SortOK, ScanOK, PartOK, Steps, Values
<1>6. before \in [Places -> Values]
  BY <1>3 DEF Blank, Values
<1> QED BY <1>2, <1>3, <1>5, <1>6 DEF IInv, TypeOK, Kept, Reliable

LEMMA Editing ==
  ASSUME IInv, Idle, Edit
  PROVE  IInv'
<1>1. Limit \in Nat /\ table \in [Places -> Values] /\ at = "idle"
  BY ListAssumption DEF IInv, TypeOK, Idle
<1> DEFINE n == aux_getn(table)
<1>2. n \in 0 .. Limit
  BY LengthOfWhole DEF Idle
<1>3. /\ at' = "idle" /\ order' = order /\ before' = before /\ lower' = lower /\ upper' = upper
      /\ calls' = calls /\ up' = up /\ down' = down /\ pivot' = pivot
  BY <1>1 DEF Edit, scans
<1> HIDE DEF n
<1>4. table' \in [Places -> Values]
  <2>1. ASSUME NEW v \in Elems, NEW pos \in Spots, n < Limit, tinsert(pos, v)
        PROVE  table' \in [Places -> Values]
    <3>1. \A k \in Places : pos < k => table[k - 1] \in Values
      <4>1. \A k \in Places : pos < k => k - 1 \in Places
        BY <1>1 DEF Places, Spots
      <4> QED BY <1>1, <4>1
    <3> DEFINE e == IF pos > n + 1 THEN pos ELSE n + 1
    <3>2. table' = [k \in Places |-> IF k = pos THEN v
                                   ELSE IF pos < k /\ k <= e THEN table[k - 1] ELSE table[k]]
      BY <2>1 DEF tinsert, n
    <3> HIDE DEF e
    <3> QED BY <1>1, <3>1, <3>2 DEF Values
  <2>2. ASSUME NEW pos \in Places, tremove(pos)
        PROVE  table' \in [Places -> Values]
    <3>1. CASE pos \in 1 .. n
      <4>1. table' = [k \in Places |-> IF k = n THEN NoValue
                                      ELSE IF pos <= k /\ k < n THEN table[k + 1] ELSE table[k]]
        BY <2>2, <3>1 DEF tremove, n
      <4>2. \A k \in Places : k < n => k + 1 \in Places
        BY <1>1, <1>2 DEF Places
      <4> QED BY <1>1, <4>1, <4>2 DEF Values
    <3>2. CASE pos \notin 1 .. n
      BY <1>1, <2>2, <3>2 DEF tremove, n
    <3> QED BY <3>1, <3>2
  <2>3. ASSUME NEW first, NEW last, tconcat(first, last)
        PROVE  table' \in [Places -> Values]
    BY <1>1, <2>3 DEF tconcat
  <2> QED BY <2>1, <2>2, <2>3 DEF Edit, n
<1>5. SortOK'
  BY <1>1, <1>3 DEF IInv, TypeOK, SortOK, ScanOK
<1> QED BY <1>3, <1>4, <1>5 DEF IInv, TypeOK, Kept, Reliable

LEMMA Beginning ==
  ASSUME IInv, Idle, NEW r \in Orders \union {Unreliable}, sort(r)
  PROVE  IInv'
<1>1. Limit \in Nat /\ table \in [Places -> Values] /\ at = "idle" /\ Whole(table)
  BY ListAssumption DEF IInv, TypeOK, Idle
<1>2. PICK n \in 0 .. Limit : n = aux_getn(table)
  BY <1>1, LengthOfWhole
<1>3. ListOf(table, n)
  BY <1>1, <1>2, LengthOfWhole
<1>4. /\ at' = "ends" /\ order' = r /\ before' = table /\ lower' = 1 /\ upper' = n /\ calls' = <<>>
      /\ table' = table /\ up' = up /\ down' = down /\ pivot' = pivot
  BY <1>2 DEF sort, scans
<1>5. <<>> \in Seq(Parts1) /\ DOMAIN <<>> = {}
  OBVIOUS
<1>6. SortOK'
  BY <1>1, <1>4, <1>5 DEF IInv, TypeOK, SortOK, ScanOK, PartOK, Steps
<1>7. Kept'
  BY <1>1, <1>4 DEF Kept, Whole
<1>8. Reliable'
  <2>1. Ordered(order', table', n, 1, n, <<>>)
    BY <1>1, <1>5 DEF Ordered, Inside1, Disjoint, Apart, Waits, Sorted
  <2>2. Ranked(n)'
    BY <1>3, <1>4, <2>1 DEF Ranked, Scanned
  <2> QED BY <1>2, <1>4, <2>2 DEF Reliable
<1> QED BY <1>1, <1>4, <1>6, <1>7, <1>8 DEF IInv, TypeOK

LEMMA SortGoesOn ==
  ASSUME IInv, Sorting
  PROVE  IInv'
<1>1. /\ TypeOK /\ at # "idle" /\ Shuffled(table, table') /\ SortOK'
  BY SortingOK DEF IInv, Sorting, Moved
<1>2. IF at' = "idle" THEN order' = Unreliable /\ before' = Blank ELSE order' = order /\ before' = before
  BY DEF Sorting
<1>3. TypeOK'
  <2>1. table' \in [Places -> Values]
    BY <1>1 DEF Shuffled
  <2>2. before' \in [Places -> Values] /\ order' \in Orders \union {Unreliable}
    BY <1>1, <1>2 DEF TypeOK, Blank, Values
  <2> QED BY <1>1, <2>1, <2>2 DEF TypeOK
<1>4. Kept'
  BY <1>1, <1>2 DEF IInv, Kept, Shuffled
<1>5. Reliable'
  <2> SUFFICES ASSUME at' # "idle", order' # Unreliable PROVE Ranked(aux_getn(before))'
    BY DEF Reliable
  <2>1. order' = order /\ before' = before /\ order \in Orders /\ Whole(before)
    BY <1>1, <1>2 DEF IInv, TypeOK, Kept
  <2>2. PICK n \in 0 .. Limit : n = aux_getn(before)
    BY <2>1, LengthOfWhole
  <2>3. Under(n)
    BY <1>1, <2>1, <2>2 DEF IInv, Reliable, Under
  <2>4. Ranked(n)'
    BY <2>3, SortingGood DEF Good
  <2> QED BY <2>1, <2>2, <2>4
<1> QED BY <1>3, <1>4, <1>5 DEF IInv

LEMMA Standing ==
  ASSUME IInv, UNCHANGED listVars
  PROVE  IInv'
  BY DEF IInv, TypeOK, SortOK, ScanOK, Kept, Reliable, Ranked, Scanned, listVars

LEMMA Inductive == ListSpec => []IInv
<1>1. ListInit => IInv
  BY Initially
<1>2. IInv /\ [ListNext]_listVars => IInv'
  <2> SUFFICES ASSUME IInv, [ListNext]_listVars PROVE IInv'
    OBVIOUS
  <2>1. CASE Operate
    BY <2>1, Editing, Beginning DEF Operate
  <2>2. CASE Sorting
    BY <2>2, SortGoesOn
  <2>3. CASE UNCHANGED listVars
    BY <2>3, Standing
  <2> QED BY <2>1, <2>2, <2>3 DEF ListNext
<1> QED BY <1>1, <1>2, PTL DEF ListSpec

\* The variables keep to their types, whatever the functions answer: no scan leaves
\* the places that there are by more than the one comparison that ends it
\* (ltablib.c:238).
THEOREM TypeCorrect == ListSpec => []TypeOK
<1>1. IInv => TypeOK
  BY DEF IInv
<1> QED BY <1>1, Inductive, PTL

\* With a function that is an order, sort compares only places of the part it sorts,
\* and what the loop of auxsort says of itself is so: nothing in l .. i is greater
\* than the pivot, nothing in j .. u less (ltablib.c:231-245).
Between1 == order # Unreliable =>
  /\ at = "up"   => lower <= up /\ up + 1 <= upper /\ NotGreater(order, table, lower, up, pivot)
  /\ at = "down" => lower <= down - 1 /\ down <= upper /\ NotGreater(order, table, lower, up - 1, pivot)
  /\ at \in {"up", "down"} => NotLess(order, table, down, upper, pivot)
THEOREM ScansStayInside == ListSpec => []Between1
<1>1. IInv => Between1
  <2> SUFFICES ASSUME IInv, order # Unreliable PROVE Between1
    BY DEF Between1
  <2>1. CASE at \in {"up", "down"}
    <3>1. /\ lower \in Int /\ upper \in Int /\ up \in Int /\ down \in Int
          /\ lower <= down /\ down < upper /\ (at = "up" => lower <= up)
      BY <2>1 DEF IInv, TypeOK, SortOK, ScanOK
    <3>2. Scanned
      BY <2>1 DEF IInv, Reliable, Ranked
    <3> QED BY <2>1, <3>1, <3>2 DEF Between1, Scanned
  <2>2. CASE at \notin {"up", "down"}
    BY <2>2 DEF Between1
  <2> QED BY <2>1, <2>2
<1> QED BY <1>1, Inductive, PTL

-----------------------------------------------------------------------------
(* The contract *)

Seen2(t) == [k \in 1 .. Limit + 1 |-> t[k]]

LEMMA LengthIs ==
  ASSUME NEW t, NEW n \in 0 .. Limit, ListOf(t, n)
  PROVE  Cardinality({k \in 1 .. Limit + 1 : Seen2(t)[k] # NoValue}) = n
<1>1. Limit \in Nat /\ n \in Nat
  BY ListAssumption
<1>2. \A k \in 1 .. Limit + 1 : Seen2(t)[k] = t[k]
  BY DEF Seen2
<1>3. \A k \in 1 .. Limit + 1 : t[k] # NoValue <=> k \in 1 .. n
  BY <1>1 DEF ListOf, Places
<1>4. {k \in 1 .. Limit + 1 : Seen2(t)[k] # NoValue} = 1 .. n
  BY <1>1, <1>2, <1>3
<1>5. Cardinality(1 .. n) = n
  BY <1>1, FS_Interval
<1> QED BY <1>4, <1>5

LEMMA MapsInit == ListInit => Contract!Init
<1> SUFFICES ASSUME ListInit PROVE Contract!Init
  OBVIOUS
<1>1. at = "idle" /\ result = <<>>
  BY DEF ListInit
<1>2. PICK s \in Lists : table = [k \in Places |-> IF k \in DOMAIN s THEN s[k] ELSE NoValue]
  BY DEF ListInit
<1>3. Limit \in Nat /\ s \in Seq(Elems) /\ Len(s) <= Limit /\ Len(s) \in Nat /\ DOMAIN s = 1 .. Len(s)
  BY ListAssumption
<1> DEFINE z == [k \in 1 .. (Limit + 1) - Len(s) |-> NoValue]
           m == Len(s)
<1>4. z \in Seq({NoValue}) /\ Len(z) = Limit + 1 - m
  BY <1>3
<1>5. s \o z = [k \in 1 .. Limit + 1 |-> IF k <= m THEN s[k] ELSE z[k - m]]
  BY <1>3, <1>4
<1>6. Seen2(table) = s \o z
  <2>1. \A k \in 1 .. Limit + 1 : table[k] = IF k <= m THEN s[k] ELSE NoValue
    BY <1>2, <1>3 DEF Places
  <2>2. \A k \in 1 .. Limit + 1 : ~(k <= m) => z[k - m] = NoValue
    BY <1>3
  <2> HIDE DEF z, m
  <2> QED BY <1>5, <2>1, <2>2 DEF Seen2
<1>7. [k \in 1 .. Limit + 1 |-> Seen1[k]] = Contract!Padded(s)
  <2>1. [k \in 1 .. Limit + 1 |-> Seen1[k]] = Seen2(table)
    BY <1>1 DEF Seen1, Seen2
  <2>2. Contract!Padded(s) = s \o z
    BY DEF Contract!Padded
  <2> QED BY <1>6, <2>1, <2>2
<1> QED BY <1>1, <1>7 DEF Contract!Init

LEMMA PaddedIs ==
  ASSUME NEW s \in Seq(Values), Len(s) <= Limit + 1
  PROVE  Contract!Padded(s) = [k \in 1 .. Limit + 1 |-> IF k <= Len(s) THEN s[k] ELSE NoValue]
<1> DEFINE m == Len(s)
           z == [k \in 1 .. (Limit + 1) - m |-> NoValue]
<1>1. Limit \in Nat /\ m \in Nat /\ m <= Limit + 1
  BY ListAssumption
<1>2. z \in Seq({NoValue}) /\ Len(z) = (Limit + 1) - m
  BY <1>1
<1>3. s \o z = [k \in 1 .. Limit + 1 |-> IF k <= m THEN s[k] ELSE z[k - m]]
  BY <1>1, <1>2
<1>4. \A k \in 1 .. Limit + 1 : ~(k <= m) => z[k - m] = NoValue
  BY <1>1
<1>5. Contract!Padded(s) = s \o z
  BY DEF Contract!Padded
<1> HIDE DEF z, m
<1>6. s \o z = [k \in 1 .. Limit + 1 |-> IF k <= m THEN s[k] ELSE NoValue]
  BY <1>3, <1>4
<1> QED BY <1>5, <1>6 DEF m

\* What a list is after an element was put in at pos, or taken out.
LEMMA Spliced ==
  ASSUME NEW L \in [1 .. Limit + 1 -> Values], NEW n \in 0 .. Limit, NEW pos \in 1 .. n, NEW v \in Values
  PROVE  LET s == SubSeq(L, 1, pos - 1) \o <<v>> \o SubSeq(L, pos, n)
         IN  /\ s \in Seq(Values) /\ Len(s) = n + 1
             /\ \A k \in 1 .. n + 1 : s[k] = IF k < pos THEN L[k] ELSE IF k = pos THEN v ELSE L[k - 1]
<1> DEFINE a == SubSeq(L, 1, pos - 1)
           b == SubSeq(L, pos, n)
           c == a \o <<v>>
<1>1. Limit \in Nat /\ n \in Nat /\ n <= Limit /\ pos \in Int /\ 1 <= pos /\ pos <= n
      /\ L \in Seq(Values) /\ Len(L) = Limit + 1
  BY ListAssumption
<1>2. a \in Seq(Values) /\ Len(a) = pos - 1 /\ \A k \in 1 .. pos - 1 : a[k] = L[k]
  BY <1>1
<1>3. b \in Seq(Values) /\ Len(b) = (n - pos) + 1 /\ \A k \in 1 .. (n - pos) + 1 : b[k] = L[(pos + k) - 1]
  BY <1>1
<1> HIDE DEF a, b
<1>4. c \in Seq(Values) /\ Len(c) = pos /\ c[pos] = v /\ \A k \in 1 .. pos - 1 : c[k] = L[k]
  BY <1>1, <1>2
<1> HIDE DEF c
<1> DEFINE s == c \o b
<1>5. s \in Seq(Values) /\ Len(s) = n + 1
  <2>1. b \in Seq(Values) /\ c \in Seq(Values)
    BY <1>3, <1>4
  <2>2. s \in Seq(Values) /\ Len(s) = Len(c) + Len(b)
    BY <2>1
  <2>3. Len(s) = pos + ((n - pos) + 1)
    BY <1>3, <1>4, <2>2
  <2> QED BY <1>1, <2>2, <2>3
<1>6. \A k \in 1 .. n + 1 : s[k] = IF k <= pos THEN c[k] ELSE b[k - pos]
  BY <1>1, <1>3, <1>4
<1> HIDE DEF s
<1>7. \A k \in 1 .. n + 1 : s[k] = IF k < pos THEN L[k] ELSE IF k = pos THEN v ELSE L[k - 1]
  <2> SUFFICES ASSUME NEW k \in 1 .. n + 1
               PROVE s[k] = IF k < pos THEN L[k] ELSE IF k = pos THEN v ELSE L[k - 1]
    OBVIOUS
  <2>1. CASE k <= pos
    BY <1>1, <1>4, <1>6, <2>1
  <2>2. CASE ~(k <= pos)
    <3>1. k - pos \in 1 .. (n - pos) + 1 /\ (pos + (k - pos)) - 1 = k - 1
      BY <1>1, <2>2
    <3> QED BY <1>1, <1>3, <1>6, <2>2, <3>1
  <2> QED BY <2>1, <2>2
<1> QED BY <1>5, <1>7 DEF s, c, a, b

LEMMA Removed ==
  ASSUME NEW L \in [1 .. Limit + 1 -> Values], NEW n \in 0 .. Limit, NEW pos \in 1 .. n
  PROVE  LET s == SubSeq(L, 1, pos - 1) \o SubSeq(L, pos + 1, n)
         IN  /\ s \in Seq(Values) /\ Len(s) = n - 1
             /\ \A k \in 1 .. n - 1 : s[k] = IF k < pos THEN L[k] ELSE L[k + 1]
<1> DEFINE a == SubSeq(L, 1, pos - 1)
           b == SubSeq(L, pos + 1, n)
<1>1. Limit \in Nat /\ n \in Nat /\ n <= Limit /\ pos \in Int /\ 1 <= pos /\ pos <= n
      /\ L \in Seq(Values) /\ Len(L) = Limit + 1
  BY ListAssumption
<1>2. a \in Seq(Values) /\ Len(a) = pos - 1 /\ \A k \in 1 .. pos - 1 : a[k] = L[k]
  BY <1>1
<1>3. b \in Seq(Values) /\ Len(b) = n - pos /\ \A k \in 1 .. n - pos : b[k] = L[pos + k]
  BY <1>1
<1> HIDE DEF a, b
<1> DEFINE s == a \o b
<1>5. s \in Seq(Values) /\ Len(s) = n - 1
  <2>1. b \in Seq(Values) /\ a \in Seq(Values)
    BY <1>2, <1>3
  <2>2. s \in Seq(Values) /\ Len(s) = Len(a) + Len(b)
    BY <2>1
  <2>3. Len(s) = (pos - 1) + (n - pos)
    BY <1>2, <1>3, <2>2
  <2> QED BY <1>1, <2>2, <2>3
<1>6. \A k \in 1 .. n - 1 : s[k] = IF k <= pos - 1 THEN a[k] ELSE b[k - (pos - 1)]
  BY <1>1, <1>2, <1>3
<1> HIDE DEF s
<1>7. \A k \in 1 .. n - 1 : s[k] = IF k < pos THEN L[k] ELSE L[k + 1]
  <2> SUFFICES ASSUME NEW k \in 1 .. n - 1 PROVE s[k] = IF k < pos THEN L[k] ELSE L[k + 1]
    OBVIOUS
  <2>1. CASE k < pos
    BY <1>1, <1>2, <1>6, <2>1
  <2>2. CASE ~(k < pos)
    <3>1. k - (pos - 1) \in 1 .. n - pos /\ pos + (k - (pos - 1)) = k + 1 /\ ~(k <= pos - 1)
      BY <1>1, <2>2
    <3> QED BY <1>1, <1>3, <1>6, <2>2, <3>1
  <2> QED BY <2>1, <2>2
<1> QED BY <1>5, <1>7 DEF s, a, b

LEMMA HostSees ==
  ASSUME IInv
  PROVE  /\ at = "idle" => [k \in 1 .. Limit + 1 |-> Seen1[k]] = Seen2(table)
         /\ at # "idle" => [k \in 1 .. Limit + 1 |-> Seen1[k]] = Seen2(before)
         /\ at' = "idle" => [k \in 1 .. Limit + 1 |-> Seen1[k]]' = Seen2(table')
         /\ at' # "idle" => [k \in 1 .. Limit + 1 |-> Seen1[k]]' = Seen2(before')
         /\ Seen2(table) \in [1 .. Limit + 1 -> Values]
<1>1. 1 .. Limit + 1 \subseteq Places /\ table \in [Places -> Values]
  BY ListAssumption DEF Places, IInv, TypeOK
<1> QED BY <1>1 DEF Seen1, Seen2

LEMMA HostLength ==
  ASSUME NEW n \in 0 .. Limit, IInv,
         (at = "idle" => ListOf(table, n)), (at # "idle" => ListOf(before, n))
  PROVE  Contract!Length = n
<1> DEFINE L == [k \in 1 .. Limit + 1 |-> Seen1[k]]
<1>1. Contract!Length = Cardinality({k \in 1 .. Limit + 1 : L[k] # NoValue})
  BY DEF Contract!Length, Contract!Cardinality, Cardinality
<1>2. CASE at = "idle"
  <2>1. L = Seen2(table)
    BY <1>2, HostSees
  <2> HIDE DEF L
  <2> QED BY <1>1, <1>2, <2>1, LengthIs
<1>3. CASE at # "idle"
  <2>1. L = Seen2(before)
    BY <1>3, HostSees
  <2> HIDE DEF L
  <2> QED BY <1>1, <1>3, <2>1, LengthIs
<1> QED BY <1>2, <1>3

LEMMA InsertMaps ==
  ASSUME IInv, Idle, NEW v \in Elems, NEW pos \in Spots, aux_getn(table) < Limit, tinsert(pos, v), at' = "idle"
  PROVE  Contract!Insert(pos, v)
<1>1. Limit \in Nat /\ table \in [Places -> Values] /\ at = "idle" /\ pos \in 1 .. Limit /\ v \in Values
  BY ListAssumption DEF IInv, TypeOK, Idle, Spots, Values
<1>2. PICK n \in 0 .. Limit : n = aux_getn(table)
  BY LengthOfWhole DEF Idle
<1>3. ListOf(table, n) /\ n < Limit
  BY <1>2, LengthOfWhole DEF Idle
<1>4. Contract!Length = n
  BY <1>1, <1>3, HostLength
<1> DEFINE L == Seen2(table)
           M == Seen2(table')
           e == IF pos > n + 1 THEN pos ELSE n + 1
<1>5. [k \in 1 .. Limit + 1 |-> Seen1[k]] = L /\ [k \in 1 .. Limit + 1 |-> Seen1[k]]' = M
      /\ L \in [1 .. Limit + 1 -> Values]
  BY <1>1, HostSees
<1>6. table' = [k \in Places |-> IF k = pos THEN v
                               ELSE IF pos < k /\ k <= e THEN table[k - 1] ELSE table[k]]
  BY <1>2 DEF tinsert
<1>7. result' = <<>>
  BY DEF tinsert
<1>8. M = [k \in 1 .. Limit + 1 |-> IF k = pos THEN v
                               ELSE IF pos < k /\ k <= e THEN L[k - 1] ELSE L[k]]
  <2>1. \A k \in 1 .. Limit + 1 : pos < k => L[k - 1] = table[k - 1]
    BY <1>1 DEF Seen2
  <2>2. \A k \in 1 .. Limit + 1 : L[k] = table[k]
    BY DEF Seen2
  <2>3. 1 .. Limit + 1 \subseteq Places
    BY <1>1 DEF Places
  <2> HIDE DEF L, e
  <2> QED BY <1>6, <2>1, <2>2, <2>3 DEF Seen2
<1>9. \A k \in 1 .. Limit + 1 : k > n => L[k] = NoValue
  BY <1>1, <1>3 DEF ListOf, Places, Seen2
<1> HIDE DEF L, M
<1>10. M = IF pos > n THEN [L EXCEPT ![pos] = v]
           ELSE Contract!Padded(SubSeq(L, 1, pos - 1) \o <<v>> \o SubSeq(L, pos, n))
  <2>1. CASE pos > n
    <3>1. M = [k \in 1 .. Limit + 1 |-> IF k = pos THEN v ELSE L[k]]
      BY <1>1, <1>8, <2>1
    <3> QED BY <1>1, <1>5, <2>1, <3>1
  <2>2. CASE ~(pos > n)
    <3> DEFINE s == SubSeq(L, 1, pos - 1) \o <<v>> \o SubSeq(L, pos, n)
    <3>1. pos \in 1 .. n
      BY <1>1, <2>2
    <3>2. /\ s \in Seq(Values) /\ Len(s) = n + 1
          /\ \A k \in 1 .. n + 1 : s[k] = IF k < pos THEN L[k] ELSE IF k = pos THEN v ELSE L[k - 1]
      BY <1>1, <1>5, <3>1, Spliced
    <3> HIDE DEF s
    <3>3. Contract!Padded(s) = [k \in 1 .. Limit + 1 |-> IF k <= n + 1 THEN s[k] ELSE NoValue]
      <4>1. Len(s) <= Limit + 1
        BY <1>1, <1>3, <3>2
      <4> QED BY <3>2, <4>1, PaddedIs
    <3>4. \A k \in 1 .. Limit + 1 :
            (IF k = pos THEN v ELSE IF pos < k /\ k <= e THEN L[k - 1] ELSE L[k])
              = (IF k <= n + 1 THEN s[k] ELSE NoValue)
      BY <1>1, <1>9, <2>2, <3>1, <3>2
    <3>5. M = Contract!Padded(s)
      BY <1>8, <3>3, <3>4
    <3> QED BY <2>2, <3>5 DEF s
  <2> QED BY <2>1, <2>2
<1> QED BY <1>4, <1>5, <1>7, <1>10 DEF Contract!Insert

LEMMA RemoveMaps ==
  ASSUME IInv, Idle, NEW pos \in Places, tremove(pos), at' = "idle"
  PROVE  Contract!Remove(pos)
<1>1. Limit \in Nat /\ table \in [Places -> Values] /\ at = "idle" /\ pos \in Int
  BY ListAssumption DEF IInv, TypeOK, Idle, Places
<1>2. PICK n \in 0 .. Limit : n = aux_getn(table)
  BY LengthOfWhole DEF Idle
<1>3. ListOf(table, n)
  BY <1>2, LengthOfWhole DEF Idle
<1>4. Contract!Length = n
  BY <1>1, <1>3, HostLength
<1> DEFINE L == Seen2(table)
           M == Seen2(table')
<1>5. [k \in 1 .. Limit + 1 |-> Seen1[k]] = L /\ [k \in 1 .. Limit + 1 |-> Seen1[k]]' = M
      /\ L \in [1 .. Limit + 1 -> Values]
  BY <1>1, HostSees
<1>6. CASE pos \in 1 .. n
  <2>1. table' = [k \in Places |-> IF k = n THEN NoValue
                                  ELSE IF pos <= k /\ k < n THEN table[k + 1] ELSE table[k]]
        /\ result' = <<table[pos]>>
    BY <1>2, <1>6 DEF tremove
  <2>2. M = [k \in 1 .. Limit + 1 |-> IF k = n THEN NoValue
                                  ELSE IF pos <= k /\ k < n THEN L[k + 1] ELSE L[k]]
    <3>1. \A k \in 1 .. Limit + 1 : k < n => L[k + 1] = table[k + 1]
      BY <1>1 DEF Seen2
    <3>2. \A k \in 1 .. Limit + 1 : L[k] = table[k]
      BY DEF Seen2
    <3>3. 1 .. Limit + 1 \subseteq Places
      BY <1>1 DEF Places
    <3> HIDE DEF L
    <3> QED BY <2>1, <3>1, <3>2, <3>3 DEF Seen2
  <2>3. \A k \in 1 .. Limit + 1 : k > n => L[k] = NoValue
    BY <1>1, <1>3 DEF ListOf, Places, Seen2
  <2>4. L[pos] = table[pos]
    BY <1>1, <1>6 DEF Seen2
  <2> HIDE DEF L, M
  <2> DEFINE s == SubSeq(L, 1, pos - 1) \o SubSeq(L, pos + 1, n)
  <2>5. /\ s \in Seq(Values) /\ Len(s) = n - 1
        /\ \A k \in 1 .. n - 1 : s[k] = IF k < pos THEN L[k] ELSE L[k + 1]
    BY <1>1, <1>5, <1>6, Removed
  <2> HIDE DEF s
  <2>6. Contract!Padded(s) = [k \in 1 .. Limit + 1 |-> IF k <= n - 1 THEN s[k] ELSE NoValue]
    <3>1. Len(s) <= Limit + 1
      BY <1>1, <2>5
    <3> QED BY <2>5, <3>1, PaddedIs
  <2>7. \A k \in 1 .. Limit + 1 :
          (IF k = n THEN NoValue ELSE IF pos <= k /\ k < n THEN L[k + 1] ELSE L[k])
            = (IF k <= n - 1 THEN s[k] ELSE NoValue)
    BY <1>1, <1>6, <2>3, <2>5
  <2>8. M = Contract!Padded(s)
    BY <2>2, <2>6, <2>7
  <2> QED BY <1>4, <1>5, <1>6, <2>1, <2>4, <2>8 DEF Contract!Remove, s
<1>7. CASE pos \notin 1 .. n
  <2>1. table' = table /\ result' = <<>>
    BY <1>2, <1>7 DEF tremove
  <2> QED BY <1>4, <1>5, <1>7, <2>1 DEF Contract!Remove
<1> QED BY <1>6, <1>7

LEMMA ConcatMaps ==
  ASSUME IInv, Idle, NEW first \in 1 .. 2, NEW last \in Spots, tconcat(first, last), at' = "idle"
  PROVE  Contract!Concat(first, last)
<1>1. Limit \in Nat /\ at = "idle" /\ first \in Int /\ last \in Int /\ 1 <= first
      /\ last <= Limit /\ table' = table
  BY ListAssumption DEF Idle, Spots, tconcat
<1> DEFINE L == Seen2(table)
<1>2. [k \in 1 .. Limit + 1 |-> Seen1[k]] = L /\ [k \in 1 .. Limit + 1 |-> Seen1[k]]' = L
      /\ L \in [1 .. Limit + 1 -> Values]
  BY <1>1, HostSees
<1>3. \A k \in first .. last : L[k] = table[k]
  BY <1>1 DEF Seen2
<1> HIDE DEF L
<1>4. [k \in 1 .. (IF first > last THEN 0 ELSE last - first + 1) |-> table[first + k - 1]] = SubSeq(L, first, last)
  <2>1. SubSeq(L, first, last) = [k \in 1 .. (IF first > last THEN 0 ELSE last - first + 1) |-> L[first + k - 1]]
    BY <1>1, <1>2
  <2>2. \A k \in 1 .. (IF first > last THEN 0 ELSE last - first + 1) : L[first + k - 1] = table[first + k - 1]
    BY <1>1, <1>3
  <2> QED BY <2>1, <2>2
<1>5. result' = IF \A k \in first .. last : L[k] # NoValue THEN SubSeq(L, first, last) ELSE <<NoValue>>
  BY <1>3, <1>4 DEF tconcat
<1> QED BY <1>2, <1>5 DEF Contract!Concat

LEMMA AskMaps ==
  ASSUME IInv, Idle, NEW r \in Orders \union {Unreliable}, sort(r)
  PROVE  Contract!Ask
<1>1. at = "idle" /\ at' = "ends" /\ order' = r /\ before' = table /\ result' = <<>>
  BY DEF Idle, sort
<1>2. [k \in 1 .. Limit + 1 |-> Seen1[k]] = Seen2(table)
      /\ [k \in 1 .. Limit + 1 |-> Seen1[k]]' = Seen2(table)
  BY <1>1, HostSees
<1> QED BY <1>1, <1>2 DEF Contract!Ask

\* sort gives nothing until it is done, and then nothing or an error.
Ends1 == IF at' = "idle" THEN result' \in {<<>>, <<NoValue>>} ELSE result' = result

LEMMA ReturnsEnds == Returns => Ends1
  BY DEF Returns, Leaves, Ends1
LEMMA SortingEnds ==
  ASSUME Sorting
  PROVE  Ends1
<1>1. Fails => Ends1
  BY DEF Fails, Leaves, Ends1
<1>2. \A next \in {"middle", "third", "up", "down"} : Goes(next) => Ends1
  BY DEF Goes, Ends1
<1>3. ASSUME NEW t, PivotFrom(t) PROVE Ends1
  BY <1>2, <1>3, ReturnsEnds DEF PivotFrom
<1>4. Done \/ BothEnds \/ Raises => Ends1
  BY <1>1, <1>2, ReturnsEnds DEF Done, BothEnds, Raises
<1>5. Middle => Ends1
  BY <1>2, <1>3 DEF Middle
<1>6. Third => Ends1
  BY <1>3 DEF Third
<1>7. Up => Ends1
  BY <1>1, <1>2 DEF Up
<1>8. Halves => Ends1
  BY DEF Halves, Ends1
<1>9. Down => Ends1
  BY <1>1, <1>2, <1>8 DEF Down
<1> QED BY <1>4, <1>5, <1>6, <1>7, <1>9 DEF Sorting

LEMMA OccursIs ==
  ASSUME NEW t, NEW v
  PROVE  Contract!Occurrences(Seen2(t), v) = Occurs(t, v)
<1>1. {k \in 1 .. Limit + 1 : Seen2(t)[k] = v} = {k \in 1 .. Limit + 1 : t[k] = v}
  BY DEF Seen2
<1>2. Contract!Occurrences(Seen2(t), v) = Cardinality({k \in 1 .. Limit + 1 : Seen2(t)[k] = v})
  BY DEF Contract!Occurrences, Contract!Cardinality, Cardinality
<1> QED BY <1>1, <1>2 DEF Occurs

LEMMA SortMaps ==
  ASSUME IInv, Sorting, at' = "idle"
  PROVE  Contract!Sort
<1> DEFINE K == Seen2(before)
           M == Seen2(table')
<1>1. /\ TypeOK /\ at # "idle" /\ Shuffled(table, table') /\ SortOK' /\ Kept
  BY SortingOK DEF IInv, Sorting, Moved
<1>2. [k \in 1 .. Limit + 1 |-> Seen1[k]] = K /\ [k \in 1 .. Limit + 1 |-> Seen1[k]]' = M
  BY <1>1, HostSees
<1>3. PICK n \in 0 .. Limit : n = aux_getn(before) /\ ListOf(before, n)
  BY <1>1, LengthOfWhole DEF Kept
<1>4. Limit \in Nat /\ n \in Nat /\ n <= Limit
  BY ListAssumption
<1>5. M \in [1 .. Limit + 1 -> Elems \union {NoValue}]
  BY <1>1, <1>4 DEF Shuffled, Places, Seen2, Values
<1>6. \A v \in Elems \union {NoValue} : Contract!Occurrences(M, v) = Contract!Occurrences(K, v)
  <2> SUFFICES ASSUME NEW v \in Values PROVE Contract!Occurrences(M, v) = Contract!Occurrences(K, v)
    BY DEF Values
  <2>1. Occurs(table', v) = Occurs(before, v)
    BY <1>1 DEF Shuffled, Kept
  <2> QED BY <2>1, OccursIs
<1>7. Contract!Length = n
  BY <1>1, <1>3, HostLength
<1>8. order # None
  BY <1>1, ListAssumption DEF TypeOK
<1>9. order # Unreliable =>
        /\ \A m \in 1 .. n : M[m] # NoValue
        /\ \A k, m \in 1 .. n : k < m => <<M[m], M[k]>> \notin order
        /\ result' = <<>>
  <2> SUFFICES ASSUME order # Unreliable
               PROVE  /\ \A m \in 1 .. n : M[m] # NoValue
                      /\ \A k, m \in 1 .. n : k < m => <<M[m], M[k]>> \notin order
                      /\ result' = <<>>
    OBVIOUS
  <2>1. Under(n)
    BY <1>1, <1>3 DEF Under, IInv, Reliable, TypeOK
  <2>2. result' = <<>> /\ ListOf(table', n) /\ InPlace(order, table', 1, n)
    BY <2>1, SortingGood DEF Good
  <2>3. \A m \in 1 .. n : M[m] = table'[m]
    BY <1>4 DEF Seen2
  <2> HIDE DEF M
  <2>4. \A m \in 1 .. n : M[m] # NoValue
    BY <2>2, <2>3 DEF ListOf
  <2>5. \A k, m \in 1 .. n : k < m => <<M[m], M[k]>> \notin order
    BY <1>4, <2>2, <2>3 DEF InPlace, Before
  <2> QED BY <2>2, <2>4, <2>5
<1>10. result' \in {<<>>, <<NoValue>>}
  BY SortingEnds DEF Ends1
<1> HIDE DEF K, M
<1>11. Contract!Rearranged
  BY <1>2, <1>5, <1>6 DEF Contract!Rearranged
<1>12. (IF at = "idle" THEN None ELSE order) = order /\ (IF at' = "idle" THEN None ELSE order') = None
  BY <1>1
<1>13. result' \in {<<>>} \union (IF order = Unreliable THEN {<<NoValue>>} ELSE {})
  <2>1. order # Unreliable => result' = <<>>
    BY <1>9
  <2>2. CASE order = Unreliable
    BY <1>10, <2>2
  <2>3. CASE order # Unreliable
    BY <2>1, <2>3
  <2> QED BY <2>2, <2>3
<1> QED BY <1>2, <1>7, <1>8, <1>9, <1>11, <1>12, <1>13 DEF Contract!Sort, Contract!InOrder

LEMMA SortingStutters ==
  ASSUME IInv, Sorting, at' # "idle"
  PROVE  UNCHANGED Contract!vars
<1>1. at # "idle" /\ order' = order /\ before' = before
  BY DEF Sorting
<1>2. result' = result
  BY SortingEnds DEF Ends1
<1>3. [k \in 1 .. Limit + 1 |-> Seen1[k]] = Seen2(before)
      /\ [k \in 1 .. Limit + 1 |-> Seen1[k]]' = Seen2(before)
  BY <1>1, HostSees
<1> QED BY <1>1, <1>2, <1>3 DEF Contract!vars

LEMMA EditMaps ==
  ASSUME IInv, Idle, Edit
  PROVE  Contract!Next
<1>1. at = "idle" /\ at' = "idle" /\ Limit \in Nat
  BY ListAssumption DEF Idle, Edit
<1>3. ASSUME NEW v \in Elems, NEW pos \in Spots, aux_getn(table) < Limit, tinsert(pos, v)
      PROVE  \E p \in 1 .. Limit + 1, w \in Elems : Contract!Insert(p, w)
  <2>1. pos \in 1 .. Limit + 1
    BY <1>1 DEF Spots
  <2> QED BY <1>1, <1>3, <2>1, InsertMaps
<1>4. ASSUME NEW pos \in Places, tremove(pos)
      PROVE  \E p \in 0 .. Limit + 1 : Contract!Remove(p)
  <2>1. pos \in 0 .. Limit + 1
    BY DEF Places
  <2> QED BY <1>1, <1>4, <2>1, RemoveMaps
<1>5. ASSUME NEW first \in 1 .. 2, NEW last \in Spots, tconcat(first, last)
      PROVE  \E f, g \in 1 .. Limit + 1 : Contract!Concat(f, g)
  <2>1. last \in 1 .. Limit + 1 /\ first \in 1 .. Limit + 1
    BY <1>1 DEF Spots
  <2> QED BY <1>1, <1>5, <2>1, ConcatMaps
<1> QED BY <1>1, <1>3, <1>4, <1>5 DEF Edit, Contract!Next

\* insert and remove shift what is behind the place, and sort sorts, for any values,
\* orders and lengths: what it leaves are the elements that there were, in the order of
\* the function if that is one; and a function that is none loses or doubles nothing
\* (ltablib.c:90-287).
THEOREM ImplementsContract == ListSpec => ListsImplement
<1>1. IInv /\ [ListNext]_listVars => [Contract!Next]_Contract!vars
  <2> SUFFICES ASSUME IInv, [ListNext]_listVars PROVE [Contract!Next]_Contract!vars
    OBVIOUS
  <2>1. CASE Operate /\ Edit
    BY <2>1, EditMaps DEF Operate
  <2>2. CASE Operate /\ ~Edit
    <3>1. PICK r \in Orders \union {Unreliable} : sort(r)
      BY <2>2 DEF Operate
    <3> QED BY <2>2, <3>1, AskMaps DEF Operate, Contract!Next
  <2>3. CASE Sorting
    BY <2>3, SortMaps, SortingStutters DEF Contract!Next
  <2>4. CASE UNCHANGED listVars
    BY <2>4 DEF listVars, Contract!vars, Seen1
  <2> QED BY <2>1, <2>2, <2>3, <2>4 DEF ListNext
<1> QED BY <1>1, MapsInit, Inductive, PTL DEF ListSpec, ListsImplement, Contract!Spec
=============================================================================
