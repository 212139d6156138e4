---------------------------- MODULE CandleProofs ----------------------------
(***************************************************************************)
(* Proofs about the analytics of PriceReads: the candles of a range add up *)
(* to its summary, and those of a shorter interval to those of a longer    *)
(* one, for every set of rows, every interval and every query limit.  Sums *)
(* are recursive functions; induction is the least-number principle, which *)
(* follows from the well-foundedness of < on sets of naturals.             *)
(***************************************************************************)
EXTENDS PriceReadsProofs, WellFoundedInduction

-----------------------------------------------------------------------------
\* Induction.

LEMMA LeastNatural ==
  ASSUME NEW T, T \subseteq Nat, T # {}
  PROVE  \E x \in T : \A y \in T : x <= y
<1> DEFINE R == {p \in Nat \X Nat : p[1] < p[2]}
<1>1. IsWellFoundedOn(R, Nat)
  BY NatLessThanWellFounded DEF OpToRel
<1> HIDE DEF R
<1>2. PICK x \in T : \A y \in T : ~ (<<y, x>> \in R)
  BY <1>1, WFMin
<1>3. ASSUME NEW y \in T
      PROVE  x <= y
  <2>1. <<y, x>> \in Nat \X Nat /\ x \in Nat /\ y \in Nat
    OBVIOUS
  <2>2. ~(y < x)
    BY <1>2, <2>1 DEF R
  <2>3. QED
    BY <2>1, <2>2
<1>4. QED
  BY <1>3

LEMMA UpTo ==
  ASSUME NEW k \in Nat, NEW T, 0 \in T, \A i \in 1 .. k : i - 1 \in T => i \in T
  PROVE  0 .. k \subseteq T
<1> DEFINE B == {i \in 0 .. k : i \notin T}
<1>1. SUFFICES ASSUME B # {} PROVE FALSE
  OBVIOUS
<1>2. B \subseteq Nat
  OBVIOUS
<1> HIDE DEF B
<1>3. PICK x \in B : \A y \in B : x <= y
  BY <1>1, <1>2, LeastNatural
<1>4. x \in 1 .. k /\ x - 1 \in 0 .. k /\ ~(x <= x - 1) /\ x \notin T
  BY <1>3 DEF B
<1>5. x - 1 \in T
  BY <1>3, <1>4 DEF B
<1>6. QED
  BY <1>4, <1>5

-----------------------------------------------------------------------------
\* Sums.

IsSum(g, v, k) == g = [i \in 0 .. k |-> IF i = 0 THEN 0 ELSE g[i - 1] + v[i]]

LEMMA SumExists ==
  ASSUME NEW k \in Nat, NEW v
  PROVE  \E g : IsSum(g, v, k)
<1> DEFINE T == {i \in 0 .. k : \E g : IsSum(g, v, i)}
<1>1. 0 \in T
  <2> DEFINE g == [i \in 0 .. 0 |-> 0]
  <2>1. g = [i \in 0 .. 0 |-> IF i = 0 THEN 0 ELSE g[i - 1] + v[i]]
    OBVIOUS
  <2> HIDE DEF g
  <2>2. IsSum(g, v, 0)
    BY <2>1 DEF IsSum
  <2>3. QED
    BY <2>2
<1>2. ASSUME NEW i \in 1 .. k, i - 1 \in T
      PROVE  i \in T
  <2>1. PICK g : g = [j \in 0 .. i - 1 |-> IF j = 0 THEN 0 ELSE g[j - 1] + v[j]]
    BY <1>2 DEF IsSum
  <2> DEFINE h == [j \in 0 .. i |-> IF j = i THEN g[i - 1] + v[i] ELSE g[j]]
  <2>2. h[i] = g[i - 1] + v[i] /\ \A j \in 0 .. i - 1 : h[j] = g[j]
    OBVIOUS
  <2>3. \A j \in 0 .. i : h[j] = IF j = 0 THEN 0 ELSE h[j - 1] + v[j]
    <3> SUFFICES ASSUME NEW j \in 0 .. i
                 PROVE  h[j] = IF j = 0 THEN 0 ELSE h[j - 1] + v[j]
      OBVIOUS
    <3> HIDE DEF h
    <3>1. CASE j = i
      <4>1. i - 1 \in 0 .. i - 1 /\ i # 0
        OBVIOUS
      <4>2. QED
        BY <2>2, <3>1, <4>1
    <3>2. CASE j # i
      <4>1. j \in 0 .. i - 1 /\ (j # 0 => j - 1 \in 0 .. i - 1)
        BY <3>2
      <4>2. g[j] = IF j = 0 THEN 0 ELSE g[j - 1] + v[j]
        BY <2>1, <4>1
      <4>3. QED
        BY <2>2, <4>1, <4>2
    <3>3. QED
      BY <3>1, <3>2
  <2>4. h = [j \in 0 .. i |-> h[j]]
    OBVIOUS
  <2> HIDE DEF h
  <2>5. IsSum(h, v, i)
    BY <2>3, <2>4 DEF IsSum
  <2>6. QED
    BY <2>5
<1> HIDE DEF T
<1>3. 0 .. k \subseteq T
  BY <1>1, <1>2, UpTo
<1>4. k \in T
  BY <1>3
<1>5. QED
  BY <1>4 DEF T

\* The running sum that SumOf computes.
LEMMA SumIs ==
  ASSUME NEW k \in Nat, NEW v \in [1 .. k -> Int]
  PROVE  \E g \in [0 .. k -> Int] :
           /\ g[0] = 0 /\ SumOf(v) = g[k]
           /\ \A i \in 1 .. k : g[i] = g[i - 1] + v[i]
<1>1. Len(v) = k
  OBVIOUS
<1>2. PICK g : IsSum(g, v, k) /\ SumOf(v) = g[k]
  BY <1>1, SumExists DEF SumOf, IsSum
<1>3. g = [i \in 0 .. k |-> IF i = 0 THEN 0 ELSE g[i - 1] + v[i]]
  BY <1>2 DEF IsSum
<1>4. g[0] = 0 /\ \A i \in 1 .. k : g[i] = g[i - 1] + v[i]
  <2>1. 0 \in 0 .. k /\ \A i \in 1 .. k : i \in 0 .. k /\ i # 0
    OBVIOUS
  <2>2. QED
    BY <1>3, <2>1
<1> DEFINE T == {i \in 0 .. k : g[i] \in Int}
<1>5. 0 \in T
  BY <1>4
<1>6. \A i \in 1 .. k : i - 1 \in T => i \in T
  BY <1>4
<1> HIDE DEF T
<1>7. 0 .. k \subseteq T
  BY <1>5, <1>6, UpTo
<1>8. g \in [0 .. k -> Int]
  BY <1>3, <1>7 DEF T
<1>9. QED
  BY <1>2, <1>4, <1>8

\* The numbers v are those of u, then those of w.
Splits(v, m, u, k, w, l) ==
  /\ k \in Nat \ {0} /\ l \in Nat \ {0} /\ m = k + l
  /\ u \in [1 .. k -> Int] /\ w \in [1 .. l -> Int] /\ v \in [1 .. m -> Int]
  /\ \A i \in 1 .. k : v[i] = u[i]
  /\ \A i \in 1 .. l : v[k + i] = w[i]

LEMMA SumSplits ==
  ASSUME NEW v, NEW m, NEW u, NEW k, NEW w, NEW l, Splits(v, m, u, k, w, l)
  PROVE  SumOf(v) = SumOf(u) + SumOf(w)
<1> /\ k \in Nat \ {0} /\ l \in Nat \ {0} /\ m \in Nat /\ m = k + l
    /\ u \in [1 .. k -> Int] /\ w \in [1 .. l -> Int] /\ v \in [1 .. m -> Int]
    /\ \A i \in 1 .. k : v[i] = u[i]
    /\ \A i \in 1 .. l : v[k + i] = w[i]
  BY DEF Splits
<1>1. PICK gu \in [0 .. k -> Int] :
        /\ gu[0] = 0 /\ SumOf(u) = gu[k]
        /\ \A i \in 1 .. k : gu[i] = gu[i - 1] + u[i]
  BY SumIs
<1>2. PICK gw \in [0 .. l -> Int] :
        /\ gw[0] = 0 /\ SumOf(w) = gw[l]
        /\ \A i \in 1 .. l : gw[i] = gw[i - 1] + w[i]
  BY SumIs
<1>3. m \in Nat /\ m = k + l
  OBVIOUS
<1>4. PICK gv \in [0 .. m -> Int] :
        /\ gv[0] = 0 /\ SumOf(v) = gv[m]
        /\ \A i \in 1 .. m : gv[i] = gv[i - 1] + v[i]
  BY <1>3, SumIs
<1> DEFINE T == {i \in 0 .. k : gv[i] = gu[i]}
           U == {i \in 0 .. l : gv[k + i] = gu[k] + gw[i]}
<1>5. 0 .. k \subseteq T
  <2>1. 0 \in T
    BY <1>1, <1>4
  <2>2. ASSUME NEW i \in 1 .. k, i - 1 \in T
        PROVE  i \in T
    <3>1. i \in 1 .. m /\ gv[i - 1] = gu[i - 1]
      BY <1>3, <2>2
    <3>2. gv[i] = gv[i - 1] + v[i] /\ gu[i] = gu[i - 1] + u[i] /\ v[i] = u[i]
      BY <1>1, <1>4, <3>1
    <3>3. QED
      BY <3>1, <3>2
  <2> HIDE DEF T
  <2>3. QED
    BY <2>1, <2>2, UpTo
<1>6. gv[k] = gu[k] /\ gu[k] \in Int
  <2>1. k \in T
    BY <1>5
  <2>2. QED
    BY <2>1
<1>7. 0 .. l \subseteq U
  <2>1. 0 \in U
    BY <1>2, <1>6
  <2>2. ASSUME NEW i \in 1 .. l, i - 1 \in U
        PROVE  i \in U
    <3>1. k + i \in 1 .. m /\ (k + i) - 1 = k + (i - 1)
      BY <1>3
    <3>2. gv[k + (i - 1)] = gu[k] + gw[i - 1] /\ gw[i - 1] \in Int /\ w[i] \in Int
      BY <2>2
    <3>3. gv[k + i] = gv[k + (i - 1)] + v[k + i] /\ gw[i] = gw[i - 1] + w[i] /\ v[k + i] = w[i]
      BY <1>2, <1>4, <3>1
    <3>4. PICK a \in Int, b \in Int, c \in Int : a = gu[k] /\ b = gw[i - 1] /\ c = w[i]
      BY <1>6, <3>2
    <3>5. gv[k + i] = a + b + c /\ gw[i] = b + c
      BY <3>2, <3>3, <3>4
    <3>6. gv[k + i] = a + gw[i]
      BY <3>5
    <3>7. QED
      BY <3>4, <3>6
  <2> HIDE DEF U
  <2>3. QED
    BY <2>1, <2>2, UpTo
<1>8. gv[m] = gu[k] + gw[l] /\ gw[l] \in Int
  <2>1. l \in U
    BY <1>7
  <2>2. QED
    BY <1>3, <2>1
<1>9. QED
  BY <1>1, <1>2, <1>4, <1>6, <1>8

LEMMA SumOfOne ==
  ASSUME NEW v \in [1 .. 1 -> Int]
  PROVE  SumOf(v) = v[1]
<1>1. PICK k \in Nat : k = 1
  OBVIOUS
<1>2. v \in [1 .. k -> Int]
  BY <1>1
<1>3. PICK g \in [0 .. k -> Int] :
        /\ g[0] = 0 /\ SumOf(v) = g[k]
        /\ \A i \in 1 .. k : g[i] = g[i - 1] + v[i]
  BY <1>2, SumIs
<1>4. g[1] = g[0] + v[1] /\ v[1] \in Int
  BY <1>1, <1>3
<1>5. QED
  BY <1>1, <1>3, <1>4

LEMMA SumOfOnes ==
  ASSUME NEW k \in Nat, NEW v \in [1 .. k -> Int], \A i \in 1 .. k : v[i] = 1
  PROVE  SumOf(v) = k
<1>1. PICK g \in [0 .. k -> Int] :
        /\ g[0] = 0 /\ SumOf(v) = g[k]
        /\ \A i \in 1 .. k : g[i] = g[i - 1] + v[i]
  BY SumIs
<1> DEFINE T == {i \in 0 .. k : g[i] = i}
<1>2. 0 \in T /\ \A i \in 1 .. k : i - 1 \in T => i \in T
  BY <1>1
<1> HIDE DEF T
<1>3. 0 .. k \subseteq T
  BY <1>2, UpTo
<1>4. k \in T
  BY <1>3
<1>5. QED
  BY <1>1, <1>4 DEF T

-----------------------------------------------------------------------------
\* Least and greatest.

Values(v, k) == {v[i] : i \in 1 .. k}

LEMMA ExtremesExist ==
  ASSUME NEW k \in Nat \ {0}, NEW v \in [1 .. k -> Int]
  PROVE  /\ \E a \in 1 .. k : \A j \in 1 .. k : v[a] <= v[j]
         /\ \E b \in 1 .. k : \A j \in 1 .. k : v[b] >= v[j]
<1> DEFINE Bounded(i) == /\ \E a \in 1 .. i : \A j \in 1 .. i : v[a] <= v[j]
                         /\ \E b \in 1 .. i : \A j \in 1 .. i : v[b] >= v[j]
           T == {i \in 0 .. k : i # 0 => Bounded(i)}
<1>1. 0 \in T
  OBVIOUS
<1>2. ASSUME NEW i \in 1 .. k, i - 1 \in T
      PROVE  i \in T
  <2>1. CASE i = 1
    <3>1. \A j \in 1 .. i : j = 1 /\ v[1] \in Int
      BY <2>1
    <3>2. QED
      BY <2>1, <3>1
  <2>2. CASE i # 1
    <3>1. PICK a \in 1 .. i - 1, b \in 1 .. i - 1 :
            \A j \in 1 .. i - 1 : v[a] <= v[j] /\ v[b] >= v[j]
      BY <1>2, <2>2
    <3>2. \A j \in 1 .. i : j = i \/ j \in 1 .. i - 1
      OBVIOUS
    <3>3. /\ v[a] \in Int /\ v[b] \in Int /\ v[i] \in Int
          /\ a \in 1 .. i /\ b \in 1 .. i /\ i \in 1 .. i
          /\ \A j \in 1 .. i : v[j] \in Int
      OBVIOUS
    <3>4. \E c \in 1 .. i : \A j \in 1 .. i : v[c] <= v[j]
      <4>1. CASE v[a] <= v[i]
        BY <3>1, <3>2, <3>3, <4>1
      <4>2. CASE ~(v[a] <= v[i])
        <5>1. \A j \in 1 .. i : v[i] <= v[j]
          BY <3>1, <3>2, <3>3, <4>2
        <5>2. QED
          BY <3>3, <5>1
      <4>3. QED
        BY <4>1, <4>2
    <3>5. \E c \in 1 .. i : \A j \in 1 .. i : v[c] >= v[j]
      <4>1. CASE v[b] >= v[i]
        BY <3>1, <3>2, <3>3, <4>1
      <4>2. CASE ~(v[b] >= v[i])
        <5>1. \A j \in 1 .. i : v[i] >= v[j]
          BY <3>1, <3>2, <3>3, <4>2
        <5>2. QED
          BY <3>3, <5>1
      <4>3. QED
        BY <4>1, <4>2
    <3>6. Bounded(i)
      BY <3>4, <3>5
    <3> HIDE DEF Bounded
    <3>7. QED
      BY <3>6
  <2>3. QED
    BY <2>1, <2>2
<1> HIDE DEF T
<1>3. 0 .. k \subseteq T
  BY <1>1, <1>2, UpTo
<1>4. k \in T /\ k # 0
  BY <1>3
<1>5. QED
  BY <1>4 DEF T

LEMMA MinIs ==
  ASSUME NEW S, S \subseteq Int, NEW a \in S, \A y \in S : a <= y
  PROVE  Min(S) = a
<1>1. Min(S) \in S /\ \A y \in S : Min(S) <= y
  BY DEF Min
<1>2. Min(S) <= a /\ a <= Min(S) /\ Min(S) \in Int /\ a \in Int
  BY <1>1
<1>3. QED
  BY <1>2

LEMMA MaxIs ==
  ASSUME NEW S, S \subseteq Int, NEW a \in S, \A y \in S : a >= y
  PROVE  Max(S) = a
<1>1. Max(S) \in S /\ \A y \in S : Max(S) >= y
  BY DEF Max
<1>2. Max(S) <= a /\ a <= Max(S) /\ Max(S) \in Int /\ a \in Int
  BY <1>1
<1>3. QED
  BY <1>2

LEMMA ExtremesAre ==
  ASSUME NEW k \in Nat \ {0}, NEW v \in [1 .. k -> Int]
  PROVE  \E a \in Values(v, k), b \in Values(v, k) :
           \A y \in Values(v, k) : a <= y /\ b >= y
<1> DEFINE S == Values(v, k)
<1>1. PICK i \in 1 .. k : \A h \in 1 .. k : v[i] <= v[h]
  BY ExtremesExist
<1>2. PICK j \in 1 .. k : \A h \in 1 .. k : v[j] >= v[h]
  BY ExtremesExist
<1>3. v[i] \in S /\ v[j] \in S
  BY DEF Values
<1>4. \A y \in S : v[i] <= y /\ v[j] >= y
  BY <1>1, <1>2 DEF Values
<1> HIDE DEF S
<1>5. \E a \in S, b \in S : \A y \in S : a <= y /\ b >= y
  BY <1>3, <1>4
<1>6. QED
  BY <1>5 DEF S

Lesser(a, b) == IF a <= b THEN a ELSE b
Greater(a, b) == IF a >= b THEN a ELSE b

\* The least and the greatest of two parts one after the other.
LEMMA ExtremesJoin ==
  ASSUME NEW v, NEW m, NEW u, NEW k, NEW w, NEW l, Splits(v, m, u, k, w, l)
  PROVE  /\ Min(Values(v, m)) = Lesser(Min(Values(u, k)), Min(Values(w, l)))
         /\ Max(Values(v, m)) = Greater(Max(Values(u, k)), Max(Values(w, l)))
<1> DEFINE A == Values(u, k)
           B == Values(w, l)
           C == Values(v, m)
<1> /\ k \in Nat \ {0} /\ l \in Nat \ {0} /\ m \in Nat /\ m = k + l
    /\ u \in [1 .. k -> Int] /\ w \in [1 .. l -> Int] /\ v \in [1 .. m -> Int]
    /\ \A i \in 1 .. k : v[i] = u[i]
    /\ \A i \in 1 .. l : v[k + i] = w[i]
  BY DEF Splits
<1>1. PICK a \in A, b \in A : \A y \in A : a <= y /\ b >= y
  BY ExtremesAre
<1>2. PICK c \in B, d \in B : \A y \in B : c <= y /\ d >= y
  BY ExtremesAre
<1>3. A \subseteq Int /\ B \subseteq Int
  BY DEF Values
<1>4. C = A \cup B
  <2> USE DEF Values
  <2>2. A \subseteq C
    <3>1. \A i \in 1 .. k : i \in 1 .. m
      OBVIOUS
    <3>2. QED
      BY <3>1
  <2>3. B \subseteq C
    <3>1. \A j \in 1 .. l : k + j \in 1 .. m
      OBVIOUS
    <3>2. QED
      BY <3>1
  <2>4. C \subseteq A \cup B
    <3>1. ASSUME NEW i \in 1 .. m
          PROVE  v[i] \in A \cup B
      <4>1. CASE i \in 1 .. k
        BY <4>1
      <4>2. CASE i \notin 1 .. k
        <5>1. i - k \in 1 .. l /\ k + (i - k) = i
          BY <4>2
        <5>2. v[k + (i - k)] = w[i - k]
          BY <5>1
        <5>3. QED
          BY <5>1, <5>2
      <4>3. QED
        BY <4>1, <4>2
    <3>2. QED
      BY <3>1
  <2>5. QED
    BY <2>2, <2>3, <2>4
<1> HIDE DEF A, B, C
<1>5. Min(A) = a /\ Max(A) = b /\ Min(B) = c /\ Max(B) = d
  <2>1. Min(A) = a
    BY <1>1, <1>3, MinIs
  <2>2. Max(A) = b
    BY <1>1, <1>3, MaxIs
  <2>3. Min(B) = c
    BY <1>2, <1>3, MinIs
  <2>4. Max(B) = d
    BY <1>2, <1>3, MaxIs
  <2>5. QED
    BY <2>1, <2>2, <2>3, <2>4
<1>6. a \in Int /\ b \in Int /\ c \in Int /\ d \in Int
  BY <1>3
<1>7. Min(C) = Lesser(a, c)
  <2>1. CASE a <= c
    <3>1. \A y \in C : a <= y
      BY <1>1, <1>2, <1>3, <1>4, <1>6, <2>1
    <3>2. QED
      BY <1>3, <1>4, <2>1, <3>1, MinIs DEF Lesser
  <2>2. CASE ~(a <= c)
    <3>1. \A y \in C : c <= y
      BY <1>1, <1>2, <1>3, <1>4, <1>6, <2>2
    <3>2. QED
      BY <1>3, <1>4, <2>2, <3>1, MinIs DEF Lesser
  <2>3. QED
    BY <2>1, <2>2
<1>8. Max(C) = Greater(b, d)
  <2>1. CASE b >= d
    <3>1. \A y \in C : b >= y
      BY <1>1, <1>2, <1>3, <1>4, <1>6, <2>1
    <3>2. QED
      BY <1>3, <1>4, <2>1, <3>1, MaxIs DEF Greater
  <2>2. CASE ~(b >= d)
    <3>1. \A y \in C : d >= y
      BY <1>1, <1>2, <1>3, <1>4, <1>6, <2>2
    <3>2. QED
      BY <1>3, <1>4, <2>2, <3>1, MaxIs DEF Greater
  <2>3. QED
    BY <2>1, <2>2
<1>9. QED
  BY <1>5, <1>7, <1>8 DEF A, B, C

-----------------------------------------------------------------------------
\* Candles one after the other.

\* What Merged reads of a candle, and what it makes of a list of them.
Piece(c) ==
  /\ c.open \in Int /\ c.close \in Int /\ c.low \in Int /\ c.high \in Int
  /\ c.sum \in Int /\ c.points \in Int

Pieces(u, k) ==
  k \in Nat \ {0} /\ u = [i \in 1 .. k |-> u[i]] /\ \A i \in 1 .. k : Piece(u[i])

Lows(u, k) == [i \in 1 .. k |-> u[i].low]
Highs(u, k) == [i \in 1 .. k |-> u[i].high]
Sums(u, k) == [i \in 1 .. k |-> u[i].sum]
Counts(u, k) == [i \in 1 .. k |-> u[i].points]

Joined(a, b) ==
  [open |-> a.open, close |-> b.close,
   low |-> Lesser(a.low, b.low), high |-> Greater(a.high, b.high),
   sum |-> a.sum + b.sum, points |-> a.points + b.points]

\* The candles w are those of u, then those of v.
Follows(w, m, u, k, v, l) ==
  /\ Pieces(u, k) /\ Pieces(v, l) /\ m = k + l /\ w = [i \in 1 .. m |-> w[i]]
  /\ \A i \in 1 .. k : w[i] = u[i]
  /\ \A i \in 1 .. l : w[k + i] = v[i]

LEMMA PiecesFollow ==
  ASSUME NEW w, NEW m, NEW u, NEW k, NEW v, NEW l, Follows(w, m, u, k, v, l)
  PROVE  Pieces(w, m)
<1>1. /\ k \in Nat \ {0} /\ l \in Nat \ {0} /\ m = k + l /\ w = [i \in 1 .. m |-> w[i]]
      /\ \A i \in 1 .. k : Piece(u[i]) /\ w[i] = u[i]
      /\ \A i \in 1 .. l : Piece(v[i]) /\ w[k + i] = v[i]
  BY DEF Follows, Pieces
<1>2. ASSUME NEW i \in 1 .. m
      PROVE  Piece(w[i])
  <2>1. CASE i \in 1 .. k
    BY <1>1, <2>1
  <2>2. CASE i \notin 1 .. k
    <3>1. i - k \in 1 .. l /\ k + (i - k) = i
      BY <1>1, <2>2
    <3>2. Piece(v[i - k]) /\ w[k + (i - k)] = v[i - k]
      BY <1>1, <3>1
    <3>3. QED
      BY <3>1, <3>2
  <2>3. QED
    BY <2>1, <2>2
<1>3. m \in Nat \ {0}
  BY <1>1
<1>4. QED
  BY <1>1, <1>2, <1>3 DEF Pieces

LEMMA MergedIs ==
  ASSUME NEW u, NEW k, Pieces(u, k)
  PROVE  Merged(u) =
           [open |-> u[1].open, close |-> u[k].close,
            low |-> Min(Values(Lows(u, k), k)), high |-> Max(Values(Highs(u, k), k)),
            sum |-> SumOf(Sums(u, k)), points |-> SumOf(Counts(u, k))]
<1>1. k \in Nat /\ u = [i \in 1 .. k |-> u[i]]
  BY DEF Pieces
<1>2. DOMAIN u = 1 .. k /\ Len(u) = k
  BY <1>1
<1>3. /\ Values(Lows(u, k), k) = {u[i].low : i \in DOMAIN u}
      /\ Values(Highs(u, k), k) = {u[i].high : i \in DOMAIN u}
  BY <1>2 DEF Values, Lows, Highs
<1>4. /\ Sums(u, k) = [i \in DOMAIN u |-> u[i].sum]
      /\ Counts(u, k) = [i \in DOMAIN u |-> u[i].points]
  BY <1>2 DEF Sums, Counts
<1>5. Merged(u) =
        [open |-> u[1].open, close |-> u[Len(u)].close,
         low |-> Min({u[i].low : i \in DOMAIN u}), high |-> Max({u[i].high : i \in DOMAIN u}),
         sum |-> SumOf([i \in DOMAIN u |-> u[i].sum]),
         points |-> SumOf([i \in DOMAIN u |-> u[i].points])]
  BY DEF Merged, Last
<1>6. QED
  BY <1>2, <1>3, <1>4, <1>5

LEMMA FieldsSplit ==
  ASSUME NEW w, NEW m, NEW u, NEW k, NEW v, NEW l, Follows(w, m, u, k, v, l)
  PROVE  /\ Splits(Lows(w, m), m, Lows(u, k), k, Lows(v, l), l)
         /\ Splits(Highs(w, m), m, Highs(u, k), k, Highs(v, l), l)
         /\ Splits(Sums(w, m), m, Sums(u, k), k, Sums(v, l), l)
         /\ Splits(Counts(w, m), m, Counts(u, k), k, Counts(v, l), l)
<1>1. /\ k \in Nat \ {0} /\ l \in Nat \ {0} /\ m = k + l
      /\ \A i \in 1 .. k : Piece(u[i]) /\ w[i] = u[i]
      /\ \A i \in 1 .. l : Piece(v[i]) /\ w[k + i] = v[i]
  BY DEF Follows, Pieces
<1>2. \A i \in 1 .. m : Piece(w[i])
  BY PiecesFollow DEF Pieces
<1>3. /\ \A i \in 1 .. k : i \in 1 .. m
      /\ \A i \in 1 .. l : k + i \in 1 .. m
  BY <1>1
<1>4. Splits(Lows(w, m), m, Lows(u, k), k, Lows(v, l), l)
  BY <1>1, <1>2, <1>3 DEF Splits, Lows, Piece
<1>5. Splits(Highs(w, m), m, Highs(u, k), k, Highs(v, l), l)
  BY <1>1, <1>2, <1>3 DEF Splits, Highs, Piece
<1>6. Splits(Sums(w, m), m, Sums(u, k), k, Sums(v, l), l)
  BY <1>1, <1>2, <1>3 DEF Splits, Sums, Piece
<1>7. Splits(Counts(w, m), m, Counts(u, k), k, Counts(v, l), l)
  BY <1>1, <1>2, <1>3 DEF Splits, Counts, Piece
<1>8. QED
  BY <1>4, <1>5, <1>6, <1>7

LEMMA MergedJoins ==
  ASSUME NEW w, NEW m, NEW u, NEW k, NEW v, NEW l, Follows(w, m, u, k, v, l)
  PROVE  Merged(w) = Joined(Merged(u), Merged(v))
<1>1. /\ w[1] = u[1] /\ w[m] = v[l]
      /\ Pieces(u, k) /\ Pieces(v, l) /\ Pieces(w, m)
  <2>1. /\ k \in Nat \ {0} /\ l \in Nat \ {0} /\ m = k + l
        /\ \A i \in 1 .. k : w[i] = u[i]
        /\ \A i \in 1 .. l : w[k + i] = v[i]
        /\ Pieces(u, k) /\ Pieces(v, l)
    BY DEF Follows, Pieces
  <2>2. 1 \in 1 .. k /\ l \in 1 .. l
    BY <2>1
  <2>3. QED
    BY <2>1, <2>2, PiecesFollow
<1>2. /\ Min(Values(Lows(w, m), m)) = Lesser(Min(Values(Lows(u, k), k)), Min(Values(Lows(v, l), l)))
      /\ Max(Values(Highs(w, m), m)) = Greater(Max(Values(Highs(u, k), k)), Max(Values(Highs(v, l), l)))
      /\ SumOf(Sums(w, m)) = SumOf(Sums(u, k)) + SumOf(Sums(v, l))
      /\ SumOf(Counts(w, m)) = SumOf(Counts(u, k)) + SumOf(Counts(v, l))
  <2>1. /\ Splits(Lows(w, m), m, Lows(u, k), k, Lows(v, l), l)
        /\ Splits(Highs(w, m), m, Highs(u, k), k, Highs(v, l), l)
        /\ Splits(Sums(w, m), m, Sums(u, k), k, Sums(v, l), l)
        /\ Splits(Counts(w, m), m, Counts(u, k), k, Counts(v, l), l)
    BY FieldsSplit
  <2>2. /\ SumOf(Sums(w, m)) = SumOf(Sums(u, k)) + SumOf(Sums(v, l))
        /\ SumOf(Counts(w, m)) = SumOf(Counts(u, k)) + SumOf(Counts(v, l))
    BY <2>1, SumSplits
  <2>3. Min(Values(Lows(w, m), m)) = Lesser(Min(Values(Lows(u, k), k)), Min(Values(Lows(v, l), l)))
    BY <2>1, ExtremesJoin
  <2>4. Max(Values(Highs(w, m), m))
          = Greater(Max(Values(Highs(u, k), k)), Max(Values(Highs(v, l), l)))
    BY <2>1, ExtremesJoin
  <2>5. QED
    BY <2>2, <2>3, <2>4
<1>3. Merged(w) =
        [open |-> w[1].open, close |-> w[m].close,
         low |-> Min(Values(Lows(w, m), m)), high |-> Max(Values(Highs(w, m), m)),
         sum |-> SumOf(Sums(w, m)), points |-> SumOf(Counts(w, m))]
  BY <1>1, MergedIs
<1>4. Merged(u) =
        [open |-> u[1].open, close |-> u[k].close,
         low |-> Min(Values(Lows(u, k), k)), high |-> Max(Values(Highs(u, k), k)),
         sum |-> SumOf(Sums(u, k)), points |-> SumOf(Counts(u, k))]
  BY <1>1, MergedIs
<1>5. Merged(v) =
        [open |-> v[1].open, close |-> v[l].close,
         low |-> Min(Values(Lows(v, l), l)), high |-> Max(Values(Highs(v, l), l)),
         sum |-> SumOf(Sums(v, l)), points |-> SumOf(Counts(v, l))]
  BY <1>1, MergedIs
<1>6. QED
  BY <1>1, <1>2, <1>3, <1>4, <1>5 DEF Joined

LEMMA ConcatFollows ==
  ASSUME NEW u, NEW k, Pieces(u, k), NEW v, NEW l, Pieces(v, l)
  PROVE  Follows(u \o v, k + l, u, k, v, l)
<1>1. /\ k \in Nat \ {0} /\ u = [i \in 1 .. k |-> u[i]]
      /\ l \in Nat \ {0} /\ v = [i \in 1 .. l |-> v[i]]
  BY DEF Pieces
<1> DEFINE T == {u[i] : i \in 1 .. k} \cup {v[i] : i \in 1 .. l}
<1>2. u \in [1 .. k -> T] /\ v \in [1 .. l -> T]
  BY <1>1
<1> HIDE DEF T
<1>3. u \in Seq(T) /\ Len(u) = k /\ v \in Seq(T) /\ Len(v) = l
  BY <1>1, <1>2
<1>4. PICK w : w = u \o v
  OBVIOUS
<1>5. /\ w \in Seq(T) /\ Len(w) = k + l
      /\ \A i \in 1 .. k + l : w[i] = IF i <= k THEN u[i] ELSE v[i - k]
  BY <1>3, <1>4, ConcatProperties
<1>6. w = [i \in 1 .. k + l |-> w[i]]
  BY <1>5
<1>7. \A i \in 1 .. k : w[i] = u[i]
  <2>1. \A i \in 1 .. k : i \in 1 .. k + l /\ i <= k
    BY <1>1
  <2>2. QED
    BY <1>5, <2>1
<1>8. \A i \in 1 .. l : w[k + i] = v[i]
  <2>1. \A i \in 1 .. l : k + i \in 1 .. k + l /\ ~(k + i <= k) /\ (k + i) - k = i
    BY <1>1
  <2>2. QED
    BY <1>5, <2>1
<1>9. Follows(w, k + l, u, k, v, l)
  BY <1>6, <1>7, <1>8 DEF Follows
<1>10. QED
  BY <1>4, <1>9

LEMMA MergedOne ==
  ASSUME NEW u, NEW k, k = 1, Pieces(u, k)
  PROVE  Merged(u) =
           [open |-> u[1].open, close |-> u[1].close, low |-> u[1].low, high |-> u[1].high,
            sum |-> u[1].sum, points |-> u[1].points]
<1>1. Piece(u[1])
  BY DEF Pieces
<1>2. Merged(u) =
        [open |-> u[1].open, close |-> u[k].close,
         low |-> Min(Values(Lows(u, k), k)), high |-> Max(Values(Highs(u, k), k)),
         sum |-> SumOf(Sums(u, k)), points |-> SumOf(Counts(u, k))]
  BY MergedIs
<1>3. Min(Values(Lows(u, k), k)) = u[1].low
  <2>1. PICK S, a : S = Values(Lows(u, k), k) /\ a = u[1].low
    OBVIOUS
  <2>2. S = {a} /\ a \in Int
    BY <1>1, <2>1 DEF Values, Lows, Piece
  <2>3. S \subseteq Int /\ a \in S /\ \A y \in S : a <= y
    BY <2>2
  <2>4. QED
    BY <2>1, <2>3, MinIs
<1>4. Max(Values(Highs(u, k), k)) = u[1].high
  <2>1. PICK S, a : S = Values(Highs(u, k), k) /\ a = u[1].high
    OBVIOUS
  <2>2. S = {a} /\ a \in Int
    BY <1>1, <2>1 DEF Values, Highs, Piece
  <2>3. S \subseteq Int /\ a \in S /\ \A y \in S : a >= y
    BY <2>2
  <2>4. QED
    BY <2>1, <2>3, MaxIs
<1>5. SumOf(Sums(u, k)) = u[1].sum
  <2>1. Sums(u, k) \in [1 .. 1 -> Int] /\ Sums(u, k)[1] = u[1].sum
    BY <1>1 DEF Sums, Piece
  <2>2. QED
    BY <2>1, SumOfOne
<1>6. SumOf(Counts(u, k)) = u[1].points
  <2>1. Counts(u, k) \in [1 .. 1 -> Int] /\ Counts(u, k)[1] = u[1].points
    BY <1>1 DEF Counts, Piece
  <2>2. QED
    BY <2>1, SumOfOne
<1>7. QED
  BY <1>2, <1>3, <1>4, <1>5, <1>6

-----------------------------------------------------------------------------
\* Rows as candles of one point each.

Point(r) ==
  [open |-> r.price, close |-> r.price, low |-> r.price, high |-> r.price,
   sum |-> r.price, points |-> 1]

Points(q, k) == [i \in 1 .. k |-> Point(q[i])]

RowSeq(q, k) ==
  /\ k \in Nat \ {0} /\ q = [i \in 1 .. k |-> q[i]]
  /\ \A i \in 1 .. k : q[i].price \in Int

LEMMA PointsAre ==
  ASSUME NEW q, NEW k, NEW i \in 1 .. k
  PROVE  LET p == Points(q, k)[i]
         IN  /\ p.open = q[i].price /\ p.close = q[i].price
             /\ p.low = q[i].price /\ p.high = q[i].price
             /\ p.sum = q[i].price /\ p.points = 1
<1>1. Points(q, k)[i] = Point(q[i])
  BY DEF Points
<1>2. PICK c : c = q[i].price
  OBVIOUS
<1>3. Point(q[i]) = [open |-> c, close |-> c, low |-> c, high |-> c, sum |-> c, points |-> 1]
  BY <1>2 DEF Point
<1>4. QED
  BY <1>1, <1>2, <1>3

LEMMA PointsArePieces ==
  ASSUME NEW q, NEW k, RowSeq(q, k)
  PROVE  Pieces(Points(q, k), k)
<1>1. \A i \in 1 .. k : q[i].price \in Int
  BY DEF RowSeq
<1>2. \A i \in 1 .. k : Piece(Points(q, k)[i])
  BY <1>1, PointsAre DEF Piece
<1>3. Points(q, k) = [i \in 1 .. k |-> Points(q, k)[i]] /\ k \in Nat \ {0}
  BY DEF Points, RowSeq
<1>4. QED
  BY <1>2, <1>3 DEF Pieces

\* What get_candles and get_price_summary compute of their rows.
LEMMA PointsTell ==
  ASSUME NEW q, NEW k, RowSeq(q, k)
  PROVE  /\ Merged(Points(q, k)) =
              [open |-> q[1].price, close |-> Last(q).price,
               low |-> Min(PricesOf(q)), high |-> Max(PricesOf(q)),
               sum |-> Total(q), points |-> Len(q)]
         /\ Piece(Merged(Points(q, k)))
<1> DEFINE p == Points(q, k)
<1>1. /\ k \in Nat \ {0} /\ DOMAIN q = 1 .. k /\ Len(q) = k
      /\ \A i \in 1 .. k : q[i].price \in Int
  BY DEF RowSeq
<1>2. \A i \in 1 .. k :
        /\ p[i].open = q[i].price /\ p[i].close = q[i].price
        /\ p[i].low = q[i].price /\ p[i].high = q[i].price
        /\ p[i].sum = q[i].price /\ p[i].points = 1
  BY PointsAre
<1> HIDE DEF p
<1>3. Merged(p) =
        [open |-> p[1].open, close |-> p[k].close,
         low |-> Min(Values(Lows(p, k), k)), high |-> Max(Values(Highs(p, k), k)),
         sum |-> SumOf(Sums(p, k)), points |-> SumOf(Counts(p, k))]
  BY PointsArePieces, MergedIs DEF p
<1>4. p[1].open = q[1].price /\ p[k].close = Last(q).price
  <2>1. 1 \in 1 .. k /\ k \in 1 .. k
    BY <1>1
  <2>2. QED
    BY <1>1, <1>2, <2>1 DEF Last
<1>5. Values(Lows(p, k), k) = PricesOf(q) /\ Values(Highs(p, k), k) = PricesOf(q)
  BY <1>1, <1>2 DEF Values, Lows, Highs, PricesOf
<1>6. Sums(p, k) = [i \in DOMAIN q |-> q[i].price]
  BY <1>1, <1>2 DEF Sums
<1>7. SumOf(Counts(p, k)) = k
  <2>1. Counts(p, k) \in [1 .. k -> Int] /\ \A i \in 1 .. k : Counts(p, k)[i] = 1
    BY <1>2 DEF Counts
  <2>2. QED
    BY <1>1, <2>1, SumOfOnes
<1>8. Merged(p) =
        [open |-> q[1].price, close |-> Last(q).price,
         low |-> Min(PricesOf(q)), high |-> Max(PricesOf(q)),
         sum |-> Total(q), points |-> Len(q)]
  BY <1>1, <1>3, <1>4, <1>5, <1>6, <1>7 DEF Total
<1>9. /\ q[1].price \in Int /\ Last(q).price \in Int /\ Len(q) \in Int
      /\ Min(PricesOf(q)) \in Int /\ Max(PricesOf(q)) \in Int
  <2>1. 1 \in 1 .. k /\ k \in 1 .. k
    BY <1>1
  <2>2. q[1].price \in Int /\ Last(q).price \in Int /\ Len(q) \in Int
    BY <1>1, <2>1 DEF Last
  <2>3. PICK v : v = [i \in 1 .. k |-> q[i].price]
    OBVIOUS
  <2>4. v \in [1 .. k -> Int] /\ Values(v, k) = PricesOf(q) /\ PricesOf(q) \subseteq Int
    BY <1>1, <2>3 DEF Values, PricesOf
  <2>5. PICK a \in PricesOf(q), b \in PricesOf(q) : \A y \in PricesOf(q) : a <= y /\ b >= y
    BY <1>1, <2>4, ExtremesAre
  <2>6. Min(PricesOf(q)) = a /\ Max(PricesOf(q)) = b
    BY <2>4, <2>5, MinIs, MaxIs
  <2>7. QED
    BY <2>2, <2>4, <2>5, <2>6
<1>10. Total(q) \in Int
  <2>1. PICK v : v = [i \in DOMAIN q |-> q[i].price]
    OBVIOUS
  <2>2. v \in [1 .. k -> Int] /\ k \in Nat
    BY <1>1, <2>1
  <2>3. PICK g \in [0 .. k -> Int] : SumOf(v) = g[k]
    BY <2>2, SumIs
  <2>4. k \in 0 .. k
    BY <1>1
  <2>5. QED
    BY <2>1, <2>3, <2>4 DEF Total
<1>11. Piece(Merged(p))
  BY <1>8, <1>9, <1>10 DEF Piece
<1>12. QED
  BY <1>8, <1>11 DEF p

LEMMA CandleTells ==
  ASSUME NEW q, NEW k, RowSeq(q, k), NEW n
  PROVE  /\ Piece(Candle(q, n))
         /\ \A u : u = [i \in 1 .. 1 |-> Candle(q, n)] => Merged(u) = Merged(Points(q, k))
<1>1. Candle(q, n) =
        [bucket_start |-> BucketStart(q[1], n), bucket_end |-> BucketStart(q[1], n) + n - 1,
         open |-> q[1].price, close |-> Last(q).price,
         high |-> Max(PricesOf(q)), low |-> Min(PricesOf(q)),
         sum |-> Total(q), points |-> Len(q)]
  BY DEF Candle
<1>2. /\ Merged(Points(q, k)) =
           [open |-> q[1].price, close |-> Last(q).price,
            low |-> Min(PricesOf(q)), high |-> Max(PricesOf(q)),
            sum |-> Total(q), points |-> Len(q)]
      /\ Piece(Merged(Points(q, k)))
  BY PointsTell
<1>3. Piece(Candle(q, n))
  BY <1>1, <1>2 DEF Piece
<1>4. ASSUME NEW u, u = [i \in 1 .. 1 |-> Candle(q, n)]
      PROVE  Merged(u) = Merged(Points(q, k))
  <2>1. PICK c : c = Candle(q, n)
    OBVIOUS
  <2>2. u[1] = c /\ Pieces(u, 1)
    BY <1>3, <1>4, <2>1 DEF Pieces
  <2>3. Merged(u) =
          [open |-> c.open, close |-> c.close, low |-> c.low, high |-> c.high,
           sum |-> c.sum, points |-> c.points]
    BY <2>2, MergedOne
  <2>4. QED
    BY <1>1, <1>2, <2>1, <2>3
<1>5. QED
  BY <1>3, <1>4

-----------------------------------------------------------------------------
\* The candles of a set of rows.

Priced(F) ==
  Sortable(F) /\ \A r \in F : r.timestamp \in Nat /\ r.price \in Int

InOrder(F) == Ordered(F, "asc")
PointsOf(F) == Points(InOrder(F), Cardinality(F))

LEMMA PricedPart ==
  ASSUME NEW F, Priced(F), NEW G, G \subseteq F
  PROVE  Priced(G) /\ IsFiniteSet(G) /\ Cardinality(G) \in Nat
BY FS_Subset, FS_CardinalityType DEF Priced, Sortable

LEMMA InOrderIs ==
  ASSUME NEW F, Priced(F), F # {}
  PROVE  /\ RowSeq(InOrder(F), Cardinality(F))
         /\ InOrder(F) \in [1 .. Cardinality(F) -> F]
<1>1. IsFiniteSet(F) /\ Cardinality(F) \in Nat /\ Cardinality(F) # 0
  BY FS_CardinalityType, FS_EmptySet DEF Priced, Sortable
<1>2. InOrder(F) \in Seq(F) /\ Len(InOrder(F)) = Cardinality(F)
  BY OrderedIs DEF Priced, InOrder
<1>3. InOrder(F) \in [1 .. Cardinality(F) -> F]
  BY <1>2
<1>4. \A i \in 1 .. Cardinality(F) : InOrder(F)[i].price \in Int
  BY <1>3 DEF Priced
<1>5. QED
  BY <1>1, <1>3, <1>4 DEF RowSeq

LEMMA BucketStartIs ==
  ASSUME NEW r, r.timestamp \in Nat, NEW n \in Nat \ {0}
  PROVE  /\ BucketStart(r, n) \in Nat /\ BucketStart(r, n) % n = 0
         /\ BucketStart(r, n) <= r.timestamp /\ r.timestamp < BucketStart(r, n) + n
         /\ (BucketStart(r, n) + n) % n = 0
<1>1. PICK x \in Nat : x = r.timestamp
  OBVIOUS
<1>2. PICK q \in Nat : q = x \div n
  OBVIOUS
<1>3. q * n \in Nat /\ q * n <= x /\ x < q * n + n
  BY <1>2
<1>4. (q * n) % n = 0 /\ ((q + 1) * n) % n = 0 /\ (q + 1) * n = q * n + n
  OBVIOUS
<1>5. BucketStart(r, n) = q * n
  BY <1>1, <1>2 DEF BucketStart
<1>6. QED
  BY <1>1, <1>3, <1>4, <1>5

LEMMA CandlesArePieces ==
  ASSUME NEW F, Priced(F), F # {}, NEW n \in Nat \ {0}
  PROVE  Pieces(CandlesOf(F, n), Cardinality(StartRows(F, n)))
<1> DEFINE S == StartRows(F, n)
           k == Cardinality(S)
           starts == Ordered(S, "asc")
           Bucket(start) == {r \in F : BucketStart(r, n) = start}
<1>1. IsFiniteSet(F) /\ \A r \in F : r.timestamp \in Nat
  BY DEF Priced, Sortable
<1>2. /\ starts \in [1 .. k -> S] /\ k \in Nat
      /\ CandlesOf(F, n) =
           [i \in 1 .. k |-> Candle(Ordered(Bucket(starts[i].timestamp), "asc"), n)]
  BY <1>1, CandlesAre
<1>3. k # 0
  <2>1. IsFiniteSet(S)
    BY <1>1, StartRowsSortable DEF Sortable
  <2>2. S # {}
    BY DEF StartRows
  <2>3. QED
    BY <2>1, <2>2, FS_EmptySet
<1>4. \A x \in S : \E r \in F : x.timestamp = BucketStart(r, n)
  BY DEF StartRows
<1> HIDE DEF S, k, starts
<1>5. ASSUME NEW i \in 1 .. k
      PROVE  Piece(Candle(Ordered(Bucket(starts[i].timestamp), "asc"), n))
  <2>1. PICK B : B = Bucket(starts[i].timestamp)
    OBVIOUS
  <2>2. B # {} /\ B \subseteq F
    BY <1>2, <1>4, <2>1
  <2>3. Priced(B)
    BY <2>2, PricedPart
  <2>4. Piece(Candle(InOrder(B), n))
    BY <2>2, <2>3, InOrderIs, CandleTells
  <2>5. QED
    BY <2>1, <2>4 DEF InOrder
<1>6. PICK u : u = CandlesOf(F, n)
  OBVIOUS
<1>7. u = [i \in 1 .. k |-> u[i]] /\ \A i \in 1 .. k : Piece(u[i])
  BY <1>2, <1>5, <1>6
<1>8. Pieces(u, k)
  BY <1>2, <1>3, <1>7 DEF Pieces
<1>9. QED
  BY <1>6, <1>8 DEF k, S

\* The rows of one bucket become one candle.
LEMMA OneBucket ==
  ASSUME NEW F, Priced(F), F # {}, NEW n \in Nat \ {0}, NEW s,
         \A r \in F : BucketStart(r, n) = s
  PROVE  CandlesOf(F, n) = [i \in 1 .. 1 |-> Candle(InOrder(F), n)]
<1> DEFINE S == StartRows(F, n)
           k == Cardinality(S)
           starts == Ordered(S, "asc")
           Bucket(start) == {r \in F : BucketStart(r, n) = start}
<1>1. IsFiniteSet(F) /\ \A r \in F : r.timestamp \in Nat
  BY DEF Priced, Sortable
<1>2. /\ starts \in [1 .. k -> S]
      /\ CandlesOf(F, n) =
           [i \in 1 .. k |-> Candle(Ordered(Bucket(starts[i].timestamp), "asc"), n)]
  BY <1>1, CandlesAre
<1>3. S = {[timestamp |-> s]}
  BY DEF StartRows
<1>4. k = 1
  BY <1>3, FS_Singleton
<1>5. \A x \in S : x.timestamp = s
  BY <1>3
<1> HIDE DEF S, k, starts
<1>6. \A i \in 1 .. k : starts[i].timestamp = s
  BY <1>2, <1>5
<1>7. Bucket(s) = F
  OBVIOUS
<1>8. QED
  BY <1>2, <1>4, <1>6, <1>7 DEF InOrder

LEMMA FirstBucket ==
  ASSUME NEW F, Priced(F), F # {}, NEW n \in Nat \ {0}
  PROVE  \E s \in Nat :
           /\ s % n = 0 /\ (s + n) % n = 0
           /\ \E r \in F : BucketStart(r, n) = s
           /\ \A r \in F : s <= BucketStart(r, n)
<1> DEFINE T == {BucketStart(r, n) : r \in F}
<1>1. \A r \in F : /\ BucketStart(r, n) \in Nat /\ BucketStart(r, n) % n = 0
                   /\ (BucketStart(r, n) + n) % n = 0
  BY BucketStartIs DEF Priced
<1>2. T \subseteq Nat /\ T # {}
  BY <1>1
<1>3. \A r \in F : BucketStart(r, n) \in T
  OBVIOUS
<1>4. \A x \in T : \E r \in F : BucketStart(r, n) = x
  OBVIOUS
<1> HIDE DEF T
<1>5. PICK s \in T : \A y \in T : s <= y
  BY <1>2, LeastNatural
<1>6. PICK r \in F : BucketStart(r, n) = s
  BY <1>4, <1>5
<1>7. QED
  BY <1>1, <1>3, <1>5, <1>6

\* The rows of the first bucket and the others.
LEMMA FirstBucketDivides ==
  ASSUME NEW F, Priced(F), NEW n \in Nat \ {0}, NEW s \in Nat,
         s % n = 0, (s + n) % n = 0, \A r \in F : s <= BucketStart(r, n),
         NEW F1, F1 = {r \in F : BucketStart(r, n) = s}
  PROVE  Divides(F, F1, F \ F1, s + n, n)
<1>1. F = F1 \cup (F \ F1) /\ IsFiniteSet(F1) /\ IsFiniteSet(F \ F1)
  BY FS_Subset DEF Priced, Sortable
<1>2. ASSUME NEW r \in F1
      PROVE  r.timestamp \in Nat /\ r.timestamp < s + n
  BY BucketStartIs DEF Priced
<1>3. ASSUME NEW r \in F \ F1
      PROVE  r.timestamp \in Nat /\ s + n <= r.timestamp
  <2>1. PICK c \in Nat : c = s + n
    OBVIOUS
  <2>2. PICK x \in Nat : x = r.timestamp
    BY DEF Priced
  <2>3. BucketStart(r, n) = (x \div n) * n /\ BucketStart(r, n) # s
    BY <2>2 DEF BucketStart
  <2>4. s <= (x \div n) * n /\ (x \div n) * n # s /\ (x \div n) * n <= x
    BY <2>2, <2>3, BucketStartIs
  <2>5. x < c => (x \div n) * n <= s
    <3>1. PICK q \in Nat : q = x \div n
      OBVIOUS
    <3>2. PICK d \in Nat : s = d * n
      <4>1. s \div n \in Nat /\ s = (s \div n) * n
        OBVIOUS
      <4>2. QED
        BY <4>1
    <3>3. x < c => q * n < d * n + n
      BY <2>1, <2>4, <3>1, <3>2
    <3>4. q > d => q * n >= d * n + n
      <4>1. \A e \in Nat \ {0} : (d + e) * n >= d * n + n
        OBVIOUS
      <4>2. q > d => q - d \in Nat \ {0} /\ d + (q - d) = q
        OBVIOUS
      <4>3. QED
        BY <4>1, <4>2
    <3>5. q <= d => q * n <= d * n
      <4>1. \A e \in Nat : (q + e) * n >= q * n
        OBVIOUS
      <4>2. q <= d => d - q \in Nat /\ q + (d - q) = d
        OBVIOUS
      <4>3. QED
        BY <4>1, <4>2
    <3>6. QED
      BY <3>1, <3>2, <3>3, <3>4, <3>5
  <2>6. (x \div n) * n \in Nat
    OBVIOUS
  <2>7. QED
    BY <2>1, <2>2, <2>4, <2>5, <2>6
<1>4. s + n \in Nat
  OBVIOUS
<1>5. QED
  BY <1>1, <1>2, <1>3, <1>4 DEF Divides

LEMMA PointsFollow ==
  ASSUME NEW F, NEW F1, NEW F2, NEW cut, NEW n, Divides(F, F1, F2, cut, n),
         Priced(F), F1 # {}, F2 # {}
  PROVE  Follows(PointsOf(F), Cardinality(F), PointsOf(F1), Cardinality(F1),
                 PointsOf(F2), Cardinality(F2))
<1>1. /\ F = F1 \cup F2 /\ cut \in Nat
      /\ \A r \in F1 : r.timestamp \in Nat /\ r.timestamp < cut
      /\ \A r \in F2 : r.timestamp \in Nat /\ cut <= r.timestamp
  BY DEF Divides
<1>2. /\ Priced(F1) /\ IsFiniteSet(F1) /\ Cardinality(F1) \in Nat
      /\ Priced(F2) /\ IsFiniteSet(F2) /\ Cardinality(F2) \in Nat
  BY <1>1, PricedPart
<1> DEFINE q == InOrder(F)   k == Cardinality(F)
           q1 == InOrder(F1) k1 == Cardinality(F1)
           q2 == InOrder(F2) k2 == Cardinality(F2)
<1>3. q = q1 \o q2
  <2>1. \A r \in F1, s \in F2 : r.timestamp < s.timestamp
    BY <1>1
  <2>2. Sortable(F1 \cup F2)
    BY <1>1 DEF Priced
  <2>3. QED
    BY <1>1, <2>1, <2>2, OrderedSplits DEF InOrder
<1>4. k = k1 + k2
  <2>1. F1 \cap F2 = {}
    BY <1>1
  <2>2. QED
    BY <1>1, <1>2, <2>1, DisjointSum
<1>5. /\ RowSeq(q1, k1) /\ q1 \in [1 .. k1 -> F1]
      /\ RowSeq(q2, k2) /\ q2 \in [1 .. k2 -> F2]
  BY <1>2, InOrderIs
<1>6. Pieces(Points(q1, k1), k1) /\ Pieces(Points(q2, k2), k2)
  BY <1>5, PointsArePieces
<1>7. k1 \in Nat /\ k2 \in Nat
  BY <1>2
<1> HIDE DEF q, q1, q2, k, k1, k2
<1>8. /\ \A i \in 1 .. k1 : q[i] = q1[i]
      /\ \A i \in 1 .. k2 : q[k1 + i] = q2[i]
  <2>1. q1 \in Seq(F) /\ Len(q1) = k1 /\ q2 \in Seq(F) /\ Len(q2) = k2
    BY <1>1, <1>5, <1>7
  <2>2. \A i \in 1 .. k1 + k2 : q[i] = IF i <= k1 THEN q1[i] ELSE q2[i - k1]
    BY <1>3, <2>1, ConcatProperties
  <2>3. \A i \in 1 .. k2 : k1 + i \in 1 .. k1 + k2 /\ ~(k1 + i <= k1) /\ (k1 + i) - k1 = i
    BY <1>7
  <2>4. \A i \in 1 .. k1 : i \in 1 .. k1 + k2 /\ i <= k1
    BY <1>7
  <2>5. \A i \in 1 .. k2 : q[k1 + i] = q2[i]
    BY <2>2, <2>3
  <2>6. \A i \in 1 .. k1 : q[i] = q1[i]
    BY <2>2, <2>4
  <2>7. QED
    BY <2>5, <2>6
<1>9. \A i \in 1 .. k1 : Points(q, k)[i] = Points(q1, k1)[i]
  <2>1. \A i \in 1 .. k1 : i \in 1 .. k
    BY <1>4, <1>7
  <2>2. QED
    BY <1>8, <2>1 DEF Points
<1>10. \A i \in 1 .. k2 : Points(q, k)[k1 + i] = Points(q2, k2)[i]
  <2>1. \A i \in 1 .. k2 : k1 + i \in 1 .. k
    BY <1>4, <1>7
  <2>2. QED
    BY <1>8, <2>1 DEF Points
<1>11. Points(q, k) = [i \in 1 .. k |-> Points(q, k)[i]]
  BY DEF Points
<1>12. Follows(Points(q, k), k, Points(q1, k1), k1, Points(q2, k2), k2)
  BY <1>4, <1>6, <1>9, <1>10, <1>11 DEF Follows
<1>13. QED
  BY <1>12 DEF PointsOf, q, q1, q2, k, k1, k2

\* The candles of some rows add up to what the rows add up to.
Tells(F, n) == Merged(CandlesOf(F, n)) = Merged(PointsOf(F))

LEMMA OneBucketTells ==
  ASSUME NEW F, Priced(F), F # {}, NEW n \in Nat \ {0}, NEW s,
         \A r \in F : BucketStart(r, n) = s
  PROVE  Tells(F, n)
<1>1. RowSeq(InOrder(F), Cardinality(F))
  BY InOrderIs
<1>2. CandlesOf(F, n) = [i \in 1 .. 1 |-> Candle(InOrder(F), n)]
  BY OneBucket
<1>3. QED
  BY <1>1, <1>2, CandleTells DEF Tells, PointsOf

LEMMA TellsJoins ==
  ASSUME NEW F, NEW F1, NEW F2, NEW cut, NEW n, Divides(F, F1, F2, cut, n),
         Priced(F), F1 # {}, F2 # {}, Tells(F1, n), Tells(F2, n)
  PROVE  Tells(F, n)
<1>1. F = F1 \cup F2 /\ n \in Nat \ {0}
  BY DEF Divides
<1>2. Priced(F1) /\ Priced(F2)
  BY <1>1, PricedPart
<1> DEFINE u == CandlesOf(F1, n)   k == Cardinality(StartRows(F1, n))
           v == CandlesOf(F2, n)   l == Cardinality(StartRows(F2, n))
<1>3. Pieces(u, k) /\ Pieces(v, l)
  BY <1>1, <1>2, CandlesArePieces
<1>4. CandlesOf(F, n) = u \o v
  BY CandlesOfParts
<1> HIDE DEF u, v, k, l
<1>5. Merged(u \o v) = Joined(Merged(u), Merged(v))
  BY <1>3, ConcatFollows, MergedJoins
<1>6. Merged(PointsOf(F)) = Joined(Merged(PointsOf(F1)), Merged(PointsOf(F2)))
  BY PointsFollow, MergedJoins
<1>7. QED
  BY <1>4, <1>5, <1>6 DEF Tells, u, v

LEMMA CandlesTell ==
  ASSUME NEW F, Priced(F), F # {}, NEW n \in Nat \ {0}
  PROVE  Tells(F, n)
<1> DEFINE Bad(k) == \E G \in SUBSET F : G # {} /\ Cardinality(G) = k /\ ~Tells(G, n)
           T == {k \in Nat : Bad(k)}
<1>1. SUFFICES ASSUME T # {} PROVE FALSE
  <2>1. ASSUME ~Tells(F, n)
        PROVE  T # {}
    <3>1. Cardinality(F) \in Nat
      BY PricedPart
    <3>2. Bad(Cardinality(F))
      BY <2>1
    <3>3. QED
      BY <3>1, <3>2
  <2>2. QED
    BY <2>1
<1>2. T \subseteq Nat
  OBVIOUS
<1> HIDE DEF T
<1>3. PICK k \in T : \A y \in T : k <= y
  BY <1>1, <1>2, LeastNatural
<1>4. PICK G \in SUBSET F : G # {} /\ Cardinality(G) = k /\ ~Tells(G, n)
  BY <1>3 DEF T
<1>5. Priced(G) /\ IsFiniteSet(G) /\ k \in Nat
  BY <1>2, <1>4, PricedPart
<1>6. PICK s \in Nat :
        /\ s % n = 0 /\ (s + n) % n = 0
        /\ \E r \in G : BucketStart(r, n) = s
        /\ \A r \in G : s <= BucketStart(r, n)
  BY <1>4, <1>5, FirstBucket
<1>7. PICK F1 : F1 = {r \in G : BucketStart(r, n) = s}
  OBVIOUS
<1>8. PICK F2 : F2 = G \ F1
  OBVIOUS
<1>9. F1 # {} /\ F1 \subseteq G /\ \A r \in F1 : BucketStart(r, n) = s
  BY <1>6, <1>7
<1>10. Priced(F1) /\ Tells(F1, n)
  BY <1>5, <1>9, PricedPart, OneBucketTells
<1>11. Divides(G, F1, F2, s + n, n)
  BY <1>5, <1>6, <1>7, <1>8, FirstBucketDivides
<1>12. CASE F2 = {}
  <2>1. G = F1
    BY <1>8, <1>9, <1>12
  <2>2. QED
    BY <1>4, <1>10, <2>1
<1>13. CASE F2 # {}
  <2>1. F2 \subseteq G /\ F2 # G /\ F2 \in SUBSET F
    BY <1>4, <1>8, <1>9
  <2>2. Cardinality(F2) \in Nat /\ Cardinality(F2) < k
    BY <1>4, <1>5, <2>1, FS_Subset, FS_CardinalityType
  <2>3. Tells(F2, n)
    <3>1. ASSUME ~Tells(F2, n)
          PROVE  FALSE
      <4>1. Cardinality(F2) \in T
        BY <1>13, <2>1, <2>2, <3>1 DEF T
      <4>2. k <= Cardinality(F2)
        BY <1>3, <4>1
      <4>3. QED
        BY <1>5, <2>2, <4>2
    <3>2. QED
      BY <3>1
  <2>4. Tells(G, n)
    BY <1>5, <1>9, <1>10, <1>11, <1>13, <2>3, TellsJoins
  <2>5. QED
    BY <1>4, <2>4
<1>14. QED
  BY <1>12, <1>13

-----------------------------------------------------------------------------
\* The rows that the query limit leaves.

LEMMA FirstPageIs ==
  ASSUME NEW F, Sortable(F), NEW limit \in Nat \ {0},
         NEW page, page = Page(InOrder(F), limit, 0)
  PROVE  \E m \in Nat :
           /\ page \in [1 .. m -> F] /\ m <= Cardinality(F)
           /\ m = limit \/ m = Cardinality(F)
           /\ \A i \in 1 .. m : page[i] = InOrder(F)[i]
<1> DEFINE n == Cardinality(F)
           q == InOrder(F)
           m == IF limit <= n THEN limit ELSE n
<1>1. n \in Nat /\ q \in Seq(F) /\ Len(q) = n
  BY OrderedIs DEF InOrder
<1> HIDE DEF n, q
<1>2. Min({0 + limit, Len(q)}) = m
  BY <1>1, MinOfTwo
<1>3. m \in Nat /\ m <= n /\ (m = limit \/ m = n)
  BY <1>1
<1> HIDE DEF m
<1>4. PICK z \in Nat : z = 0 /\ page = SubSeq(q, z + 1, m)
  BY <1>2 DEF Page, q
<1>5. /\ page \in Seq(F) /\ Len(page) = IF z < m THEN m - z ELSE 0
      /\ \A i \in 1 .. m - z : page[i] = q[z + i]
  BY <1>1, <1>3, <1>4, SubSeqIs
<1>6. Len(page) = m /\ \A i \in 1 .. m : page[i] = q[i]
  BY <1>3, <1>4, <1>5
<1>7. page \in [1 .. m -> F]
  BY <1>5, <1>6
<1>8. QED
  BY <1>3, <1>6, <1>7 DEF n, q

\* The first page of some rows is the rows of that page, in order.
LEMMA FirstPageInOrder ==
  ASSUME NEW F, Sortable(F), NEW limit \in Nat \ {0},
         NEW page, page = Page(InOrder(F), limit, 0), NEW P, P = Range(page)
  PROVE  /\ P \subseteq F /\ InOrder(P) = page
         /\ (P = {}) <=> (page = <<>>)
<1>1. PICK m \in Nat :
        /\ page \in [1 .. m -> F] /\ m <= Cardinality(F)
        /\ m = limit \/ m = Cardinality(F)
        /\ \A i \in 1 .. m : page[i] = InOrder(F)[i]
  BY FirstPageIs
<1>2. /\ P \subseteq F /\ \A i \in 1 .. m : page[i] \in P
      /\ \A r \in P : \E i \in 1 .. m : r = page[i]
  BY <1>1 DEF Range
<1>3. Sortable(P)
  BY <1>2, FS_Subset DEF Sortable
<1>4. /\ Cardinality(F) \in Nat
      /\ \A r \in F : InOrder(F)[Rank(F, r, "asc") + 1] = r
      /\ \A i \in 1 .. Cardinality(F) : Rank(F, InOrder(F)[i], "asc") = i - 1
  BY OrderedIs DEF InOrder
<1>5. \A i \in 1 .. m : Rank(F, page[i], "asc") = i - 1
  BY <1>1, <1>4
<1>6. \A r \in P : Rank(F, r, "asc") \in Nat /\ Rank(F, r, "asc") < m
  BY <1>2, <1>5
<1>7. ASSUME NEW s \in F, Rank(F, s, "asc") < m
      PROVE  s \in P
  <2>1. PICK k \in Nat : k = Rank(F, s, "asc")
    BY RankBounds
  <2>2. k + 1 \in 1 .. m
    BY <1>7, <2>1
  <2>3. page[k + 1] = s
    BY <1>1, <1>4, <2>1, <2>2
  <2>4. QED
    BY <1>2, <2>2, <2>3
<1>8. ASSUME NEW r \in P
      PROVE  Rank(P, r, "asc") = Rank(F, r, "asc")
  <2>1. ASSUME NEW s \in F, Before(s, r, "asc")
        PROVE  s \in P
    <3>1. Rank(F, s, "asc") < Rank(F, r, "asc") /\ Rank(F, s, "asc") \in Nat
      BY <1>2, <2>1, RankGrows, RankBounds
    <3>2. Rank(F, s, "asc") < m
      BY <1>6, <3>1
    <3>3. QED
      BY <1>7, <3>2
  <2>2. {s \in P : Before(s, r, "asc")} = {s \in F : Before(s, r, "asc")}
    BY <1>2, <2>1
  <2>3. QED
    BY <2>2 DEF Rank
<1>9. /\ InOrder(P) \in Seq(P) /\ Len(InOrder(P)) = Cardinality(P) /\ Cardinality(P) \in Nat
      /\ \A r \in P : InOrder(P)[Rank(P, r, "asc") + 1] = r
      /\ \A i \in 1 .. Cardinality(P) : Rank(P, InOrder(P)[i], "asc") = i - 1
  BY <1>3, OrderedIs DEF InOrder
<1>10. \A i \in 1 .. m : Rank(P, page[i], "asc") = i - 1
  BY <1>2, <1>5, <1>8
<1>11. Cardinality(P) = m
  <2>1. m <= Cardinality(P)
    <3>1. CASE m # 0
      <4>1. m \in 1 .. m
        BY <3>1
      <4>2. Rank(P, page[m], "asc") < Cardinality(P)
        BY <1>2, <1>3, <4>1, RankBounds
      <4>3. QED
        BY <1>9, <1>10, <4>1, <4>2
    <3>2. QED
      BY <1>9, <3>1
  <2>2. Cardinality(P) <= m
    <3>1. CASE Cardinality(P) # 0
      <4>1. PICK k : k = Cardinality(P)
        OBVIOUS
      <4>2. k \in 1 .. k /\ InOrder(P)[k] \in P /\ k \in Nat
        BY <1>9, <3>1, <4>1
      <4>3. k - 1 < m
        BY <1>6, <1>8, <1>9, <4>1, <4>2
      <4>4. QED
        BY <4>1, <4>2, <4>3
    <3>2. QED
      BY <1>9, <3>1
  <2>3. QED
    BY <1>9, <2>1, <2>2
<1>12. \A i \in 1 .. m : InOrder(P)[i] = page[i]
  <2>1. ASSUME NEW i \in 1 .. m
        PROVE  InOrder(P)[i] = page[i]
    <3>1. InOrder(P)[Rank(P, page[i], "asc") + 1] = page[i]
      BY <1>2, <1>9
    <3>2. Rank(P, page[i], "asc") + 1 = i
      BY <1>10
    <3>3. QED
      BY <3>1, <3>2
  <2>2. QED
    BY <2>1
<1>13. InOrder(P) = page
  <2>1. InOrder(P) = [i \in 1 .. m |-> InOrder(P)[i]] /\ page = [i \in 1 .. m |-> page[i]]
    BY <1>1, <1>9, <1>11
  <2>2. QED
    BY <1>12, <2>1
<1>14. (P = {}) <=> (page = <<>>)
  <2>1. (page = <<>>) <=> (m = 0)
    <3>1. page \in Seq(F) /\ Len(page) = m
      BY <1>1
    <3>2. QED
      BY <3>1
  <2>2. (P = {}) <=> (Cardinality(P) = 0)
    BY <1>3, FS_EmptySet DEF Sortable
  <2>3. QED
    BY <1>11, <2>1, <2>2
<1>15. QED
  BY <1>2, <1>13, <1>14

LEMMA FoundPriced ==
  ASSUME RowsOK(rows), NEW ticker, NEW from, NEW to
  PROVE  Priced(Found(ticker, from, to))
<1> DEFINE F == Found(ticker, from, to)
<1>1. F \subseteq rows /\ \A r \in F : r.ticker = ticker
  BY DEF Found
<1>2. Sortable(F)
  BY <1>1, TickerSortable
<1>3. \A r \in rows : r.timestamp \in Nat
  BY RowsAre
<1>4. \A r \in rows : r.price \in Int
  BY ReadsAssumption DEF RowsOK, Row
<1>5. QED
  BY <1>1, <1>2, <1>3, <1>4 DEF Priced

LEMMA NoCandles ==
  ASSUME NEW F, F = {}, NEW n \in Nat \ {0}
  PROVE  CandlesOf(F, n) = <<>>
<1>1. IsFiniteSet(F) /\ \A r \in F : r.timestamp \in Nat
  BY FS_EmptySet
<1>2. Cardinality(StartRows(F, n)) = 0
  BY FS_EmptySet DEF StartRows
<1>3. CandlesOf(F, n) =
        [i \in 1 .. Cardinality(StartRows(F, n)) |->
           Candle(Ordered({r \in F : BucketStart(r, n)
                                     = Ordered(StartRows(F, n), "asc")[i].timestamp},
                          "asc"), n)]
  BY <1>1, CandlesAre
<1>4. QED
  BY <1>2, <1>3

\* The rows that the candles and the summary of a range are made of.
Analysed(P, page, ticker, from, to) ==
  /\ Priced(P) /\ P \subseteq Found(ticker, from, to)
  /\ page = GetByTickerAndDateRange(rows, ticker, from, to, QueryLimit, 0, "asc")
  /\ InOrder(P) = page /\ ((P = {}) <=> (page = <<>>))
  /\ \A n : GetCandles(rows, ticker, n, from, to) = CandlesOf(P, n)

LEMMA AnalysedExist ==
  ASSUME RowsOK(rows), NEW ticker, NEW from, NEW to
  PROVE  \E P, page : Analysed(P, page, ticker, from, to)
<1>1. PICK F : F = Found(ticker, from, to)
  OBVIOUS
<1>2. PICK page : page = GetByTickerAndDateRange(rows, ticker, from, to, QueryLimit, 0, "asc")
  OBVIOUS
<1>3. PICK P : P = Range(page)
  OBVIOUS
<1>4. Priced(F)
  BY <1>1, FoundPriced
<1>5. page = Page(InOrder(F), QueryLimit, 0)
  BY <1>1, <1>2 DEF GetByTickerAndDateRange, InOrder, Found
<1>6. P \subseteq F /\ InOrder(P) = page /\ ((P = {}) <=> (page = <<>>))
  BY <1>3, <1>4, <1>5, QueryLimitAssumption, FirstPageInOrder DEF Priced
<1>7. Priced(P)
  BY <1>4, <1>6, PricedPart
<1>8. \A n : GetCandles(rows, ticker, n, from, to) = CandlesOf(P, n)
  BY <1>2, <1>3 DEF GetCandles
<1>9. QED
  BY <1>1, <1>2, <1>6, <1>7, <1>8 DEF Analysed

\* What the summary says, as Merged does.
Told(summary) ==
  [open |-> summary.start, close |-> summary.end, low |-> summary.min,
   high |-> summary.max, sum |-> summary.sum, points |-> summary.points]

LEMMA SummaryIs ==
  ASSUME NEW P, NEW page, NEW ticker, NEW from, NEW to, Analysed(P, page, ticker, from, to)
  PROVE  LET summary == GetPriceSummary(rows, ticker, from, to)
         IN  IF P = {} THEN summary = None
             ELSE summary # None /\ Told(summary) = Merged(PointsOf(P))
<1> DEFINE start == Head(page).price
           change == Last(page).price - start
<1>1. /\ Priced(P) /\ InOrder(P) = page /\ ((P = {}) <=> (page = <<>>))
      /\ page = GetByTickerAndDateRange(rows, ticker, from, to, QueryLimit, 0, "asc")
  BY DEF Analysed
<1>2. PICK summary : summary = GetPriceSummary(rows, ticker, from, to)
  OBVIOUS
<1>3. summary =
        IF page = <<>> THEN None
        ELSE [points |-> Len(page), sum |-> Total(page),
              min |-> Min(PricesOf(page)), max |-> Max(PricesOf(page)),
              start |-> start, end |-> Last(page).price, change |-> change,
              percent |-> Percent(change, start), trend |-> Trend(change)]
  BY <1>1, <1>2 DEF GetPriceSummary
<1>4. CASE P # {}
  <2>1. RowSeq(page, Cardinality(P))
    BY <1>1, <1>4, InOrderIs
  <2>2. Merged(PointsOf(P)) =
          [open |-> page[1].price, close |-> Last(page).price,
           low |-> Min(PricesOf(page)), high |-> Max(PricesOf(page)),
           sum |-> Total(page), points |-> Len(page)]
    BY <1>1, <2>1, PointsTell DEF PointsOf
  <2>3. start = page[1].price
    <3>1. PICK k \in Nat \ {0} : page = [i \in 1 .. k |-> page[i]]
      BY <2>1 DEF RowSeq
    <3>2. page \in Seq({page[i] : i \in 1 .. k}) /\ page # <<>>
      BY <1>1, <1>4, <3>1
    <3>3. QED
      BY <3>2
  <2>4. /\ summary.start = page[1].price /\ summary.end = Last(page).price
        /\ summary.min = Min(PricesOf(page)) /\ summary.max = Max(PricesOf(page))
        /\ summary.sum = Total(page) /\ summary.points = Len(page)
        /\ "sum" \in DOMAIN summary
    BY <1>1, <1>3, <1>4, <2>3
  <2>5. summary # None
    BY <2>4 DEF None
  <2>6. Told(summary) = Merged(PointsOf(P))
    BY <2>2, <2>4 DEF Told
  <2>7. QED
    BY <1>2, <1>4, <2>5, <2>6
<1>5. CASE P = {}
  BY <1>1, <1>2, <1>3, <1>5
<1>6. QED
  BY <1>4, <1>5

LEMMA SummaryMatches == IInv => CandlesMatchSummary
<1> SUFFICES ASSUME IInv, client.state = "analytics"
             PROVE  CandlesMatchSummary
  BY DEF CandlesMatchSummary
<1>1. RowsOK(rows)
  BY TypeParts DEF IInv
<1>2. PICK ticker, from, to : ticker = client.ticker /\ from = client.from /\ to = client.to
  OBVIOUS
<1>3. PICK P, page : Analysed(P, page, ticker, from, to)
  BY <1>1, AnalysedExist
<1>4. PICK summary : summary = GetPriceSummary(rows, ticker, from, to)
  OBVIOUS
<1>5. IF P = {} THEN summary = None
      ELSE summary # None /\ Told(summary) = Merged(PointsOf(P))
  BY <1>3, <1>4, SummaryIs
<1>6. \A n : Candles(n) = CandlesOf(P, n)
  BY <1>2, <1>3 DEF Candles, Analysed
<1>7. \A n \in Intervals : n \in Nat \ {0}
  BY ReadsAssumption
<1>8. ASSUME NEW n \in Intervals
      PROVE  IF summary = None THEN Candles(n) = <<>>
             ELSE Merged(Candles(n)) = Told(summary)
  <2>1. CASE P = {}
    BY <1>5, <1>6, <1>7, <2>1, NoCandles
  <2>2. CASE P # {}
    <3>1. Tells(P, n)
      BY <1>3, <1>7, <2>2, CandlesTell DEF Analysed
    <3>2. QED
      BY <1>5, <1>6, <2>2, <3>1 DEF Tells
  <2>3. QED
    BY <2>1, <2>2
<1>9. QED
  BY <1>2, <1>4, <1>8 DEF CandlesMatchSummary, Told

-----------------------------------------------------------------------------
\* The candles of a shorter interval inside a candle.

LEMMA MultipleOf ==
  ASSUME NEW m \in Nat \ {0}, NEW n \in Nat \ {0}, NEW s \in Nat, n % m = 0, s % n = 0
  PROVE  s % m = 0
<1>1. PICK a \in Nat : s = a * n
  <2>1. s \div n \in Nat /\ s = (s \div n) * n
    OBVIOUS
  <2>2. QED
    BY <2>1
<1>2. PICK b \in Nat : n = b * m
  <2>1. n \div m \in Nat /\ n = (n \div m) * m
    OBVIOUS
  <2>2. QED
    BY <2>1
<1>3. s = (a * b) * m /\ a * b \in Nat
  BY <1>1, <1>2
<1>4. \A e \in Nat : (e * m) % m = 0
  OBVIOUS
<1>5. QED
  BY <1>3, <1>4

LEMMA NextMultiple ==
  ASSUME NEW m \in Nat \ {0}, NEW a \in Nat, NEW b \in Nat, a % m = 0, b % m = 0, a < b
  PROVE  a + m <= b
<1>1. PICK d \in Nat : a = d * m
  <2>1. a \div m \in Nat /\ a = (a \div m) * m
    OBVIOUS
  <2>2. QED
    BY <2>1
<1>2. PICK e \in Nat : b = e * m
  <2>1. b \div m \in Nat /\ b = (b \div m) * m
    OBVIOUS
  <2>2. QED
    BY <2>1
<1>3. e > d
  <2>1. \A x \in Nat : (e + x) * m >= e * m
    OBVIOUS
  <2>2. ASSUME e <= d
        PROVE  FALSE
    <3>1. d - e \in Nat /\ e + (d - e) = d
      BY <2>2
    <3>2. a >= b
      BY <1>1, <1>2, <2>1, <3>1
    <3>3. QED
      BY <3>2
  <2>3. QED
    BY <2>2
<1>4. \A x \in Nat \ {0} : (d + x) * m >= d * m + m
  OBVIOUS
<1>5. e - d \in Nat \ {0} /\ d + (e - d) = e
  BY <1>3
<1>6. QED
  BY <1>1, <1>2, <1>4, <1>5

\* The candle of the bucket B, whose rows are those with the start s.
IsCandle(c, B, s, F, n) ==
  /\ s \in Nat /\ s % n = 0 /\ (s + n) % n = 0
  /\ B = {r \in F : BucketStart(r, n) = s} /\ B # {}
  /\ c = Candle(InOrder(B), n) /\ c.bucket_start = s /\ c.bucket_end = s + n - 1

LEMMA CandleIs ==
  ASSUME NEW F, Priced(F), NEW n \in Nat \ {0}, NEW i \in DOMAIN CandlesOf(F, n)
  PROVE  \E B, s : IsCandle(CandlesOf(F, n)[i], B, s, F, n)
<1> DEFINE S == StartRows(F, n)
           k == Cardinality(S)
           starts == Ordered(S, "asc")
           Bucket(start) == {r \in F : BucketStart(r, n) = start}
<1>1. IsFiniteSet(F) /\ \A r \in F : r.timestamp \in Nat
  BY DEF Priced, Sortable
<1>2. /\ starts \in [1 .. k -> S] /\ k \in Nat
      /\ CandlesOf(F, n) =
           [j \in 1 .. k |-> Candle(Ordered(Bucket(starts[j].timestamp), "asc"), n)]
  BY <1>1, CandlesAre
<1>3. \A x \in S : \E r \in F : x.timestamp = BucketStart(r, n)
  BY DEF StartRows
<1> HIDE DEF S, k, starts
<1>4. i \in 1 .. k
  BY <1>2
<1>5. PICK s : s = starts[i].timestamp
  OBVIOUS
<1>6. PICK r \in F : s = BucketStart(r, n)
  BY <1>2, <1>3, <1>4, <1>5
<1>7. s \in Nat /\ s % n = 0 /\ (s + n) % n = 0
  BY <1>1, <1>6, BucketStartIs
<1>8. PICK B : B = Bucket(s)
  OBVIOUS
<1>9. B # {} /\ Priced(B)
  BY <1>6, <1>8, PricedPart
<1>10. PICK q : q = InOrder(B)
  OBVIOUS
<1>11. q[1] \in B
  <2>1. RowSeq(q, Cardinality(B)) /\ q \in [1 .. Cardinality(B) -> B]
    BY <1>9, <1>10, InOrderIs
  <2>2. 1 \in 1 .. Cardinality(B)
    BY <2>1 DEF RowSeq
  <2>3. QED
    BY <2>1, <2>2
<1>12. BucketStart(q[1], n) = s
  BY <1>8, <1>11
<1>13. PICK c : c = CandlesOf(F, n)[i]
  OBVIOUS
<1>14. c = Candle(q, n)
  BY <1>2, <1>4, <1>5, <1>8, <1>10, <1>13 DEF InOrder
<1>15. c.bucket_start = s /\ c.bucket_end = s + n - 1
  BY <1>12, <1>14 DEF Candle
<1>16. IsCandle(c, B, s, F, n)
  BY <1>7, <1>8, <1>9, <1>10, <1>14, <1>15 DEF IsCandle
<1>17. QED
  BY <1>13, <1>16

\* The rows before a bucket, those of the bucket and those after it.
Around(F, F1, B, F2, s, n) ==
  /\ F1 = {r \in F : BucketStart(r, n) < s}
  /\ B = {r \in F : BucketStart(r, n) = s}
  /\ F2 = {r \in F : BucketStart(r, n) > s}

LEMMA BucketDivides ==
  ASSUME NEW F, Priced(F), NEW n \in Nat \ {0}, NEW s \in Nat,
         s % n = 0, (s + n) % n = 0, NEW m \in Nat \ {0}, n % m = 0,
         NEW F1, NEW B, NEW F2, Around(F, F1, B, F2, s, n)
  PROVE  Divides(F, F1, B \cup F2, s, m) /\ Divides(B \cup F2, B, F2, s + n, m)
<1>1. /\ F1 = {r \in F : BucketStart(r, n) < s}
      /\ B = {r \in F : BucketStart(r, n) = s}
      /\ F2 = {r \in F : BucketStart(r, n) > s}
  BY DEF Around
<1>2. \A r \in F : /\ r.timestamp \in Nat /\ BucketStart(r, n) \in Nat
                   /\ BucketStart(r, n) <= r.timestamp
  BY BucketStartIs DEF Priced
<1>3. PICK G : G = B \cup F2
  OBVIOUS
<1>4. F = F1 \cup G /\ F1 \subseteq F /\ G \subseteq F /\ B \subseteq G /\ F2 = G \ B
  BY <1>1, <1>2, <1>3
<1>5. Priced(G) /\ IsFiniteSet(G) /\ IsFiniteSet(F1)
  BY <1>4, PricedPart
<1>6. s % m = 0 /\ (s + n) % m = 0 /\ s + n \in Nat
  <2>1. PICK t \in Nat : t = s + n
    OBVIOUS
  <2>2. s % m = 0 /\ t % m = 0
    BY <2>1, MultipleOf
  <2>3. QED
    BY <2>1, <2>2
<1>7. \A r \in F1 : r.timestamp < s
  <2>1. ASSUME NEW r \in F1, ~(r.timestamp < s)
        PROVE  FALSE
    <3>1. PICK x \in Nat : x = r.timestamp
      BY <1>2, <1>4
    <3>2. s <= (x \div n) * n
      <4>1. s <= x
        BY <2>1, <3>1
      <4>2. s <= x => s <= (x \div n) * n
        BY FloorIs
      <4>3. QED
        BY <4>1, <4>2
    <3>3. BucketStart(r, n) = (x \div n) * n
      BY <3>1 DEF BucketStart
    <3>4. QED
      BY <1>1, <1>2, <3>2, <3>3
  <2>2. QED
    BY <2>1
<1>8. \A r \in G : s <= BucketStart(r, n) /\ s <= r.timestamp
  BY <1>1, <1>2, <1>3
<1>9. Divides(F, F1, G, s, m)
  BY <1>2, <1>4, <1>5, <1>6, <1>7, <1>8 DEF Divides
<1>10. Divides(G, B, F2, s + n, n)
  <2>1. B = {r \in G : BucketStart(r, n) = s}
    BY <1>1, <1>3
  <2>2. QED
    BY <1>4, <1>5, <1>8, <2>1, FirstBucketDivides
<1>11. Divides(G, B, F2, s + n, m)
  BY <1>6, <1>10 DEF Divides
<1>12. QED
  BY <1>3, <1>9, <1>11

List(u, k) == k \in Nat /\ u = [i \in 1 .. k |-> u[i]]

\* The elements first .. last of w are those of u2.
InParts(w, u1, k1, u2, k2, u3, k3, first, last) ==
  /\ List(u1, k1) /\ List(u2, k2) /\ List(u3, k3) /\ k2 # 0
  /\ w = u1 \o (u2 \o u3) /\ first = k1 + 1 /\ last = k1 + k2

LEMMA PartsAre ==
  ASSUME NEW w, NEW u1, NEW k1, NEW u2, NEW k2, NEW u3, NEW k3, NEW first, NEW last,
         InParts(w, u1, k1, u2, k2, u3, k3, first, last)
  PROVE  /\ first \in DOMAIN w /\ last \in DOMAIN w /\ first <= last
         /\ DOMAIN w \subseteq Nat
         /\ SubSeq(w, first, last) = u2
         /\ \A j \in DOMAIN w :
              \/ j \in first .. last /\ \E i \in 1 .. k2 : w[j] = u2[i]
              \/ j \notin first .. last /\ \E i \in 1 .. k1 : w[j] = u1[i]
              \/ j \notin first .. last /\ \E i \in 1 .. k3 : w[j] = u3[i]
<1>1. /\ k1 \in Nat /\ u1 = [i \in 1 .. k1 |-> u1[i]]
      /\ k2 \in Nat \ {0} /\ u2 = [i \in 1 .. k2 |-> u2[i]]
      /\ k3 \in Nat /\ u3 = [i \in 1 .. k3 |-> u3[i]]
      /\ w = u1 \o (u2 \o u3) /\ first = k1 + 1 /\ last = k1 + k2
  BY DEF InParts, List
<1> DEFINE T == {u1[i] : i \in 1 .. k1} \cup {u2[i] : i \in 1 .. k2} \cup {u3[i] : i \in 1 .. k3}
<1>2. u1 \in [1 .. k1 -> T] /\ u2 \in [1 .. k2 -> T] /\ u3 \in [1 .. k3 -> T]
  BY <1>1
<1> HIDE DEF T
<1>3. /\ u1 \in Seq(T) /\ Len(u1) = k1
      /\ u2 \in Seq(T) /\ Len(u2) = k2
      /\ u3 \in Seq(T) /\ Len(u3) = k3
  BY <1>1, <1>2
<1>4. PICK x : x = u2 \o u3
  OBVIOUS
<1>5. /\ x \in Seq(T) /\ Len(x) = k2 + k3
      /\ \A i \in 1 .. k2 + k3 : x[i] = IF i <= k2 THEN u2[i] ELSE u3[i - k2]
  BY <1>3, <1>4, ConcatProperties
<1>6. PICK k \in Nat : k = k2 + k3
  BY <1>1
<1>7. x \in Seq(T) /\ Len(x) = k /\ w = u1 \o x
  BY <1>1, <1>4, <1>5, <1>6
<1>8. /\ w \in Seq(T) /\ Len(w) = k1 + k
      /\ \A i \in 1 .. k1 + k : w[i] = IF i <= k1 THEN u1[i] ELSE x[i - k1]
  BY <1>3, <1>7, ConcatProperties
<1>9. DOMAIN w = 1 .. k1 + k /\ last \in Nat /\ last <= Len(w)
  BY <1>1, <1>6, <1>8
<1>10. \A i \in 1 .. k2 : w[k1 + i] = u2[i]
  <2>1. \A i \in 1 .. k2 : /\ k1 + i \in 1 .. k1 + k /\ ~(k1 + i <= k1) /\ (k1 + i) - k1 = i
                           /\ i \in 1 .. k2 + k3 /\ i <= k2
    BY <1>1, <1>6
  <2>2. QED
    BY <1>5, <1>8, <2>1
<1>11. SubSeq(w, first, last) = u2
  <2>1. PICK page : page = SubSeq(w, k1 + 1, last)
    OBVIOUS
  <2>2. /\ page \in Seq(T) /\ Len(page) = IF k1 < last THEN last - k1 ELSE 0
        /\ \A i \in 1 .. last - k1 : page[i] = w[k1 + i]
    <3>1. w \in Seq(T) /\ k1 \in Nat /\ last \in Nat /\ last <= Len(w)
      BY <1>1, <1>8, <1>9
    <3>2. QED
      BY <2>1, <3>1, SubSeqIs
  <2>3. last - k1 = k2 /\ k1 < last
    BY <1>1
  <2>4. page = [i \in 1 .. k2 |-> page[i]] /\ \A i \in 1 .. k2 : page[i] = u2[i]
    BY <1>10, <2>2, <2>3
  <2>5. QED
    BY <1>1, <2>1, <2>4
<1>12. ASSUME NEW j \in DOMAIN w
       PROVE  \/ j \in first .. last /\ \E i \in 1 .. k2 : w[j] = u2[i]
              \/ j \notin first .. last /\ \E i \in 1 .. k1 : w[j] = u1[i]
              \/ j \notin first .. last /\ \E i \in 1 .. k3 : w[j] = u3[i]
  <2>1. CASE j <= k1
    <3>1. j \in 1 .. k1 /\ w[j] = u1[j] /\ j \notin first .. last
      BY <1>1, <1>6, <1>8, <1>9, <2>1
    <3>2. QED
      BY <3>1
  <2>2. CASE ~(j <= k1) /\ j <= last
    <3>1. j \in first .. last /\ j - k1 \in 1 .. k2 /\ k1 + (j - k1) = j
      BY <1>1, <1>9, <2>2
    <3>2. w[j] = u2[j - k1]
      BY <1>10, <3>1
    <3>3. QED
      BY <3>1, <3>2
  <2>3. CASE ~(j <= last)
    <3>1. /\ j \in 1 .. k1 + k /\ ~(j <= k1) /\ j \notin first .. last
          /\ j - k1 \in 1 .. k2 + k3 /\ ~(j - k1 <= k2)
          /\ j - last \in 1 .. k3 /\ (j - k1) - k2 = j - last
      BY <1>1, <1>6, <1>9, <2>3
    <3>2. w[j] = x[j - k1] /\ x[j - k1] = u3[j - last]
      BY <1>5, <1>8, <3>1
    <3>3. QED
      BY <3>1, <3>2
  <2>4. QED
    BY <2>1, <2>2, <2>3
<1>13. first \in DOMAIN w /\ last \in DOMAIN w /\ first <= last /\ DOMAIN w \subseteq Nat
  BY <1>1, <1>6, <1>9
<1>14. QED
  BY <1>11, <1>12, <1>13

LEMMA CandlesList ==
  ASSUME NEW F, Priced(F), NEW m \in Nat \ {0}
  PROVE  /\ List(CandlesOf(F, m), Cardinality(StartRows(F, m)))
         /\ F # {} => Cardinality(StartRows(F, m)) # 0
         /\ \A i \in 1 .. Cardinality(StartRows(F, m)) :
              \E r \in F : /\ CandlesOf(F, m)[i].bucket_start = BucketStart(r, m)
                           /\ CandlesOf(F, m)[i].bucket_end = BucketStart(r, m) + m - 1
<1>1. PICK k, u : k = Cardinality(StartRows(F, m)) /\ u = CandlesOf(F, m)
  OBVIOUS
<1>2. IsFiniteSet(F) /\ \A r \in F : r.timestamp \in Nat
  BY DEF Priced, Sortable
<1>3. k \in Nat /\ u = [i \in 1 .. k |-> u[i]]
  <2>1. PICK starts : starts = Ordered(StartRows(F, m), "asc")
    OBVIOUS
  <2>2. /\ k \in Nat
        /\ u = [i \in 1 .. k |->
                  Candle(Ordered({r \in F : BucketStart(r, m) = starts[i].timestamp},
                                 "asc"), m)]
    BY <1>1, <1>2, <2>1, CandlesAre
  <2>3. QED
    BY <2>2
<1>4. F # {} => k # 0
  BY <1>1, CandlesArePieces DEF Pieces
<1>5. ASSUME NEW i \in 1 .. k
      PROVE  \E r \in F : /\ u[i].bucket_start = BucketStart(r, m)
                          /\ u[i].bucket_end = BucketStart(r, m) + m - 1
  <2>1. i \in DOMAIN u
    BY <1>3
  <2>2. PICK B, s : IsCandle(u[i], B, s, F, m)
    BY <1>1, <2>1, CandleIs
  <2>3. /\ u[i].bucket_start = s /\ u[i].bucket_end = s + m - 1
        /\ B = {r \in F : BucketStart(r, m) = s} /\ B # {}
    BY <2>2 DEF IsCandle
  <2>4. QED
    BY <2>3
<1>6. QED
  BY <1>1, <1>3, <1>4, <1>5 DEF List

Within(c, d) == c.bucket_start <= d.bucket_start /\ d.bucket_end <= c.bucket_end

\* The candles u inside the candle c are first .. last, and c is their union.
Nests(c, u, first, last) ==
  /\ first \in DOMAIN u /\ last \in DOMAIN u /\ first <= last /\ DOMAIN u \subseteq Nat
  /\ \A j \in DOMAIN u : j \in first .. last <=> Within(c, u[j])
  /\ \A f \in DOMAIN Merged(SubSeq(u, first, last)) :
       Merged(SubSeq(u, first, last))[f] = c[f]

\* A candle of the shorter interval is inside the bucket of a row it is of.
LEMMA BucketBounds ==
  ASSUME NEW F, NEW F1, NEW B, NEW F2, NEW s, NEW m, NEW t,
         Divides(F, F1, B \cup F2, s, m), Divides(B \cup F2, B, F2, t, m)
  PROVE  /\ \A r \in F1 : BucketStart(r, m) \in Nat /\ BucketStart(r, m) < s
         /\ \A r \in B : /\ BucketStart(r, m) \in Nat
                         /\ s <= BucketStart(r, m) /\ BucketStart(r, m) + m <= t
         /\ \A r \in F2 : BucketStart(r, m) \in Nat /\ t <= BucketStart(r, m)
<1>1. PICK G : G = B \cup F2
  OBVIOUS
<1>2. Divides(F, F1, G, s, m) /\ Divides(G, B, F2, t, m)
  BY <1>1
<1>3. /\ \A r \in F1 : BucketStart(r, m) \in Nat /\ BucketStart(r, m) < s
      /\ \A r \in G : BucketStart(r, m) \in Nat /\ s <= BucketStart(r, m)
  BY <1>2, BucketsDivided
<1>4. /\ \A r \in B : BucketStart(r, m) \in Nat /\ BucketStart(r, m) < t
      /\ \A r \in F2 : BucketStart(r, m) \in Nat /\ t <= BucketStart(r, m)
  BY <1>2, BucketsDivided
<1>5. /\ m \in Nat \ {0} /\ t \in Nat /\ t % m = 0
      /\ \A r \in B : r.timestamp \in Nat
  BY <1>2 DEF Divides
<1>6. ASSUME NEW r \in B
      PROVE  BucketStart(r, m) + m <= t
  <2>1. PICK a \in Nat : a = BucketStart(r, m)
    BY <1>4
  <2>2. a % m = 0 /\ a < t
    BY <1>4, <1>5, <2>1, BucketStartIs
  <2>3. a + m <= t
    BY <1>5, <2>2, NextMultiple
  <2>4. QED
    BY <2>1, <2>3
<1>7. QED
  BY <1>1, <1>3, <1>4, <1>6

LEMMA CandleNests ==
  ASSUME NEW F, Priced(F), NEW m \in Nat \ {0}, NEW n \in Nat \ {0}, n % m = 0,
         NEW c, NEW B, NEW s, IsCandle(c, B, s, F, n)
  PROVE  \E first, last : Nests(c, CandlesOf(F, m), first, last)
<1>1. /\ s \in Nat /\ s % n = 0 /\ (s + n) % n = 0
      /\ B = {r \in F : BucketStart(r, n) = s} /\ B # {}
      /\ c = Candle(InOrder(B), n) /\ c.bucket_start = s /\ c.bucket_end = s + n - 1
  BY DEF IsCandle
<1>2. PICK F1, F2 : Around(F, F1, B, F2, s, n)
  BY <1>1 DEF Around
<1>3. Divides(F, F1, B \cup F2, s, m) /\ Divides(B \cup F2, B, F2, s + n, m)
  BY <1>1, <1>2, BucketDivides
<1>4. Priced(F1) /\ Priced(B) /\ Priced(F2)
  <2>1. F1 \subseteq F /\ B \subseteq F /\ F2 \subseteq F
    BY <1>2 DEF Around
  <2>2. QED
    BY <2>1, PricedPart
<1>5. PICK t : t = s + n
  OBVIOUS
<1>6. /\ \A r \in F1 : BucketStart(r, m) \in Nat /\ BucketStart(r, m) < s
      /\ \A r \in B : /\ BucketStart(r, m) \in Nat
                      /\ s <= BucketStart(r, m) /\ BucketStart(r, m) + m <= t
      /\ \A r \in F2 : BucketStart(r, m) \in Nat /\ t <= BucketStart(r, m)
  BY <1>3, <1>5, BucketBounds
<1>7. PICK w, u1, u2, u3 :
        /\ w = CandlesOf(F, m) /\ u1 = CandlesOf(F1, m)
        /\ u2 = CandlesOf(B, m) /\ u3 = CandlesOf(F2, m)
  OBVIOUS
<1>8. w = u1 \o (u2 \o u3)
  <2>1. PICK G : G = B \cup F2
    OBVIOUS
  <2>2. Divides(F, F1, G, s, m) /\ Divides(G, B, F2, t, m)
    BY <1>3, <1>5, <2>1
  <2>3. CandlesOf(F, m) = CandlesOf(F1, m) \o CandlesOf(G, m)
    BY <2>2, CandlesOfParts
  <2>4. CandlesOf(G, m) = CandlesOf(B, m) \o CandlesOf(F2, m)
    BY <2>2, CandlesOfParts
  <2>5. QED
    BY <1>7, <2>3, <2>4
<1>9. PICK k1 : /\ List(u1, k1)
                /\ \A i \in 1 .. k1 : \E r \in F1 : u1[i].bucket_start = BucketStart(r, m)
  BY <1>4, <1>7, CandlesList
<1>10. PICK k2 : /\ List(u2, k2) /\ k2 # 0
                 /\ \A i \in 1 .. k2 :
                      \E r \in B : /\ u2[i].bucket_start = BucketStart(r, m)
                                   /\ u2[i].bucket_end = BucketStart(r, m) + m - 1
  BY <1>1, <1>4, <1>7, CandlesList
<1>11. PICK k3 : /\ List(u3, k3)
                 /\ \A i \in 1 .. k3 : \E r \in F2 : u3[i].bucket_end = BucketStart(r, m) + m - 1
  BY <1>4, <1>7, CandlesList
<1>12. PICK first, last : InParts(w, u1, k1, u2, k2, u3, k3, first, last)
  BY <1>8, <1>9, <1>10, <1>11 DEF InParts
<1>13. /\ first \in DOMAIN w /\ last \in DOMAIN w /\ first <= last
       /\ DOMAIN w \subseteq Nat
       /\ SubSeq(w, first, last) = u2
       /\ \A j \in DOMAIN w :
            \/ j \in first .. last /\ \E i \in 1 .. k2 : w[j] = u2[i]
            \/ j \notin first .. last /\ \E i \in 1 .. k1 : w[j] = u1[i]
            \/ j \notin first .. last /\ \E i \in 1 .. k3 : w[j] = u3[i]
  BY <1>12, PartsAre
<1>14. \A i \in 1 .. k1 : ~Within(c, u1[i])
  BY <1>1, <1>6, <1>9 DEF Within
<1>15. \A i \in 1 .. k2 : Within(c, u2[i])
  <2>1. ASSUME NEW i \in 1 .. k2
        PROVE  Within(c, u2[i])
    <3>1. PICK r \in B : /\ u2[i].bucket_start = BucketStart(r, m)
                         /\ u2[i].bucket_end = BucketStart(r, m) + m - 1
      BY <1>10
    <3>2. PICK a \in Nat : a = BucketStart(r, m)
      BY <1>6
    <3>3. s <= a /\ a + m <= s + n
      BY <1>5, <1>6, <3>2
    <3>4. s <= a /\ a + m - 1 <= s + n - 1
      BY <1>1, <3>3
    <3>5. QED
      BY <1>1, <3>1, <3>2, <3>4 DEF Within
  <2>2. QED
    BY <2>1
<1>16. \A i \in 1 .. k3 : ~Within(c, u3[i])
  <2>1. ASSUME NEW i \in 1 .. k3
        PROVE  ~Within(c, u3[i])
    <3>1. PICK r \in F2 : u3[i].bucket_end = BucketStart(r, m) + m - 1
      BY <1>11
    <3>2. PICK a \in Nat : a = BucketStart(r, m)
      BY <1>6
    <3>3. s + n <= a
      BY <1>5, <1>6, <3>2
    <3>4. ~(a + m - 1 <= s + n - 1)
      BY <1>1, <3>3
    <3>5. QED
      BY <1>1, <3>1, <3>2, <3>4 DEF Within
  <2>2. QED
    BY <2>1
<1>17. \A j \in DOMAIN w : j \in first .. last <=> Within(c, w[j])
  BY <1>13, <1>14, <1>15, <1>16
<1>18. PICK merged : merged = Merged(SubSeq(w, first, last))
  OBVIOUS
<1>19. \A f \in DOMAIN merged : merged[f] = c[f]
  <2>1. PICK q : q = InOrder(B)
    OBVIOUS
  <2>2. RowSeq(q, Cardinality(B))
    BY <1>1, <1>4, <2>1, InOrderIs
  <2>3. merged = Merged(Points(q, Cardinality(B)))
    <3>1. Tells(B, m)
      BY <1>1, <1>4, CandlesTell
    <3>2. QED
      BY <1>7, <1>13, <1>18, <2>1, <3>1 DEF Tells, PointsOf
  <2>4. merged =
          [open |-> q[1].price, close |-> Last(q).price,
           low |-> Min(PricesOf(q)), high |-> Max(PricesOf(q)),
           sum |-> Total(q), points |-> Len(q)]
    BY <2>2, <2>3, PointsTell
  <2>5. c = [bucket_start |-> BucketStart(q[1], n), bucket_end |-> BucketStart(q[1], n) + n - 1,
             open |-> q[1].price, close |-> Last(q).price,
             high |-> Max(PricesOf(q)), low |-> Min(PricesOf(q)),
             sum |-> Total(q), points |-> Len(q)]
    BY <1>1, <2>1 DEF Candle
  <2>6. QED
    BY <2>4, <2>5
<1>20. Nests(c, w, first, last)
  BY <1>13, <1>17, <1>18, <1>19 DEF Nests
<1>21. QED
  BY <1>7, <1>20

LEMMA NestHolds == IInv => CandlesNest
<1> SUFFICES ASSUME IInv, client.state = "analytics"
             PROVE  CandlesNest
  BY DEF CandlesNest
<1>1. RowsOK(rows)
  BY TypeParts DEF IInv
<1>2. PICK ticker, from, to : ticker = client.ticker /\ from = client.from /\ to = client.to
  OBVIOUS
<1>3. PICK P, page : Analysed(P, page, ticker, from, to)
  BY <1>1, AnalysedExist
<1>4. \A n : Candles(n) = CandlesOf(P, n)
  BY <1>2, <1>3 DEF Candles, Analysed
<1>5. ASSUME NEW m \in Intervals, NEW n \in Intervals, m < n, NEW i \in DOMAIN Candles(n)
      PROVE  \E first, last : Nests(Candles(n)[i], Candles(m), first, last)
  <2>1. m \in Nat \ {0} /\ n \in Nat \ {0} /\ n % m = 0
    BY <1>5, ReadsAssumption
  <2>2. Priced(P)
    BY <1>3 DEF Analysed
  <2>3. PICK c : c = CandlesOf(P, n)[i]
    OBVIOUS
  <2>4. PICK B, s : IsCandle(c, B, s, P, n)
    BY <1>4, <2>1, <2>2, <2>3, CandleIs
  <2>5. PICK first, last : Nests(c, CandlesOf(P, m), first, last)
    BY <2>1, <2>2, <2>4, CandleNests
  <2>6. QED
    BY <1>4, <2>3, <2>5
<1>6. QED
  BY <1>5 DEF CandlesNest, Nests, Within

-----------------------------------------------------------------------------
\* The theorems.

\* get_candles and get_price_summary, which compute from the rows separately,
\* agree for every interval: the candles of a range open, close, peak and add
\* up as its summary says, and there are none when the summary is None,
\* whatever the query limit cuts.
THEOREM CandlesTellSummary == Spec => []CandlesMatchSummary
<1>1. IInv => CandlesMatchSummary
  BY SummaryMatches
<1>2. QED
  BY <1>1, IInvHolds, PTL

\* get_candles: a candle is what the candles of a shorter interval inside it
\* add up to, and these follow one another, whatever the query limit cuts.
THEOREM CandlesNestWhole == Spec => []CandlesNest
<1>1. IInv => CandlesNest
  BY NestHolds
<1>2. QED
  BY <1>1, IInvHolds, PTL

=============================================================================
