------------------------ MODULE ReconciliationProofs ------------------------
(***************************************************************************)
(* Proofs about Reconciliation, for every configuration of the task and    *)
(* every number of tickers.  They follow one fact about the rows of a      *)
(* ticker: from an age on, each row follows another by at most MaxGap.  A  *)
(* run of the task, or the backfill it schedules, establishes it for the   *)
(* rows in its window; later rows and the clock keep it.                   *)
(***************************************************************************)
EXTENDS Reconciliation, FiniteSetTheorems, WellFoundedInduction, TLAPS

\* Every row of S older than d, and as long as live prices still arrive, up to
\* age l follows another by at most MaxGap.
Linked(S, d, l) ==
  \A p \in S : d + MaxGap < p /\ d + MaxDelay < p /\ p <= l =>
    \E q \in S : p - MaxGap <= q /\ q < p

\* No row is stamped ahead of the clock.
NoneAhead(S) == \A a \in S : 0 <= a

\* Between runs the locals of the task have their first values.
IdleMeansReset ==
  pc = "idle" => call = Scheduled /\ cursor = 1 /\ found = {} /\ latest = None

\* A range is read for a ticker of the run.
CursorInRange == pc = "range" => cursor <= Len(call.tickers)

TypeInv == TypeOK /\ IdleMeansReset /\ CursorInRange

\* The latest row read is still there when the range is read.
LatestIsStored ==
  pc = "range" /\ latest # None => latest \in ages[call.tickers[cursor]]

\* What a run has passed is recent and linked throughout the window of the run.
PassedAreLinked ==
  \A t \in Passed :
    /\ \E a \in ages[t] : a <= MaxGap
    /\ NoneAhead(ages[t]) => Linked(ages[t], 0, call.lookback)

\* Right after beat: the run or a backfill of the ticker is still to come, or a
\* stamp ahead of the clock hides it.
Pending(t) ==
  \/ queued
  \/ pc # "idle" /\ call = Scheduled
  \/ \E m \in repairs : t \in m.tickers /\ Lookback <= m.range
  \/ ~NoneAhead(ages[t])

\* Without a failure since beat last sent the task, all rows older than that
\* are linked, if charts reach far enough.
LinkedSinceBeat ==
  ChartsReach /\ healthy > elapsed =>
    \A t \in Tickers : Linked(ages[t], elapsed, Lookback) \/ (elapsed = 0 /\ Pending(t))

\* While the next run is due or at work, the one before it still counts.
LinkedForAPeriod ==
  ChartsReach /\ healthy > Period => \A t \in Tickers : Linked(ages[t], Period, Lookback)

IInv ==
  /\ TypeInv
  /\ LatestIsStored
  /\ PassedAreLinked
  /\ LinkedSinceBeat
  /\ LinkedForAPeriod

-----------------------------------------------------------------------------
\* Lemmas on parameters and on sets of integers.

LEMMA Parameters ==
  /\ MaxGap \in Nat \ {0} /\ Lookback \in Nat \ {0} /\ Period \in Nat \ {0}
  /\ MaxDelay \in Nat /\ Skew \in Nat /\ ChartStep \in Nat \ {0}
  /\ Horizon \in Nat /\ Lookback < Horizon /\ MaxDelay < Horizon
  /\ Thresholds \subseteq 0 .. Horizon
  /\ \A r \in Thresholds : Covers[r] \in 0 .. Horizon
  /\ Range(Covers) \subseteq 0 .. Horizon
BY ReconciliationAssumption DEF Thresholds, Range

LEMMA DivIsFloor ==
  ASSUME NEW x \in Nat, NEW d \in Nat \ {0}
  PROVE  /\ d * (x \div d) \in 0 .. x /\ x - d < d * (x \div d)
         /\ (d * (x \div d)) % d = 0
<1>1. /\ d * (x \div d) \in 0 .. x /\ x - d < d * (x \div d)
      /\ x \div d \in Int
  OBVIOUS
<1>2. PICK y \in Nat : y = d * (x \div d)
  BY <1>1
<1>3. /\ y = d * (y \div d) + (y % d) /\ y % d \in 0 .. d - 1 /\ y \div d \in Int
  OBVIOUS
<1>4. \A i, j \in Int : d * i - d * j \in 0 .. d - 1 => i = j
  <2>1. \A k \in Int : d * k \in 0 .. d - 1 => k = 0
    OBVIOUS
  <2>2. ASSUME NEW i \in Int, NEW j \in Int, d * i - d * j \in 0 .. d - 1
        PROVE  i = j
    <3>1. d * (i - j) = d * i - d * j /\ i - j \in Int
      OBVIOUS
    <3>2. i - j = 0
      BY <2>1, <2>2, <3>1
    <3>3. QED
      BY <3>2
  <2>3. QED
    BY <2>2
<1>5. x \div d = y \div d
  BY <1>1, <1>2, <1>3, <1>4
<1>6. y % d = 0
  <2>1. d * (y \div d) = y
    BY <1>2, <1>5, Zenon
  <2>2. \A u, v \in Int : u = u + v => v = 0
    OBVIOUS
  <2>3. QED
    BY <1>3, <2>1, <2>2
<1>7. QED
  BY <1>1, <1>2, <1>6

LEMMA SmallestOfNaturals ==
  ASSUME NEW S \in SUBSET Nat, S # {}
  PROVE  \E m \in S : \A k \in S : m <= k
<1>1. \E m \in S : \A k \in S : <<k, m>> \notin OpToRel(<, Nat)
  BY NatLessThanWellFounded, WFMin
<1>2. \A k, m \in Nat : <<k, m>> \notin OpToRel(<, Nat) => m <= k
  BY DEF OpToRel
<1>3. QED
  BY <1>1, <1>2

LEMMA SmallestExists ==
  ASSUME NEW S \in SUBSET Int, NEW b \in Int, \A s \in S : b <= s, S # {}
  PROVE  \E m \in S : \A k \in S : m <= k
<1> DEFINE T == {s - b : s \in S}
<1>1. T \subseteq Nat /\ T # {}
  <2>1. \A s \in S : s - b \in Nat
    OBVIOUS
  <2>2. QED
    BY <2>1
<1>2. PICK n \in T : \A k \in T : n <= k
  BY <1>1, SmallestOfNaturals
<1>3. PICK m \in S : n = m - b
  OBVIOUS
<1>4. ASSUME NEW k \in S PROVE m <= k
  <2>1. k - b \in T
    OBVIOUS
  <2>2. m - b <= k - b /\ m \in Int /\ k \in Int
    BY <1>2, <1>3, <2>1
  <2>3. \A x, y, z \in Int : x - z <= y - z => x <= y
    OBVIOUS
  <2>4. QED
    BY <2>2, <2>3
<1>5. QED
  BY <1>4

LEMMA LargestExists ==
  ASSUME NEW S \in SUBSET Int, NEW b \in Int, \A s \in S : s <= b, S # {}
  PROVE  \E m \in S : \A k \in S : k <= m
<1> DEFINE T == {b - s : s \in S}
<1>1. T \subseteq Nat /\ T # {}
  <2>1. \A s \in S : b - s \in Nat
    OBVIOUS
  <2>2. QED
    BY <2>1
<1>2. PICK n \in T : \A k \in T : n <= k
  BY <1>1, SmallestOfNaturals
<1>3. PICK m \in S : n = b - m
  OBVIOUS
<1>4. ASSUME NEW k \in S PROVE k <= m
  <2>1. b - k \in T
    OBVIOUS
  <2>2. b - m <= b - k /\ m \in Int /\ k \in Int
    BY <1>2, <1>3, <2>1
  <2>3. \A x, y, z \in Int : z - x <= z - y => y <= x
    OBVIOUS
  <2>4. QED
    BY <2>2, <2>3
<1>5. QED
  BY <1>4

\* LatestOf returns the youngest row.
LEMMA LatestIsYoungest ==
  ASSUME NEW S \in SUBSET Ages, S # {}
  PROVE  LatestOf(S) \in S /\ \A a \in S : LatestOf(S) <= a
<1>1. S \subseteq Int /\ -Skew \in Int /\ \A s \in S : -Skew <= s
  BY ReconciliationAssumption DEF Ages
<1>2. \E m \in S : \A k \in S : m <= k
  BY <1>1, SmallestExists
<1>3. QED
  BY <1>2 DEF LatestOf

\* resolve_reconciliation_range returns a range, and if charts reach to their
\* thresholds, one that covers the lookback.
LEMMA RangeCovers ==
  ASSUME NEW l \in 0 .. Horizon
  PROVE  ResolveRange(l) \in 0 .. Horizon /\ (ChartsReach => l <= ResolveRange(l))
<1> DEFINE enough == {r \in Thresholds : l <= r}
<1>1. enough \subseteq Int /\ \A r \in enough : l <= r /\ r \in 0 .. Horizon
  <2>1. \A r \in enough : l <= r /\ r \in 0 .. Horizon
    BY Parameters
  <2>2. QED
    BY <2>1
<1>2. CASE enough = {}
  BY <1>2, Parameters DEF ResolveRange
<1>3. CASE enough # {}
  <2>1. ResolveRange(l) = Covers[Min(enough)]
    BY <1>3 DEF ResolveRange
  <2>2. enough \subseteq Thresholds
    OBVIOUS
  <2> HIDE DEF enough
  <2>3. \E m \in enough : \A k \in enough : m <= k
    BY <1>1, <1>3, SmallestExists
  <2>4. PICK r \in enough : r = Min(enough)
    BY <2>3 DEF Min
  <2>5. r \in Thresholds /\ l <= r /\ r \in 0 .. Horizon /\ Covers[r] \in 0 .. Horizon
    BY <1>1, <2>2, Parameters
  <2>6. ChartsReach => r <= Covers[r]
    BY <2>5 DEF ChartsReach
  <2>7. QED
    BY <2>1, <2>4, <2>5, <2>6
<1>4. QED
  BY <1>2, <1>3

-----------------------------------------------------------------------------
\* Lemmas on Linked: rows that arrive and time that passes keep it.

\* A row of a chart follows another, and so does any row within its range.
LEMMA ChartLinks ==
  ASSUME ChartStep <= MaxGap, NEW range \in 0 .. Horizon,
         NEW p \in Int, MaxGap < p, p - 1 <= range
  PROVE  \E q \in Chart(range) : p - MaxGap <= q /\ q < p
<1> DEFINE q == ChartStep * ((p - 1) \div ChartStep)
<1>1. ChartStep \in Nat \ {0} /\ MaxGap \in Nat /\ p - 1 \in Nat
  BY Parameters
<1>2. q \in 0 .. p - 1 /\ p - 1 - ChartStep < q /\ q % ChartStep = 0
  BY <1>1, DivIsFloor
<1> HIDE DEF q
<1>3. q \in Chart(range)
  BY <1>2 DEF Chart
<1>4. QED
  BY <1>1, <1>2, <1>3

LEMMA ChartAges ==
  ASSUME NEW range \in 0 .. Horizon
  PROVE  Chart(range) \subseteq Ages
<1>1. Chart(range) \subseteq 0 .. Horizon
  BY Parameters DEF Chart
<1>2. QED
  BY <1>1, Parameters DEF Ages

LEMMA ChartIsLinked ==
  ASSUME ChartStep <= MaxGap, NEW range \in 0 .. Horizon
  PROVE  Chart(range) \subseteq Ages /\ Linked(Chart(range), 0, Horizon)
<1>1. Chart(range) \subseteq Ages
  BY ChartAges
<1>2. \A p \in Chart(range) : p \in Int /\ p - 1 <= range
  BY Parameters DEF Chart
<1>3. Linked(Chart(range), 0, Horizon)
  BY <1>2, ChartLinks, Parameters DEF Linked
<1>4. QED
  BY <1>1, <1>3

LEMMA LiveIsLinked ==
  ASSUME NEW a \in -Skew .. MaxDelay
  PROVE  {a} \subseteq Ages /\ Linked({a}, 0, Horizon)
BY Parameters DEF Ages, Linked

\* Rows that arrive and are linked among themselves break no link.
LEMMA LinkedGrows ==
  ASSUME NEW S \in SUBSET Ages, NEW N \in SUBSET Ages, NEW d \in Nat,
         NEW l \in 0 .. Horizon, Linked(S, d, l), Linked(N, 0, Horizon)
  PROVE  Linked(S \cup N, d, l)
<1> SUFFICES ASSUME NEW p \in S \cup N, d + MaxGap < p, d + MaxDelay < p, p <= l
             PROVE  \E q \in S \cup N : p - MaxGap <= q /\ q < p
  BY DEF Linked
<1>1. CASE p \in S
  BY <1>1 DEF Linked
<1>2. CASE p \in N
  <2>1. 0 + MaxGap < p /\ 0 + MaxDelay < p /\ p <= Horizon
    BY Parameters DEF Ages
  <2>2. QED
    BY <1>2, <2>1 DEF Linked
<1>3. QED
  BY <1>1, <1>2

\* A chart of the whole window links every row in it.
LEMMA ChartClosesGaps ==
  ASSUME ChartStep <= MaxGap, NEW S \in SUBSET Ages, NEW d \in Nat,
         NEW range \in 0 .. Horizon, NEW l \in 0 .. range
  PROVE  Linked(S \cup Chart(range), d, l)
<1> SUFFICES ASSUME NEW p \in S \cup Chart(range), d + MaxGap < p, p <= l
             PROVE  \E q \in Chart(range) : p - MaxGap <= q /\ q < p
  BY DEF Linked
<1>1. p \in Int /\ MaxGap < p /\ p - 1 <= range
  BY ChartIsLinked, Parameters DEF Ages
<1>2. QED
  BY <1>1, ChartLinks

LEMMA LinkedAges ==
  ASSUME NEW S \in SUBSET Ages, NEW d \in Nat, NEW l \in 0 .. Horizon - 1,
         Linked(S, d, l)
  PROVE  Linked({Older(a) : a \in S}, d + 1, l)
<1> SUFFICES ASSUME NEW a \in S, d + 1 + MaxGap < Older(a),
                    d + 1 + MaxDelay < Older(a), Older(a) <= l
             PROVE  \E b \in S : Older(a) - MaxGap <= Older(b) /\ Older(b) < Older(a)
  BY DEF Linked
<1>1. Older(a) = a + 1 /\ a \in Int /\ a + 1 < Horizon
  BY Parameters DEF Older, Ages
<1>2. PICK b \in S : a - MaxGap <= b /\ b < a
  BY <1>1, Parameters DEF Linked
<1>3. Older(b) = b + 1 /\ b \in Int
  BY <1>1, <1>2, Parameters DEF Older, Ages
<1>4. QED
  BY <1>1, <1>2, <1>3, Parameters

LEMMA LinkedWeaker ==
  ASSUME NEW S \in SUBSET Ages, NEW d \in Nat, NEW e \in Nat, d <= e, NEW l \in Nat,
         Linked(S, d, l)
  PROVE  Linked(S, e, l)
BY Parameters DEF Linked, Ages

\* What a run has looked at: a recent row and no gap in the window.
LEMMA PassedLinks ==
  ASSUME NEW S \in SUBSET Ages, NoneAhead(S), NEW a \in S, a <= MaxGap, NEW l \in Nat,
         ~HasMissingIntervals({x \in S : 0 <= x /\ x <= l})
  PROVE  Linked(S, 0, l)
<1> DEFINE window == {x \in S : 0 <= x /\ x <= l}
<1> SUFFICES ASSUME NEW p \in S, MaxGap < p, p <= l
             PROVE  \E q \in S : p - MaxGap <= q /\ q < p
  BY Parameters DEF Linked
<1> DEFINE before == {x \in window : x < p}
<1>1. S \subseteq Int /\ \A x \in S : 0 <= x
  BY Parameters DEF Ages, NoneAhead
<1>2. p \in window /\ a \in before
  BY <1>1, Parameters
<1>3. before \in SUBSET Int /\ p \in Int /\ before # {} /\ \A x \in before : x <= p
  <2>1. p \in Int /\ before # {}
    BY <1>1, <1>2
  <2>2. \A x \in before : x \in Int /\ x <= p
    BY <1>1, <2>1
  <2>3. QED
    BY <2>1, <2>2
<1> HIDE DEF before
<1>4. PICK q \in before : \A x \in before : x <= q
  BY <1>3, LargestExists
<1>5. q \in window /\ q < p /\ \A x \in window : x <= q \/ p <= x
  BY <1>1, <1>4 DEF before
<1>6. ~IsGap(window, p, q)
  BY <1>2, <1>5 DEF HasMissingIntervals
<1>7. ~(p - q > MaxGap)
  BY <1>2, <1>5, <1>6 DEF IsGap
<1>8. QED
  BY <1>1, <1>5, <1>7, Parameters

\* Linked rows have no gap, but for the newest.
LEMMA LinkedHasNoGap ==
  ASSUME NEW S \in SUBSET Ages, NEW W \in SUBSET S, NEW d \in Nat, NEW l \in Nat,
         Linked(S, d, l), NEW p \in W, NEW q \in W, 0 <= q, p <= l, IsGap(W, p, q),
         \A x \in S : 0 <= x /\ x <= l => x \in W
  PROVE  p <= d + MaxGap \/ p <= d + MaxDelay
<1> SUFFICES ASSUME d + MaxGap < p, d + MaxDelay < p PROVE FALSE
  BY Parameters DEF Ages
<1>1. PICK r \in S : p - MaxGap <= r /\ r < p
  BY DEF Linked
<1>2. p \in Int /\ q \in Int /\ r \in Int
  BY Parameters DEF Ages
<1>3. r \in W
  BY <1>1, <1>2, Parameters
<1>4. r <= q
  BY <1>1, <1>2, <1>3 DEF IsGap
<1>5. QED
  BY <1>1, <1>2, <1>4, Parameters DEF IsGap

-----------------------------------------------------------------------------
\* The arguments of a run.

Calls == {Scheduled} \cup {Effective(c) : c \in ByHand}

LEMMA CallsAre ==
  /\ Scheduled.tickers = Selected /\ Scheduled.lookback = Lookback
  /\ \A c \in Calls : /\ c.tickers \in Seq(Tickers) /\ c.lookback \in 0 .. Horizon - 1
                       /\ Len(c.tickers) \in Nat
                       /\ \A i \in 1 .. Len(c.tickers) : c.tickers[i] \in Tickers
<1>1. Scheduled.tickers = Selected /\ Scheduled.lookback = Lookback
  BY DEF Scheduled, Effective
<1>2. Selected \in Seq(Tickers) /\ Lookback \in 0 .. Horizon - 1
  BY ReconciliationAssumption, Parameters DEF Tickers
<1>3. ASSUME NEW c \in ByHand
      PROVE  Effective(c).tickers \in Seq(Tickers) /\ Effective(c).lookback \in 0 .. Horizon - 1
  <2>1. c.tickers \in Seq(Tickers) /\ c.lookback \in 0 .. Horizon - 1
    BY ReconciliationAssumption DEF Tickers
  <2>2. QED
    BY <1>2, <2>1 DEF Effective
<1>4. \A c \in Calls : c.tickers \in Seq(Tickers) /\ c.lookback \in 0 .. Horizon - 1
  BY <1>1, <1>2, <1>3 DEF Calls
<1>5. \A s \in Seq(Tickers) : Len(s) \in Nat /\ \A i \in 1 .. Len(s) : s[i] \in Tickers
  OBVIOUS
<1>6. QED
  BY <1>1, <1>4, <1>5

\* What TypeOK says of the variables that are numbers.
LEMMA Numbers ==
  ASSUME TypeOK
  PROVE  /\ elapsed \in 0 .. Period /\ healthy \in 0 .. Period + 1 /\ cursor \in Nat \ {0}
         /\ call \in Calls /\ Len(call.tickers) \in Nat
         /\ cursor <= Len(call.tickers) + 1
         /\ \A t \in Tickers : ages[t] \in SUBSET Ages
BY CallsAre DEF TypeOK, Calls

-----------------------------------------------------------------------------
\* Steps that add rows or leave them alone: all but the clock.

Grows ==
  /\ ages' \in [Tickers -> SUBSET Ages]
  /\ \A t \in Tickers : \E N \in SUBSET Ages :
       ages'[t] = ages[t] \cup N /\ Linked(N, 0, Horizon)

LEMMA GrowsKeeps ==
  ASSUME TypeOK, Grows, NEW t \in Tickers
  PROVE  /\ ages[t] \subseteq ages'[t]
         /\ NoneAhead(ages'[t]) => NoneAhead(ages[t])
         /\ \A d \in Nat : \A l \in 0 .. Horizon :
              Linked(ages[t], d, l) => Linked(ages'[t], d, l)
<1>1. PICK N \in SUBSET Ages : ages'[t] = ages[t] \cup N /\ Linked(N, 0, Horizon)
  BY DEF Grows
<1>2. ages[t] \in SUBSET Ages
  BY Numbers
<1>3. ages[t] \subseteq ages'[t]
  BY <1>1
<1>4. NoneAhead(ages'[t]) => NoneAhead(ages[t])
  BY <1>3 DEF NoneAhead
<1>5. ASSUME NEW d \in Nat, NEW l \in 0 .. Horizon, Linked(ages[t], d, l)
      PROVE  Linked(ages'[t], d, l)
  BY <1>1, <1>2, <1>5, LinkedGrows
<1>6. QED
  BY <1>3, <1>4, <1>5

LEMMA SameGrows == TypeOK /\ UNCHANGED ages => Grows
<1> SUFFICES ASSUME TypeOK, UNCHANGED ages PROVE Grows
  OBVIOUS
<1>1. Linked({}, 0, Horizon)
  BY DEF Linked
<1>2. \A t \in Tickers : ages'[t] = ages[t] \cup {}
  OBVIOUS
<1>3. QED
  BY <1>1, <1>2 DEF Grows, TypeOK

LEMMA CollectGrows ==
  ASSUME TypeOK, NEW t \in Tickers, Collect(t)
  PROVE  Grows
<1>1. PICK a \in -Skew .. MaxDelay : ages' = [ages EXCEPT ![t] = @ \cup {a}]
  BY DEF Collect
<1>2. {a} \in SUBSET Ages /\ Linked({a}, 0, Horizon)
  BY LiveIsLinked
<1>3. Linked({}, 0, Horizon)
  BY DEF Linked
<1>4. \A s \in Tickers : ages'[s] = ages[s] \cup (IF s = t THEN {a} ELSE {})
  BY <1>1 DEF TypeOK
<1>5. ages' \in [Tickers -> SUBSET Ages]
  BY <1>1, <1>2 DEF TypeOK
<1>6. QED
  BY <1>2, <1>3, <1>4, <1>5 DEF Grows

LEMMA BackfillGrows ==
  ASSUME ChartStep <= MaxGap, TypeOK, NEW t \in Tickers, BackfillByHand(t)
  PROVE  Grows
<1>1. PICK range \in Range(Covers) \cup {Horizon} :
        ages' = [ages EXCEPT ![t] = @ \cup Chart(range)]
  BY DEF BackfillByHand
<1>2. Chart(range) \in SUBSET Ages /\ Linked(Chart(range), 0, Horizon)
  BY ChartIsLinked, Parameters
<1>3. Linked({}, 0, Horizon)
  BY DEF Linked
<1>4. \A s \in Tickers : ages'[s] = ages[s] \cup (IF s = t THEN Chart(range) ELSE {})
  BY <1>1 DEF TypeOK
<1>5. ages' \in [Tickers -> SUBSET Ages]
  BY <1>1, <1>2 DEF TypeOK
<1>6. QED
  BY <1>2, <1>3, <1>4, <1>5 DEF Grows

LEMMA RepairGrows ==
  ASSUME ChartStep <= MaxGap, TypeOK, NEW m \in repairs, Repair(m)
  PROVE  Grows
<1>1. PICK skipped \in SUBSET m.tickers :
        ages' = [t \in Tickers |-> IF t \in m.tickers \ skipped
                                  THEN ages[t] \cup Chart(m.range) ELSE ages[t]]
  BY DEF Repair
<1>2. Chart(m.range) \in SUBSET Ages /\ Linked(Chart(m.range), 0, Horizon)
  <2>1. m.range \in 0 .. Horizon
    BY DEF TypeOK
  <2>2. QED
    BY <2>1, ChartIsLinked
<1>3. Linked({}, 0, Horizon)
  BY DEF Linked
<1>4. \A t \in Tickers :
        ages'[t] = ages[t] \cup (IF t \in m.tickers \ skipped THEN Chart(m.range) ELSE {})
  BY <1>1
<1>5. ages' \in [Tickers -> SUBSET Ages]
  BY <1>1, <1>2 DEF TypeOK
<1>6. QED
  BY <1>2, <1>3, <1>4, <1>5 DEF Grows

-----------------------------------------------------------------------------
\* Types.

LEMMA TypeTick == TypeInv /\ Tick => TypeInv'
<1> SUFFICES ASSUME TypeInv, Tick PROVE TypeInv'
  OBVIOUS
<1>1. \A a \in Ages : Older(a) \in Ages
  BY Parameters DEF Ages, Older
<1>2. \A t \in Tickers : {Older(a) : a \in ages[t]} \in SUBSET Ages
  BY <1>1 DEF TypeInv, TypeOK
<1>3. ages' \in [Tickers -> SUBSET Ages]
  BY <1>2 DEF Tick
<1>4. elapsed' \in 0 .. Period /\ healthy' \in 0 .. Period + 1
  BY Numbers, Parameters DEF TypeInv, Tick
<1>5. QED
  BY <1>3, <1>4 DEF TypeInv, TypeOK, IdleMeansReset, CursorInRange, Tick

LEMMA TypeRows ==
  ASSUME TypeInv, ages' \in [Tickers -> SUBSET Ages], repairs' \subseteq repairs,
         elapsed' \in {elapsed, 0}, healthy' \in {healthy, 0}, queued' \in BOOLEAN,
         UNCHANGED <<pc, call, cursor, latest, found>>
  PROVE  TypeInv'
<1>1. elapsed' \in 0 .. Period /\ healthy' \in 0 .. Period + 1
  BY Numbers, Parameters DEF TypeInv
<1>2. QED
  BY <1>1 DEF TypeInv, TypeOK, IdleMeansReset, CursorInRange

\* Steps around the runs of the task, and none at all.
LEMMA TypeAround ==
  ASSUME TypeInv,
         \/ Beat \/ ReconcileExpires \/ UNCHANGED vars
         \/ \E t \in Tickers : Collect(t) \/ BackfillByHand(t)
         \/ \E m \in repairs : Repair(m) \/ RepairFails(m)
  PROVE  TypeInv'
<1>1. CASE Beat \/ ReconcileExpires \/ UNCHANGED vars
  <2>1. ages' \in [Tickers -> SUBSET Ages] /\ queued' \in BOOLEAN
    BY <1>1 DEF Beat, ReconcileExpires, vars, TypeInv, TypeOK
  <2>2. /\ repairs' \subseteq repairs /\ elapsed' \in {elapsed, 0}
        /\ healthy' \in {healthy, 0} /\ UNCHANGED <<pc, call, cursor, latest, found>>
    BY <1>1 DEF Beat, ReconcileExpires, vars
  <2>3. QED
    BY <2>1, <2>2, TypeRows
<1>2. ASSUME NEW t \in Tickers, Collect(t) PROVE TypeInv'
  <2>1. ages' \in [Tickers -> SUBSET Ages]
    BY <1>2, CollectGrows DEF Grows, TypeInv
  <2>2. QED
    BY <1>2, <2>1, TypeRows DEF Collect, TypeInv, TypeOK
<1>3. ASSUME NEW t \in Tickers, BackfillByHand(t) PROVE TypeInv'
  <2>1. PICK range \in Range(Covers) \cup {Horizon} :
          ages' = [ages EXCEPT ![t] = @ \cup Chart(range)]
    BY <1>3 DEF BackfillByHand
  <2>2. Chart(range) \in SUBSET Ages
    BY ChartAges, Parameters
  <2>3. ages' \in [Tickers -> SUBSET Ages]
    BY <2>1, <2>2 DEF TypeInv, TypeOK
  <2>4. QED
    BY <1>3, <2>3, TypeRows DEF BackfillByHand, TypeInv, TypeOK
<1>4. ASSUME NEW m \in repairs, Repair(m) PROVE TypeInv'
  <2>1. Chart(m.range) \in SUBSET Ages
    BY ChartAges DEF TypeInv, TypeOK
  <2>2. PICK skipped \in SUBSET m.tickers :
          /\ ages' = [t \in Tickers |-> IF t \in m.tickers \ skipped
                                       THEN ages[t] \cup Chart(m.range) ELSE ages[t]]
          /\ healthy' = IF skipped = {} THEN healthy ELSE 0
    BY <1>4 DEF Repair
  <2>3. ages' \in [Tickers -> SUBSET Ages]
    BY <2>1, <2>2 DEF TypeInv, TypeOK
  <2>4. healthy' \in {healthy, 0}
    BY <2>2
  <2>5. QED
    BY <1>4, <2>3, <2>4, TypeRows DEF Repair, TypeInv, TypeOK
<1>5. ASSUME NEW m \in repairs, RepairFails(m) PROVE TypeInv'
  BY <1>5, TypeRows DEF RepairFails, TypeInv, TypeOK
<1>6. QED
  BY <1>1, <1>2, <1>3, <1>4, <1>5

LEMMA TypeIdle ==
  ASSUME TypeInv, Idle, UNCHANGED <<ages, queued, elapsed>>, healthy' \in {healthy, 0},
         repairs' \subseteq [tickers : SUBSET Tickers, range : 0 .. Horizon]
  PROVE  TypeInv'
<1>1. Len(Scheduled.tickers) \in Nat
  BY CallsAre DEF Calls
<1>2. cursor' \in 1 .. Len(call'.tickers) + 1
  BY <1>1 DEF Idle
<1>3. elapsed' \in 0 .. Period /\ healthy' \in 0 .. Period + 1
  BY Numbers, Parameters DEF TypeInv
<1>4. QED
  BY <1>2, <1>3 DEF TypeInv, TypeOK, IdleMeansReset, CursorInRange, Idle

\* Steps of a run.
LEMMA TypeRun ==
  ASSUME TypeInv,
         \/ Start \/ (\E c \in ByHand : StartByHand(c))
         \/ ReadLatest \/ ReadRange \/ Schedule \/ ReconcileFails
  PROVE  TypeInv'
<1>1. CASE Start
  BY <1>1 DEF Start, TypeInv, TypeOK, IdleMeansReset, CursorInRange
<1>2. ASSUME NEW c \in ByHand, StartByHand(c) PROVE TypeInv'
  <2>1. call' \in Calls /\ Len(call'.tickers) \in Nat
    BY <1>2, CallsAre DEF StartByHand, Calls
  <2>2. cursor' \in 1 .. Len(call'.tickers) + 1
    BY <1>2, <2>1 DEF StartByHand, TypeInv, IdleMeansReset
  <2>3. QED
    BY <1>2, <2>1, <2>2 DEF StartByHand, TypeInv, TypeOK, IdleMeansReset,
       CursorInRange, Calls
<1>3. CASE ReadLatest
  <2>1. call.tickers[cursor] \in Tickers
    BY <1>3, Numbers, CallsAre DEF ReadLatest, TypeInv
  <2>2. latest' \in Ages \cup {None}
    BY <1>3, <2>1, Numbers, LatestIsYoungest DEF ReadLatest, LatestOf, TypeInv
  <2>3. QED
    BY <1>3, <2>2 DEF ReadLatest, TypeInv, TypeOK, IdleMeansReset, CursorInRange
<1>4. CASE ReadRange
  <2>1. call.tickers[cursor] \in Tickers
    BY <1>4, Numbers, CallsAre DEF ReadRange, TypeInv, CursorInRange
  <2>2. found' \subseteq Tickers
    BY <1>4, <2>1 DEF ReadRange, TypeInv, TypeOK
  <2>3. cursor' \in 1 .. Len(call'.tickers) + 1
    BY <1>4, Numbers DEF ReadRange, TypeInv, CursorInRange
  <2>4. QED
    BY <1>4, <2>2, <2>3 DEF ReadRange, TypeInv, TypeOK, IdleMeansReset, CursorInRange
<1>5. CASE Schedule
  <2>1. ResolveRange(call.lookback) \in 0 .. Horizon
    <3>1. call.lookback \in 0 .. Horizon
      BY Numbers, CallsAre, Parameters DEF TypeInv
    <3>2. QED
      BY <3>1, RangeCovers
  <2>2. repairs' \subseteq [tickers : SUBSET Tickers, range : 0 .. Horizon]
    BY <1>5, <2>1 DEF Schedule, TypeInv, TypeOK
  <2>3. QED
    BY <1>5, <2>2, TypeIdle DEF Schedule
<1>6. CASE ReconcileFails
  <2>1. healthy' \in {healthy, 0}
    BY <1>6 DEF ReconcileFails
  <2>2. QED
    BY <1>6, <2>1, TypeIdle DEF ReconcileFails, TypeInv, TypeOK
<1>7. QED
  BY <1>1, <1>2, <1>3, <1>4, <1>5, <1>6

LEMMA TypeInvHolds == Spec => []TypeInv
<1>1. Init => TypeInv
  <2> SUFFICES ASSUME Init PROVE TypeInv
    OBVIOUS
  <2>1. Len(Scheduled.tickers) \in Nat
    BY CallsAre DEF Calls
  <2>2. cursor \in 1 .. Len(call.tickers) + 1
    BY <2>1 DEF Init
  <2>3. elapsed \in 0 .. Period /\ healthy \in 0 .. Period + 1
    BY Parameters DEF Init
  <2>4. QED
    BY <2>2, <2>3 DEF Init, TypeInv, TypeOK, IdleMeansReset, CursorInRange
<1>2. TypeInv /\ [Next]_vars => TypeInv'
  BY TypeTick, TypeAround, TypeRun DEF Next
<1>3. QED
  BY <1>1, <1>2, PTL DEF Spec

-----------------------------------------------------------------------------
\* Links, step by step.  Three facts that most steps share.

LEMMA GrowsKeepsPassed ==
  ASSUME IInv, Grows, UNCHANGED <<call, cursor, found>>
  PROVE  PassedAreLinked'
<1>1. Passed' = Passed /\ Passed \subseteq Tickers
  <2>1. \A j \in 1 .. cursor - 1 : call.tickers[j] \in Tickers
    BY Numbers, CallsAre DEF IInv, TypeInv
  <2>2. QED
    BY <2>1 DEF Passed
<1>2. SUFFICES ASSUME NEW t \in Passed
               PROVE  /\ \E a \in ages'[t] : a <= MaxGap
                      /\ NoneAhead(ages'[t]) => Linked(ages'[t], 0, call'.lookback)
  BY <1>1 DEF PassedAreLinked
<1>3. t \in Tickers /\ call'.lookback = call.lookback /\ call.lookback \in 0 .. Horizon
  BY <1>1, Numbers, CallsAre, Parameters DEF IInv, TypeInv
<1>4. /\ \E a \in ages[t] : a <= MaxGap
      /\ NoneAhead(ages[t]) => Linked(ages[t], 0, call.lookback)
  BY DEF IInv, PassedAreLinked
<1>5. QED
  BY <1>3, <1>4, GrowsKeeps DEF IInv, TypeInv

LEMMA GrowsKeepsLatest ==
  ASSUME IInv, Grows, UNCHANGED <<pc, call, cursor, latest>>
  PROVE  LatestIsStored'
<1> SUFFICES ASSUME pc = "range", latest # None
             PROVE  latest \in ages'[call.tickers[cursor]]
  BY DEF LatestIsStored
<1>1. call.tickers[cursor] \in Tickers
  BY Numbers, CallsAre DEF IInv, TypeInv, CursorInRange
<1>2. latest \in ages[call.tickers[cursor]]
  BY DEF IInv, LatestIsStored
<1>3. QED
  BY <1>1, <1>2, GrowsKeeps DEF IInv, TypeInv

LEMMA GrowsKeepsLinks ==
  ASSUME IInv, Grows, healthy' \in {healthy, 0}, elapsed' \in {elapsed, 0},
         ChartsReach /\ healthy' # 0 /\ elapsed' = 0 =>
           \A t \in Tickers : (elapsed # 0 \/ Pending(t)) =>
             Pending(t)' \/ Linked(ages'[t], 0, Lookback)
  PROVE  LinkedSinceBeat' /\ LinkedForAPeriod'
<1>1. Lookback \in 0 .. Horizon /\ Period \in Nat
  BY Parameters
<1>2. elapsed \in Nat /\ healthy \in Nat /\ elapsed' \in Nat
  BY Numbers DEF IInv, TypeInv
<1>3. \A t \in Tickers, d \in Nat :
        Linked(ages[t], d, Lookback) => Linked(ages'[t], d, Lookback)
  BY <1>1, GrowsKeeps DEF IInv, TypeInv
<1>4. LinkedForAPeriod'
  BY <1>1, <1>3 DEF IInv, LinkedForAPeriod
<1>5. ASSUME ChartsReach, healthy' > elapsed', NEW t \in Tickers
      PROVE  Linked(ages'[t], elapsed', Lookback) \/ (elapsed' = 0 /\ Pending(t)')
  <2>1. healthy' = healthy /\ healthy' # 0
    BY <1>2, <1>5
  <2>2. CASE elapsed' = elapsed
    <3>1. Linked(ages[t], elapsed, Lookback) \/ (elapsed = 0 /\ Pending(t))
      BY <1>5, <2>1, <2>2 DEF IInv, LinkedSinceBeat
    <3>2. QED
      BY <1>2, <1>3, <1>5, <2>1, <2>2, <3>1
  <2>3. CASE elapsed' = 0 /\ elapsed # 0
    BY <1>5, <2>1, <2>3
  <2>4. QED
    BY <2>2, <2>3
<1>6. LinkedSinceBeat'
  BY <1>5 DEF LinkedSinceBeat
<1>7. QED
  BY <1>4, <1>6

-----------------------------------------------------------------------------
\* One interval passes: a ticker that was not linked had work to come, and the
\* interval that ends with such work is not a healthy one.
LEMMA TickKeeps ==
  ASSUME IInv, Tick
  PROVE  IInv'
<1>1. TypeInv'
  BY TypeTick DEF IInv
<1>2. Passed' = {}
  BY DEF Tick, IInv, TypeInv, IdleMeansReset, Passed
<1>3. PassedAreLinked' /\ LatestIsStored'
  BY <1>2 DEF PassedAreLinked, LatestIsStored, Tick
<1>4. /\ elapsed \in Nat /\ healthy \in Nat /\ elapsed' = elapsed + 1
      /\ elapsed < Period /\ Period \in Nat /\ Lookback \in 0 .. Horizon - 1
  BY Numbers, Parameters DEF IInv, TypeInv, Tick
<1>5. ASSUME ChartsReach, healthy' > elapsed', NEW t \in Tickers
      PROVE  Linked(ages'[t], elapsed', Lookback)
  <2>1. /\ ~queued /\ repairs = {} /\ \A a \in ages[t] : ~(a < 0)
        /\ healthy' = IF healthy > Period THEN healthy ELSE healthy + 1
    BY <1>4, <1>5 DEF Tick
  <2>2. NoneAhead(ages[t])
    BY <2>1, Numbers, Parameters DEF NoneAhead, Ages, IInv, TypeInv
  <2>3. ~Pending(t)
    BY <2>1, <2>2 DEF Pending, Tick
  <2>4. healthy > elapsed
    BY <1>4, <1>5, <2>1
  <2>5. Linked(ages[t], elapsed, Lookback)
    BY <1>5, <2>3, <2>4 DEF IInv, LinkedSinceBeat
  <2>6. ages'[t] = {Older(a) : a \in ages[t]}
    BY DEF Tick
  <2>7. QED
    BY <1>4, <2>5, <2>6, LinkedAges, Numbers DEF IInv, TypeInv
<1>6. LinkedSinceBeat'
  BY <1>5 DEF LinkedSinceBeat
<1>7. LinkedForAPeriod'
  <2>1. ASSUME ChartsReach, healthy' > Period, NEW t \in Tickers
        PROVE  Linked(ages'[t], Period, Lookback)
    <3>1. elapsed' \in Nat /\ elapsed' <= Period /\ healthy' \in Nat
      BY <1>1, <1>4 DEF TypeInv, TypeOK
    <3>2. Linked(ages'[t], elapsed', Lookback)
      BY <1>4, <1>5, <2>1, <3>1
    <3>3. ages'[t] \in SUBSET Ages
      BY <1>1 DEF TypeInv, TypeOK
    <3>4. QED
      BY <1>4, <3>1, <3>2, <3>3, LinkedWeaker
  <2>2. QED
    BY <2>1 DEF LinkedForAPeriod
<1>8. QED
  BY <1>1, <1>3, <1>6, <1>7 DEF IInv

LEMMA AroundKeeps ==
  ASSUME ChartStep <= MaxGap, IInv,
         \/ Beat \/ ReconcileExpires \/ UNCHANGED vars
         \/ \E t \in Tickers : Collect(t) \/ BackfillByHand(t)
         \/ \E m \in repairs : Repair(m) \/ RepairFails(m)
  PROVE  IInv'
<1>1. TypeInv'
  BY TypeAround DEF IInv
<1>2. Grows /\ UNCHANGED <<pc, call, cursor, latest, found>>
  <2>1. CASE Beat \/ ReconcileExpires \/ UNCHANGED vars
    BY <2>1, SameGrows DEF Beat, ReconcileExpires, vars, IInv, TypeInv
  <2>2. ASSUME NEW t \in Tickers, Collect(t) \/ BackfillByHand(t)
        PROVE  Grows /\ UNCHANGED <<pc, call, cursor, latest, found>>
    <3>1. Grows
      BY <2>2, CollectGrows, BackfillGrows DEF IInv, TypeInv
    <3>2. QED
      BY <2>2, <3>1 DEF Collect, BackfillByHand
  <2>3. ASSUME NEW m \in repairs, Repair(m) \/ RepairFails(m)
        PROVE  Grows /\ UNCHANGED <<pc, call, cursor, latest, found>>
    <3>1. CASE Repair(m)
      <4>1. Grows
        BY <3>1, RepairGrows DEF IInv, TypeInv
      <4>2. QED
        BY <3>1, <4>1 DEF Repair
    <3>2. CASE RepairFails(m)
      BY <3>2, SameGrows DEF RepairFails, IInv, TypeInv
    <3>3. QED
      BY <2>3, <3>1, <3>2
  <2>4. QED
    BY <2>1, <2>2, <2>3
<1>3. PassedAreLinked' /\ LatestIsStored'
  BY <1>2, GrowsKeepsPassed, GrowsKeepsLatest
<1>4. \A t \in Tickers : ~NoneAhead(ages[t]) => ~NoneAhead(ages'[t])
  BY <1>2, GrowsKeeps DEF IInv, TypeInv
<1>5. LinkedSinceBeat' /\ LinkedForAPeriod'
  <2>1. CASE Beat
    <3>1. \A t \in Tickers : Pending(t)'
      BY <2>1 DEF Beat, Pending
    <3>2. healthy' = healthy /\ elapsed' = 0
      BY <2>1 DEF Beat
    <3>3. QED
      BY <1>2, <3>1, <3>2, GrowsKeepsLinks
  <2>2. CASE ReconcileExpires \/ \E m \in repairs : RepairFails(m)
    <3>1. healthy' = 0 /\ elapsed' = elapsed
      BY <2>2 DEF ReconcileExpires, RepairFails
    <3>2. QED
      BY <1>2, <3>1, GrowsKeepsLinks
  <2>3. CASE UNCHANGED vars \/ \E t \in Tickers : Collect(t) \/ BackfillByHand(t)
    <3>1. UNCHANGED <<queued, pc, call, repairs, elapsed, healthy>>
      BY <2>3 DEF vars, Collect, BackfillByHand
    <3>2. \A t \in Tickers : Pending(t) => Pending(t)'
      BY <1>4, <3>1 DEF Pending
    <3>3. QED
      BY <1>2, <3>1, <3>2, GrowsKeepsLinks
  <2>4. ASSUME NEW m \in repairs, Repair(m)
        PROVE  LinkedSinceBeat' /\ LinkedForAPeriod'
    <3>1. /\ UNCHANGED <<queued, pc, call, elapsed>> /\ repairs' = repairs \ {m}
      BY <2>4 DEF Repair
    <3>2. healthy' = 0 \/ /\ healthy' = healthy
                          /\ \A t \in Tickers : t \in m.tickers =>
                               ages'[t] = ages[t] \cup Chart(m.range)
      BY <2>4 DEF Repair
    <3>3. ASSUME NEW t \in Tickers, Pending(t), healthy' # 0
          PROVE  Pending(t)' \/ Linked(ages'[t], 0, Lookback)
      <4>1. CASE t \in m.tickers /\ Lookback <= m.range
        <5>1. m.range \in 0 .. Horizon /\ Lookback \in 0 .. m.range
          BY <4>1, Parameters DEF IInv, TypeInv, TypeOK
        <5>2. ages'[t] = ages[t] \cup Chart(m.range) /\ ages[t] \in SUBSET Ages
          BY <3>2, <3>3, <4>1, Numbers DEF IInv, TypeInv
        <5>3. Linked(ages'[t], 0, Lookback)
          BY <5>1, <5>2, ChartClosesGaps
        <5>4. QED
          BY <5>3
      <4>2. CASE ~(t \in m.tickers /\ Lookback <= m.range)
        BY <1>4, <3>1, <3>3, <4>2 DEF Pending
      <4>3. QED
        BY <4>1, <4>2
    <3>4. QED
      BY <1>2, <3>1, <3>2, <3>3, GrowsKeepsLinks
  <2>5. QED
    BY <2>1, <2>2, <2>3, <2>4
<1>6. QED
  BY <1>1, <1>3, <1>5 DEF IInv

-----------------------------------------------------------------------------
\* Steps of a run.

\* A run begins: nothing is passed, and if it is the one of beat it is pending.
LEMMA BeginKeeps ==
  ASSUME IInv, Start \/ \E c \in ByHand : StartByHand(c)
  PROVE  IInv'
<1>1. TypeInv' /\ Grows
  BY TypeRun, SameGrows DEF IInv, TypeInv, Start, StartByHand
<1>2. Passed' = {} /\ pc' = "latest" /\ pc = "idle" /\ call = Scheduled
  BY DEF Start, StartByHand, IInv, TypeInv, IdleMeansReset, Passed
<1>3. PassedAreLinked' /\ LatestIsStored'
  BY <1>2 DEF PassedAreLinked, LatestIsStored
<1>4. UNCHANGED <<ages, repairs, elapsed, healthy>>
  BY DEF Start, StartByHand
<1>5. \A t \in Tickers : Pending(t) => Pending(t)'
  <2>1. CASE Start
    BY <1>2, <2>1 DEF Start, Pending
  <2>2. CASE \E c \in ByHand : StartByHand(c)
    BY <1>2, <1>4, <2>2 DEF StartByHand, Pending
  <2>3. QED
    BY <2>1, <2>2
<1>6. QED
  BY <1>1, <1>3, <1>4, <1>5, GrowsKeepsLinks DEF IInv

LEMMA ReadLatestKeeps ==
  ASSUME IInv, ReadLatest
  PROVE  IInv'
<1>1. TypeInv' /\ Grows
  BY TypeRun, SameGrows DEF IInv, TypeInv, ReadLatest
<1>2. /\ UNCHANGED <<ages, queued, call, cursor, found, repairs, elapsed, healthy>>
      /\ latest' = LatestOf(ages[call.tickers[cursor]]) /\ pc = "latest" /\ pc' = "range"
  BY DEF ReadLatest
<1>3. LatestIsStored'
  <2>1. call.tickers[cursor] \in Tickers
    BY Numbers, CallsAre DEF ReadLatest, IInv, TypeInv
  <2>2. ages[call.tickers[cursor]] \in SUBSET Ages
    BY <2>1, Numbers DEF IInv, TypeInv
  <2>3. latest' # None => latest' \in ages[call.tickers[cursor]]
    BY <1>2, <2>2, LatestIsYoungest DEF LatestOf
  <2>4. QED
    BY <1>2, <2>3 DEF LatestIsStored
<1>4. \A t \in Tickers : Pending(t) => Pending(t)'
  BY <1>2 DEF Pending
<1>5. QED
  BY <1>1, <1>2, <1>3, <1>4, GrowsKeepsPassed, GrowsKeepsLinks DEF IInv

\* The ticker is passed when its latest row, read before, is recent and the range
\* has no gap; the latest row is one of those the range should hold.
LEMMA ReadRangeKeeps ==
  ASSUME IInv, ReadRange
  PROVE  IInv'
<1> DEFINE ticker == call.tickers[cursor]
<1>1. TypeInv' /\ Grows
  BY TypeRun, SameGrows DEF IInv, TypeInv, ReadRange
<1>2. /\ UNCHANGED <<ages, queued, call, repairs, elapsed, healthy>>
      /\ found' = IF Suspect(ticker) THEN found \cup {ticker} ELSE found
      /\ pc = "range" /\ pc' = "latest" /\ cursor' = cursor + 1
  BY DEF ReadRange
<1>3. ticker \in Tickers /\ cursor \in Nat /\ call.lookback \in Nat
  BY <1>2, Numbers, CallsAre, Parameters DEF IInv, TypeInv, CursorInRange
<1>4. \A t \in Passed' : t \in Passed \/ (t = ticker /\ ~Suspect(ticker))
  BY <1>2, <1>3 DEF Passed
<1>5. ASSUME ~Suspect(ticker)
      PROVE  /\ \E a \in ages[ticker] : a <= MaxGap
             /\ NoneAhead(ages[ticker]) => Linked(ages[ticker], 0, call.lookback)
  <2>1. /\ latest # None /\ ~(latest > MaxGap)
        /\ ~HasMissingIntervals({x \in ages[ticker] : 0 <= x /\ x <= call.lookback})
    BY <1>5 DEF Suspect, InWindow
  <2>2. latest \in ages[ticker] /\ ages[ticker] \in SUBSET Ages
    BY <1>2, <1>3, <2>1, Numbers DEF IInv, TypeInv, LatestIsStored
  <2>3. latest <= MaxGap
    BY <2>1, <2>2, Parameters DEF Ages
  <2>4. QED
    BY <1>3, <2>1, <2>2, <2>3, PassedLinks
<1> HIDE DEF ticker
<1>6. PassedAreLinked'
  BY <1>2, <1>4, <1>5 DEF IInv, PassedAreLinked
<1>7. LatestIsStored'
  BY <1>2 DEF LatestIsStored
<1>8. \A t \in Tickers : Pending(t) => Pending(t)'
  BY <1>2 DEF Pending
<1>9. QED
  BY <1>1, <1>2, <1>6, <1>7, <1>8, GrowsKeepsLinks DEF IInv

\* A run ends: of the tickers of beat each is passed, or in the new backfill.
LEMMA ScheduleKeeps ==
  ASSUME IInv, Schedule
  PROVE  IInv'
<1>1. TypeInv' /\ Grows
  BY TypeRun, SameGrows DEF IInv, TypeInv, Schedule
<1>2. /\ UNCHANGED <<ages, queued, elapsed, healthy>> /\ repairs \subseteq repairs'
      /\ pc' = "idle" /\ cursor' = 1 /\ found' = {}
  BY DEF Schedule, Idle
<1>3. PassedAreLinked' /\ LatestIsStored'
  BY <1>2 DEF PassedAreLinked, LatestIsStored, Passed
<1>4. ASSUME ChartsReach, NEW t \in Tickers, Pending(t)
      PROVE  Pending(t)' \/ Linked(ages'[t], 0, Lookback)
  <2>1. CASE call = Scheduled
    <3>1. PICK i \in 1 .. Len(Selected) : t = Selected[i]
      BY ReconciliationAssumption DEF Tickers, Range
    <3>2. i \in 1 .. cursor - 1
      BY <2>1, CallsAre, Numbers DEF Schedule, IInv, TypeInv
    <3>3. t \in Passed \/ t \in found
      BY <2>1, <3>1, <3>2, CallsAre DEF Passed
    <3>4. CASE t \in found
      <4>1. Lookback <= ResolveRange(Lookback) /\ call.lookback = Lookback
        BY <1>4, <2>1, CallsAre, RangeCovers, Parameters
      <4>2. [tickers |-> found, range |-> ResolveRange(Lookback)] \in repairs'
        BY <3>4, <4>1 DEF Schedule
      <4>3. QED
        BY <3>4, <4>1, <4>2 DEF Pending
    <3>5. CASE t \in Passed
      <4>1. NoneAhead(ages[t]) => Linked(ages[t], 0, Lookback)
        BY <2>1, <3>5, CallsAre DEF IInv, PassedAreLinked
      <4>2. QED
        BY <1>2, <4>1 DEF Pending
    <3>6. QED
      BY <3>3, <3>4, <3>5
  <2>2. CASE call # Scheduled
    BY <1>2, <1>4, <2>2 DEF Pending
  <2>3. QED
    BY <2>1, <2>2
<1>5. QED
  BY <1>1, <1>2, <1>3, <1>4, GrowsKeepsLinks DEF IInv

LEMMA ReconcileFailsKeeps ==
  ASSUME IInv, ReconcileFails
  PROVE  IInv'
<1>1. TypeInv' /\ Grows
  BY TypeRun, SameGrows DEF IInv, TypeInv, ReconcileFails
<1>2. /\ UNCHANGED <<ages, queued, elapsed, repairs>>
      /\ healthy' = IF call = Scheduled THEN 0 ELSE healthy
      /\ pc' = "idle" /\ cursor' = 1 /\ found' = {}
  BY DEF ReconcileFails, Idle
<1>3. PassedAreLinked' /\ LatestIsStored'
  BY <1>2 DEF PassedAreLinked, LatestIsStored, Passed
<1>4. ASSUME healthy' # 0, NEW t \in Tickers, Pending(t)
      PROVE  Pending(t)'
  BY <1>2, <1>4 DEF Pending
<1>5. QED
  BY <1>1, <1>2, <1>3, <1>4, GrowsKeepsLinks DEF IInv

LEMMA InvariantHolds ==
  ASSUME ChartStep <= MaxGap
  PROVE  Spec => []IInv
<1>1. Init => IInv
  <2> SUFFICES ASSUME Init PROVE IInv
    OBVIOUS
  <2>1. TypeInv
    <3>1. Len(Scheduled.tickers) \in Nat
      BY CallsAre DEF Calls
    <3>2. cursor \in 1 .. Len(call.tickers) + 1
      BY <3>1 DEF Init
    <3>3. elapsed \in 0 .. Period /\ healthy \in 0 .. Period + 1
      BY Parameters DEF Init
    <3>4. QED
      BY <3>2, <3>3 DEF Init, TypeInv, TypeOK, IdleMeansReset, CursorInRange
  <2>2. Passed = {}
    BY DEF Init, Passed
  <2>3. QED
    BY <2>1, <2>2, Parameters DEF Init, IInv, LatestIsStored, PassedAreLinked,
       LinkedSinceBeat, LinkedForAPeriod
<1>2. IInv /\ [Next]_vars => IInv'
  BY TickKeeps, AroundKeeps, BeginKeeps, ReadLatestKeeps, ReadRangeKeeps,
     ScheduleKeeps, ReconcileFailsKeeps DEF Next
<1>3. QED
  BY <1>1, <1>2, PTL DEF Spec

-----------------------------------------------------------------------------
\* Every variable keeps its type, whatever the charts of the provider look like.
THEOREM TypeCorrect == Spec => []TypeOK
<1>1. TypeInv => TypeOK
  BY DEF TypeInv
<1>2. QED
  BY <1>1, TypeInvHolds, PTL

\* What a run has passed is recent and has no gap in its window, whatever rows are
\* committed between its two reads and after them, when charts have no gaps
\* themselves and a live price is never stored so late that it would be one.
THEOREM PassedIsWhole ==
  ASSUME ChartStep <= MaxGap, MaxDelay <= MaxGap
  PROVE  Spec => []PassedMeansNoGap
<1>1. IInv => PassedMeansNoGap
  <2> SUFFICES ASSUME IInv, NEW t \in Passed
               PROVE  /\ LatestOf(ages[t]) <= MaxGap
                      /\ LatestOf(ages[t]) >= 0 =>
                           \A p, q \in InWindow(t, call.lookback) :
                             ~IsGap(InWindow(t, call.lookback), p, q)
    BY DEF PassedMeansNoGap
  <2>1. t \in Tickers /\ call.lookback \in Nat
    <3>1. \A j \in 1 .. cursor - 1 : call.tickers[j] \in Tickers
      BY Numbers, CallsAre DEF IInv, TypeInv
    <3>2. call.lookback \in Nat
      BY Numbers, CallsAre, Parameters DEF IInv, TypeInv
    <3>3. QED
      BY <3>1, <3>2 DEF Passed
  <2>2. ages[t] \in SUBSET Ages /\ ages[t] \subseteq Int
    BY <2>1, Numbers, Parameters DEF IInv, TypeInv, Ages
  <2>3. PICK a \in ages[t] : a <= MaxGap
    BY DEF IInv, PassedAreLinked
  <2>4. LatestOf(ages[t]) \in ages[t] /\ \A x \in ages[t] : LatestOf(ages[t]) <= x
    BY <2>2, <2>3, LatestIsYoungest
  <2>5. LatestOf(ages[t]) <= MaxGap
    BY <2>2, <2>3, <2>4, Parameters
  <2>6. ASSUME LatestOf(ages[t]) >= 0,
               NEW p \in InWindow(t, call.lookback), NEW q \in InWindow(t, call.lookback),
               IsGap(InWindow(t, call.lookback), p, q)
        PROVE  FALSE
    <3>1. NoneAhead(ages[t])
      BY <2>2, <2>4, <2>6 DEF NoneAhead
    <3>2. Linked(ages[t], 0, call.lookback)
      BY <3>1 DEF IInv, PassedAreLinked
    <3>3. /\ InWindow(t, call.lookback) \in SUBSET ages[t] /\ 0 <= q /\ p <= call.lookback
          /\ p \in Int /\ q \in Int
          /\ \A x \in ages[t] : 0 <= x /\ x <= call.lookback => x \in InWindow(t, call.lookback)
      BY <2>2 DEF InWindow
    <3>4. p <= 0 + MaxGap \/ p <= 0 + MaxDelay
      BY <2>1, <2>2, <2>6, <3>2, <3>3, LinkedHasNoGap
    <3>5. p - q > MaxGap
      BY <2>6 DEF IsGap
    <3>6. QED
      BY <3>3, <3>4, <3>5, Parameters
  <2>7. QED
    BY <2>5, <2>6
<1>2. QED
  BY <1>1, InvariantHolds, PTL

\* While beat, workers and provider do their part for a period, every gap in the
\* window of the scheduled run is closed but for the rows younger than a period,
\* for every period, window and number of tickers and whatever is called by
\* hand, when charts have no gaps themselves and reach back to their thresholds.
THEOREM GapsClose ==
  ASSUME ChartStep <= MaxGap, ChartsReach
  PROVE  Spec => []GapsAreRepaired
<1>1. IInv => GapsAreRepaired
  <2> SUFFICES ASSUME IInv, healthy > Period, NEW t \in Tickers,
                      NEW p \in InWindow(t, Lookback), NEW q \in InWindow(t, Lookback),
                      IsGap(ages[t], p, q)
               PROVE  q <= Period + MaxDelay
    BY DEF GapsAreRepaired
  <2>1. Linked(ages[t], Period, Lookback)
    BY DEF IInv, LinkedForAPeriod
  <2>2. ages[t] \in SUBSET Ages
    BY Numbers DEF IInv, TypeInv
  <2>3. /\ p \in ages[t] /\ q \in ages[t] /\ 0 <= q /\ p <= Lookback
        /\ p \in Int /\ q \in Int
    BY <2>2, Parameters DEF InWindow, Ages
  <2>4. p <= Period + MaxGap \/ p <= Period + MaxDelay
    BY <2>1, <2>2, <2>3, LinkedHasNoGap, Parameters
  <2>5. p - q > MaxGap
    BY DEF IsGap
  <2>6. QED
    BY <2>3, <2>4, <2>5, Parameters
<1>2. QED
  BY <1>1, InvariantHolds, PTL

=============================================================================
