-------------------------- MODULE PriceReadsProofs --------------------------
(***************************************************************************)
(* Proofs about PriceReads, for every finite set of keys, every page limit *)
(* and every window: pages by offset while rows are committed, and the     *)
(* three reads of a metrics snapshot.  Both follow from what a commit      *)
(* cannot do: remove a key, or lower the rank of a row.  For every set of  *)
(* intervals: the candles of a range are those of its parts.               *)
(***************************************************************************)
EXTENDS PriceReads, FiniteSetTheorems, SequenceTheorems, TLAPS

\* The timestamps in the range of a client that pages, and those before x.
StampsInRange == {r.timestamp : r \in Found(client.ticker, client.window[1], client.window[2])}

StampsBefore(T, x, sorting) == {y \in T : IF sorting = "desc" THEN y > x ELSE y < x}

TickersOf(S) == {r.ticker : r \in S}

\* The fields of a client's record.
ClientShape ==
  /\ client.state \in {"paging", "end of pages"} =>
       client = [state |-> client.state, ticker |-> client.ticker,
                 window |-> client.window, sorting |-> client.sorting,
                 offset |-> client.offset, seen |-> client.seen, first |-> client.first]
  /\ client.state = "metrics" =>
       client = [state |-> "metrics", step |-> client.step, total |-> client.total,
                 counts |-> client.counts, latest |-> client.latest]

\* What the client has yet to see is behind its offset.
RestBehindOffset ==
  client.state = "paging" =>
    \A x \in client.first \ client.seen :
      /\ x \in StampsInRange
      /\ client.offset <= Cardinality(StampsBefore(StampsInRange, x, client.sorting))

\* Each read of a snapshot bounds those that follow.
ReadsInOrder ==
  client.state = "metrics" =>
    /\ client.step >= 2 => client.total \in Nat
    /\ client.step = 2 => client.total <= Cardinality(rows)
    /\ client.step >= 3 =>
         /\ client.total <= Cardinality(CountedRows(client.counts))
         /\ DOMAIN client.counts \subseteq TickersOf(rows)
    /\ client.step = 4 =>
         /\ DOMAIN client.counts \subseteq DOMAIN client.latest
         /\ \A t \in DOMAIN client.latest :
              /\ client.latest[t].timestamp \in Stamps
              /\ \E r \in rows : /\ r.ticker = t
                                 /\ client.latest[t].timestamp <= r.timestamp

IInv ==
  /\ TypeOK
  /\ ClientShape
  /\ RestBehindOffset
  /\ PagesHideNothing
  /\ ReadsInOrder

-----------------------------------------------------------------------------
\* Lemmas on Ordered and Page.

\* Rows of one ticker: no two share a timestamp.
Sortable(S) ==
  /\ IsFiniteSet(S)
  /\ \A r \in S : r.timestamp \in Int
  /\ \A r, s \in S : r.timestamp = s.timestamp => r = s

LEMMA RankBounds ==
  ASSUME NEW S, Sortable(S), NEW sorting, NEW r \in S
  PROVE  /\ Rank(S, r, sorting) \in Nat /\ Cardinality(S) \in Nat
         /\ Rank(S, r, sorting) < Cardinality(S)
<1> DEFINE B == {s \in S : Before(s, r, sorting)}
<1>1. B \subseteq S \ {r}
  BY DEF Before, Sortable
<1>2. /\ IsFiniteSet(S \ {r}) /\ Cardinality(S \ {r}) = Cardinality(S) - 1
      /\ Cardinality(S) \in Nat
  BY FS_RemoveElement, FS_CardinalityType DEF Sortable
<1>3. IsFiniteSet(B) /\ Cardinality(B) <= Cardinality(S) - 1
  BY <1>1, <1>2, FS_Subset
<1>4. Cardinality(B) \in Nat
  BY <1>3, FS_CardinalityType
<1>5. QED
  BY <1>2, <1>3, <1>4 DEF Rank

LEMMA RankGrows ==
  ASSUME NEW S, Sortable(S), NEW sorting, NEW r \in S, NEW s \in S, Before(s, r, sorting)
  PROVE  Rank(S, s, sorting) < Rank(S, r, sorting)
<1> DEFINE B(x) == {y \in S : Before(y, x, sorting)}
<1>1. B(s) \subseteq B(r) \ {s} /\ s \in B(r)
  BY DEF Before, Sortable
<1>2. IsFiniteSet(B(r))
  BY FS_Subset DEF Sortable
<1>3. /\ IsFiniteSet(B(r) \ {s}) /\ Cardinality(B(r) \ {s}) = Cardinality(B(r)) - 1
  BY <1>1, <1>2, FS_RemoveElement
<1>4. Cardinality(B(s)) <= Cardinality(B(r)) - 1
  BY <1>1, <1>3, FS_Subset
<1>5. Cardinality(B(s)) \in Nat /\ Cardinality(B(r)) \in Nat
  BY <1>2, FS_Subset, FS_CardinalityType DEF Sortable
<1>6. QED
  BY <1>4, <1>5 DEF Rank

LEMMA RankInjective ==
  ASSUME NEW S, Sortable(S), NEW sorting, NEW r \in S, NEW s \in S,
         Rank(S, r, sorting) = Rank(S, s, sorting)
  PROVE  r = s
<1>1. Before(r, s, sorting) \/ Before(s, r, sorting) \/ r.timestamp = s.timestamp
  BY DEF Before, Sortable
<1>2. ~(Rank(S, r, sorting) < Rank(S, s, sorting)) /\ ~(Rank(S, s, sorting) < Rank(S, r, sorting))
  BY RankBounds
<1>3. r.timestamp = s.timestamp
  BY <1>1, <1>2, RankGrows
<1>4. QED
  BY <1>3 DEF Sortable

LEMMA RankOnto ==
  ASSUME NEW S, Sortable(S), NEW sorting, NEW i \in 1 .. Cardinality(S)
  PROVE  \E r \in S : Rank(S, r, sorting) = i - 1
<1> DEFINE n == Cardinality(S)
           f == [r \in S |-> Rank(S, r, sorting)]
<1>1. n \in Nat /\ IsFiniteSet(S)
  BY FS_CardinalityType DEF Sortable
<1>2. IsFiniteSet(0 .. n - 1) /\ Cardinality(0 .. n - 1) = n
  <2>1. PICK k \in Int : k = n - 1
    BY <1>1
  <2>2. IsFiniteSet(0 .. k) /\ Cardinality(0 .. k) = IF 0 > k THEN 0 ELSE k - 0 + 1
    BY FS_Interval
  <2>3. Cardinality(0 .. k) = n
    BY <1>1, <2>1, <2>2
  <2>4. QED
    BY <2>1, <2>2, <2>3
<1>3. f \in Injection(S, 0 .. n - 1)
  <2>1. \A r \in S : Rank(S, r, sorting) \in 0 .. n - 1
    BY <1>1, RankBounds
  <2>2. f \in [S -> 0 .. n - 1]
    BY <2>1
  <2>3. \A r, s \in S : f[r] = f[s] => r = s
    BY RankInjective
  <2>4. QED
    BY <2>2, <2>3 DEF Injection, IsInjective
<1>4. f \in Surjection(S, 0 .. n - 1)
  BY <1>2, <1>3, FS_Injection
<1>5. i - 1 \in 0 .. n - 1
  BY <1>1
<1>6. PICK r \in S : f[r] = i - 1
  BY <1>4, <1>5 DEF Surjection
<1>7. QED
  BY <1>6

\* Ordered puts each row at its rank.
LEMMA OrderedIs ==
  ASSUME NEW S, Sortable(S), NEW sorting
  PROVE  LET q == Ordered(S, sorting)
         IN  /\ q \in Seq(S) /\ Len(q) = Cardinality(S) /\ Cardinality(S) \in Nat
             /\ \A r \in S : q[Rank(S, r, sorting) + 1] = r
             /\ \A i \in 1 .. Cardinality(S) : Rank(S, q[i], sorting) = i - 1
<1> DEFINE n == Cardinality(S)
           q == Ordered(S, sorting)
<1>1. n \in Nat
  BY FS_CardinalityType DEF Sortable
<1>2. ASSUME NEW i \in 1 .. n
      PROVE  q[i] \in S /\ Rank(S, q[i], sorting) = i - 1
  <2>1. q[i] = CHOOSE r \in S : Rank(S, r, sorting) = i - 1
    BY DEF Ordered
  <2>2. \E r \in S : Rank(S, r, sorting) = i - 1
    BY RankOnto
  <2>3. QED
    BY <2>1, <2>2
<1>3. q \in [1 .. n -> S]
  BY <1>2 DEF Ordered
<1>4. q \in Seq(S) /\ Len(q) = n
  BY <1>1, <1>3
<1>5. ASSUME NEW r \in S
      PROVE  q[Rank(S, r, sorting) + 1] = r
  <2>1. Rank(S, r, sorting) + 1 \in 1 .. n /\ Rank(S, r, sorting) \in Nat
    BY <1>1, RankBounds
  <2>2. Rank(S, q[Rank(S, r, sorting) + 1], sorting) = Rank(S, r, sorting)
    BY <1>2, <2>1
  <2>3. QED
    BY <1>2, <2>1, <2>2, RankInjective
<1>6. QED
  BY <1>1, <1>2, <1>4, <1>5

LEMMA MinOfTwo ==
  ASSUME NEW a \in Int, NEW b \in Int
  PROVE  Min({a, b}) = IF a <= b THEN a ELSE b
BY DEF Min

LEMMA SubSeqIs ==
  ASSUME NEW S, NEW q \in Seq(S), NEW offset \in Nat, NEW last \in Nat, last <= Len(q)
  PROVE  LET page == SubSeq(q, offset + 1, last)
         IN  /\ page \in Seq(S)
             /\ Len(page) = IF offset < last THEN last - offset ELSE 0
             /\ \A i \in 1 .. last - offset : page[i] = q[offset + i]
<1>1. PICK first \in Nat : first = offset + 1
  OBVIOUS
<1>2. \A i \in first .. last : q[i] \in S
  BY <1>1
<1>3. /\ SubSeq(q, first, last) \in Seq(S)
      /\ Len(SubSeq(q, first, last)) = IF first <= last THEN last - first + 1 ELSE 0
      /\ \A i \in 1 .. last - first + 1 : SubSeq(q, first, last)[i] = q[first + i - 1]
  BY <1>2, SubSeqProperties
<1>4. last - first + 1 = last - offset /\ \A i \in Int : first + i - 1 = offset + i
  BY <1>1
<1>5. QED
  BY <1>1, <1>3, <1>4

\* A page holds the rows whose ranks are its own, and is empty behind the last.
LEMMA PageIs ==
  ASSUME NEW S, Sortable(S), NEW sorting, NEW limit \in Nat \ {0}, NEW offset \in Nat
  PROVE  LET page == Page(Ordered(S, sorting), limit, offset)
         IN  /\ page = <<>> => Cardinality(S) <= offset
             /\ page # <<>> => offset < Cardinality(S)
             /\ \A i \in DOMAIN page : page[i] \in S
             /\ \A r \in S :
                  offset <= Rank(S, r, sorting) /\ Rank(S, r, sorting) < offset + limit =>
                    \E i \in DOMAIN page : page[i] = r
<1> DEFINE n == Cardinality(S)
           q == Ordered(S, sorting)
           last == IF offset + limit <= n THEN offset + limit ELSE n
           page == SubSeq(q, offset + 1, last)
<1>1. n \in Nat /\ q \in Seq(S) /\ Len(q) = n /\ \A r \in S : q[Rank(S, r, sorting) + 1] = r
  BY OrderedIs
<1>2. Page(q, limit, offset) = page
  BY <1>1, MinOfTwo DEF Page
<1>3. last \in Nat /\ last <= n /\ last <= offset + limit
  BY <1>1
<1> HIDE DEF q, n
<1>4. /\ page \in Seq(S)
      /\ Len(page) = IF offset < last THEN last - offset ELSE 0
      /\ \A i \in 1 .. last - offset : page[i] = q[offset + i]
  BY <1>1, <1>3, SubSeqIs
<1>5. offset < last <=> offset < n
  BY <1>1 DEF last
<1> HIDE DEF page, last
<1>6. page = <<>> <=> Len(page) = 0
  BY <1>4
<1>7. (page = <<>> => n <= offset) /\ (page # <<>> => offset < n)
  BY <1>1, <1>3, <1>4, <1>5, <1>6
<1>8. \A i \in DOMAIN page : page[i] \in S
  BY <1>4
<1>9. ASSUME NEW r \in S, offset <= Rank(S, r, sorting), Rank(S, r, sorting) < offset + limit
      PROVE  \E i \in DOMAIN page : page[i] = r
  <2>1. Rank(S, r, sorting) \in Nat /\ Rank(S, r, sorting) < n
    BY RankBounds DEF n
  <2>2. PICK k \in Nat : k = Rank(S, r, sorting)
    BY <2>1
  <2>3. k < last
    BY <1>1, <1>9, <2>1, <2>2 DEF last
  <2>4. k - offset + 1 \in 1 .. last - offset /\ offset + (k - offset + 1) = k + 1
    BY <1>3, <1>9, <2>2, <2>3
  <2>5. page[k - offset + 1] = q[k + 1] /\ k - offset + 1 \in DOMAIN page
    BY <1>3, <1>4, <2>4
  <2>6. q[k + 1] = r
    BY <1>1, <2>2
  <2>7. QED
    BY <2>5, <2>6
<1>10. QED
  BY <1>2, <1>7, <1>8, <1>9 DEF n, q

-----------------------------------------------------------------------------
\* Lemmas on the table.

\* The part of TypeOK about the table, and what it says of the rows.
RowsOK(S) ==
  /\ S \subseteq {Row(k, p) : k \in Keys, p \in Prices}
  /\ \A r, s \in S : KeyOf(r) = KeyOf(s) => r = s

LEMMA RowsAre ==
  ASSUME NEW S, RowsOK(S)
  PROVE  /\ IsFiniteSet(S) /\ Cardinality(S) \in Nat
         /\ Cardinality(Keys) \in Nat /\ Cardinality(S) <= Cardinality(Keys)
         /\ \A r \in S : /\ KeyOf(r) \in Keys /\ r.ticker \in Tickers
                         /\ r.timestamp \in Stamps /\ r.timestamp \in Nat
<1>1. ASSUME NEW r \in S
      PROVE  /\ KeyOf(r) \in Keys /\ r.ticker \in Tickers
             /\ r.timestamp \in Stamps /\ r.timestamp \in Nat
  <2>1. PICK k \in Keys, p \in Prices : r = Row(k, p)
    BY DEF RowsOK
  <2>2. r.ticker = k[1] /\ r.timestamp = k[2]
    BY <2>1 DEF Row
  <2>3. KeyOf(r) = k /\ k[2] \in Nat
    BY <2>2, ReadsAssumption DEF KeyOf
  <2>4. QED
    BY <2>2, <2>3 DEF Tickers, Stamps
<1> DEFINE f == [r \in S |-> KeyOf(r)]
<1>2. f \in [S -> Keys] /\ \A r, s \in S : f[r] = f[s] => r = s
  BY <1>1 DEF RowsOK
<1>3. f \in Injection(S, Keys) /\ IsFiniteSet(Keys)
  BY <1>2, ReadsAssumption DEF Injection, IsInjective
<1>4. IsFiniteSet(S) /\ Cardinality(S) <= Cardinality(Keys)
  BY <1>3, FS_Injection
<1>5. Cardinality(S) \in Nat /\ Cardinality(Keys) \in Nat
  BY <1>3, <1>4, FS_CardinalityType
<1>6. QED
  BY <1>1, <1>4, <1>5

\* The rows of one ticker can be sorted.
LEMMA TickerSortable ==
  ASSUME NEW S, RowsOK(S), NEW F \in SUBSET S, NEW ticker, \A r \in F : r.ticker = ticker
  PROVE  Sortable(F) /\ Cardinality(F) <= Cardinality(S)
<1>1. IsFiniteSet(F) /\ Cardinality(F) <= Cardinality(S)
  BY RowsAre, FS_Subset
<1>2. \A r \in F : r.timestamp \in Nat
  BY RowsAre
<1>3. \A r, s \in F : r.timestamp = s.timestamp => r = s
  BY DEF RowsOK, KeyOf
<1>4. QED
  BY <1>1, <1>2, <1>3 DEF Sortable

\* The rank of a row is the number of timestamps before its own.
LEMMA RankOfStamp ==
  ASSUME NEW S, Sortable(S), NEW sorting, NEW r \in S
  PROVE  Cardinality(StampsBefore({s.timestamp : s \in S}, r.timestamp, sorting))
         = Rank(S, r, sorting)
<1> DEFINE B == {s \in S : Before(s, r, sorting)}
           A == StampsBefore({s.timestamp : s \in S}, r.timestamp, sorting)
           g == [s \in B |-> s.timestamp]
<1>1. \A s \in B : s.timestamp \in A
  BY DEF Before, StampsBefore
<1>2. \A y \in A : \E s \in B : s.timestamp = y
  BY DEF Before, StampsBefore
<1>3. \A s, u \in B : s.timestamp = u.timestamp => s = u
  BY DEF Sortable
<1>4. IsFiniteSet(B)
  BY FS_Subset DEF Sortable
<1> HIDE DEF A, B
<1>5. g \in Surjection(B, A) /\ g \in Injection(B, A)
  BY <1>1, <1>2, <1>3 DEF Surjection, Injection, IsInjective
<1>6. Cardinality(A) = Cardinality(B)
  BY <1>4, <1>5, FS_Surjection
<1>7. QED
  BY <1>6 DEF A, B, Rank

\* A commit removes no key; the new table has no fewer rows.
LEMMA CommitKeepsKeys ==
  ASSUME NEW k \in Keys, NEW p \in Prices, RowsOK(rows), Commit(k, p)
  PROVE  /\ RowsOK(rows')
         /\ \A r \in rows : \E s \in rows' : s.ticker = r.ticker /\ s.timestamp = r.timestamp
         /\ Cardinality(rows) <= Cardinality(rows')
<1>1. /\ rows' = {r \in rows : KeyOf(r) # k} \cup {Row(k, p)}
      /\ KeyOf(Row(k, p)) = k /\ Row(k, p).ticker = k[1] /\ Row(k, p).timestamp = k[2]
  BY ReadsAssumption DEF Commit, Row, KeyOf
<1>2. RowsOK(rows')
  BY <1>1 DEF RowsOK
<1>3. ASSUME NEW r \in rows
      PROVE  \E s \in rows' : s.ticker = r.ticker /\ s.timestamp = r.timestamp
  <2>1. CASE KeyOf(r) # k
    BY <1>1, <2>1
  <2>2. CASE KeyOf(r) = k
    BY <1>1, <2>2 DEF KeyOf
  <2>3. QED
    BY <2>1, <2>2
<1>4. Cardinality(rows) <= Cardinality(rows')
  <2> DEFINE f == [r \in rows |-> CHOOSE s \in rows' : s.ticker = r.ticker
                                                    /\ s.timestamp = r.timestamp]
  <2>1. \A r \in rows : f[r] \in rows' /\ f[r].ticker = r.ticker
                        /\ f[r].timestamp = r.timestamp
    BY <1>3
  <2> HIDE DEF f
  <2>2. \A r, s \in rows : f[r] = f[s] => r = s
    BY <2>1 DEF RowsOK, KeyOf
  <2>3. f \in Injection(rows, rows')
    <3>1. f \in [rows -> rows']
      BY <2>1 DEF f
    <3>2. QED
      BY <2>2, <3>1 DEF Injection, IsInjective
  <2>4. QED
    BY <1>2, <2>3, RowsAre, FS_Injection
<1>5. QED
  BY <1>2, <1>3, <1>4

\* The counts by ticker include every row.
LEMMA CountsCover ==
  ASSUME NEW S, RowsOK(S)
  PROVE  /\ DOMAIN GetCountsByTicker(S) = TickersOf(S)
         /\ IsFiniteSet(CountedRows(GetCountsByTicker(S)))
         /\ Cardinality(S) <= Cardinality(CountedRows(GetCountsByTicker(S)))
<1> DEFINE F(t) == {r \in S : r.ticker = t}
           counts == GetCountsByTicker(S)
           Pairs(t) == {t} \X (1 .. counts[t])
           all == {Pairs(t) : t \in TickersOf(S)}
<1>1. DOMAIN counts = TickersOf(S) /\ \A t \in TickersOf(S) : counts[t] = Cardinality(F(t))
  BY DEF GetCountsByTicker, TickersOf
<1>2. CountedRows(counts) = UNION all
  BY <1>1 DEF CountedRows
<1>3. \A t : Sortable(F(t)) /\ Cardinality(F(t)) \in Nat
  <2>1. \A t : Sortable(F(t))
    BY TickerSortable
  <2>2. QED
    BY <2>1, FS_CardinalityType DEF Sortable
<1> HIDE DEF counts
<1>4. IsFiniteSet(all)
  <2> DEFINE g == [r \in S |-> Pairs(r.ticker)]
  <2>1. g \in Surjection(S, all)
    BY DEF Surjection, TickersOf
  <2>2. QED
    BY <2>1, RowsAre, FS_Surjection
<1>5. \A A \in all : IsFiniteSet(A)
  <2>1. ASSUME NEW t \in TickersOf(S)
        PROVE  IsFiniteSet(Pairs(t))
    <3>1. counts[t] \in Nat
      BY <1>1, <1>3
    <3>2. PICK n \in Nat : n = counts[t]
      BY <3>1
    <3>3. IsFiniteSet({t}) /\ IsFiniteSet(1 .. n)
      <4>1. IsFiniteSet({t})
        BY FS_Singleton
      <4>2. IsFiniteSet(1 .. n)
        BY FS_Interval, 1 \in Int, n \in Int
      <4>3. QED
        BY <4>1, <4>2
    <3>4. IsFiniteSet({t} \X (1 .. n))
      BY <3>3, FS_Product
    <3>5. QED
      BY <3>2, <3>4
  <2>2. QED
    BY <2>1
<1>6. IsFiniteSet(UNION all)
  BY <1>4, <1>5, FS_UNION
<1>7. ASSUME NEW r \in S
      PROVE  <<r.ticker, Rank(F(r.ticker), r, "asc") + 1>> \in UNION all
  <2>1. PICK t : t = r.ticker
    OBVIOUS
  <2>2. PICK G : G = F(t)
    OBVIOUS
  <2>3. t \in TickersOf(S) /\ r \in G /\ counts[t] = Cardinality(G) /\ Sortable(G)
    BY <1>1, <1>3, <2>1, <2>2 DEF TickersOf
  <2> HIDE DEF F
  <2>4. /\ Rank(G, r, "asc") \in Nat /\ Cardinality(G) \in Nat
        /\ Rank(G, r, "asc") < Cardinality(G)
    BY <2>3, RankBounds
  <2>5. Rank(G, r, "asc") + 1 \in 1 .. counts[t]
    BY <2>3, <2>4
  <2>6. QED
    BY <2>1, <2>2, <2>3, <2>5
<1> DEFINE f == [r \in S |-> <<r.ticker, Rank(F(r.ticker), r, "asc") + 1>>]
<1>8. \A r, s \in S : f[r] = f[s] => r = s
  <2> SUFFICES ASSUME NEW r \in S, NEW s \in S, f[r] = f[s]
               PROVE  r = s
    OBVIOUS
  <2>1. PICK G : G = F(r.ticker)
    OBVIOUS
  <2>2. r.ticker = s.ticker /\ r \in G /\ s \in G /\ Sortable(G)
    BY <1>3, <2>1
  <2>3. Rank(G, r, "asc") + 1 = Rank(G, s, "asc") + 1
    BY <2>1, <2>2
  <2>4. Rank(G, r, "asc") \in Nat /\ Rank(G, s, "asc") \in Nat
    BY <2>2, RankBounds
  <2>5. Rank(G, r, "asc") = Rank(G, s, "asc")
    BY <2>3, <2>4
  <2>6. QED
    BY <2>2, <2>5, RankInjective
<1>9. f \in Injection(S, UNION all)
  BY <1>7, <1>8 DEF Injection, IsInjective
<1>10. QED
  BY <1>1, <1>2, <1>6, <1>9, FS_Injection DEF counts

\* In descending order, a row that is not older than any other comes first.
LEMMA NewestComesFirst ==
  ASSUME NEW S, RowsOK(S), NEW r \in S
  PROVE  LET F == {s \in S : s.ticker = r.ticker}
             q == Ordered(F, "desc")
         IN  /\ Sortable(F) /\ q \in Seq(F) /\ Len(q) \in Nat \ {0}
             /\ q[1] \in F /\ \A s \in F : s.timestamp <= q[1].timestamp
<1> DEFINE F == {s \in S : s.ticker = r.ticker}
           q == Ordered(F, "desc")
           B == {s \in F : Before(s, q[1], "desc")}
<1>1. Sortable(F) /\ r \in F
  BY TickerSortable
<1> HIDE DEF F
<1>2. /\ q \in Seq(F) /\ Len(q) = Cardinality(F) /\ Cardinality(F) \in Nat
      /\ \A i \in 1 .. Cardinality(F) : Rank(F, q[i], "desc") = i - 1
  BY <1>1, OrderedIs
<1>3. Cardinality(F) # 0
  BY <1>1, FS_EmptySet DEF Sortable
<1> HIDE DEF q
<1>4. q[1] \in F /\ Rank(F, q[1], "desc") = 0
  BY <1>2, <1>3
<1>5. IsFiniteSet(B) /\ Cardinality(B) = 0
  BY <1>1, <1>4, FS_Subset DEF Rank, Sortable
<1>6. B = {}
  BY <1>5, FS_EmptySet
<1>7. \A s \in F : s.timestamp <= q[1].timestamp
  BY <1>1, <1>4, <1>6 DEF Before, Sortable
<1>8. QED
  BY <1>1, <1>2, <1>3, <1>4, <1>7 DEF F, q

\* The latest price of each ticker is a row of that ticker.
LEMMA LatestPricesAre ==
  ASSUME NEW S, RowsOK(S)
  PROVE  /\ DOMAIN GetLatestPricesByTicker(S) = TickersOf(S)
         /\ \A t \in TickersOf(S) : /\ GetLatestPricesByTicker(S)[t] \in S
                                    /\ GetLatestPricesByTicker(S)[t].ticker = t
<1> DEFINE Newest(t, r) == /\ r.ticker = t
                           /\ \A s \in S : s.ticker = t => s.timestamp <= r.timestamp
<1>1. /\ DOMAIN GetLatestPricesByTicker(S) = TickersOf(S)
      /\ \A t \in TickersOf(S) :
           GetLatestPricesByTicker(S)[t] = CHOOSE r \in S : Newest(t, r)
  BY DEF GetLatestPricesByTicker, TickersOf
<1>2. ASSUME NEW t \in TickersOf(S)
      PROVE  \E r \in S : Newest(t, r)
  <2>1. PICK r \in S : r.ticker = t
    BY DEF TickersOf
  <2> DEFINE F == {s \in S : s.ticker = r.ticker}
             newest == Ordered(F, "desc")[1]
  <2>2. newest \in F /\ \A s \in F : s.timestamp <= newest.timestamp
    BY NewestComesFirst
  <2>3. Newest(t, newest)
    BY <2>1, <2>2
  <2>4. QED
    BY <2>2, <2>3
<1> HIDE DEF Newest
<1>3. \A t \in TickersOf(S) : /\ GetLatestPricesByTicker(S)[t] \in S
                              /\ Newest(t, GetLatestPricesByTicker(S)[t])
  BY <1>1, <1>2
<1>4. QED
  BY <1>1, <1>3 DEF Newest

\* The latest price of a ticker with a row is not older than that row.
LEMMA LatestIs ==
  ASSUME NEW S, RowsOK(S), NEW r \in S
  PROVE  /\ GetLatestByTicker(S, r.ticker) # NoPrice
         /\ GetLatestByTicker(S, r.ticker).timestamp \in Nat
         /\ r.timestamp <= GetLatestByTicker(S, r.ticker).timestamp
<1> DEFINE F == {s \in S : s.ticker = r.ticker}
           q == Ordered(F, "desc")
           first == Page(q, 1, 0)
<1>1. /\ Sortable(F) /\ q \in Seq(F) /\ Len(q) \in Nat \ {0}
      /\ q[1] \in F /\ \A s \in F : s.timestamp <= q[1].timestamp
  BY NewestComesFirst
<1>2. r \in F /\ q[1] \in S
  BY <1>1
<1>3. GetLatestByTicker(S, r.ticker) = IF first = <<>> THEN NoPrice ELSE first[1]
  BY DEF GetLatestByTicker
<1> HIDE DEF F, q
<1>4. first = SubSeq(q, 0 + 1, 1)
  <2>1. PICK limit \in Int, total \in Int : limit = 0 + 1 /\ total = Len(q)
    BY <1>1
  <2>2. Min({limit, total}) = 1
    BY <1>1, <2>1, MinOfTwo
  <2>3. QED
    BY <2>1, <2>2 DEF Page
<1>5. /\ SubSeq(q, 0 + 1, 1) \in Seq(F) /\ Len(SubSeq(q, 0 + 1, 1)) = 1 - 0
      /\ \A i \in 1 .. 1 - 0 : SubSeq(q, 0 + 1, 1)[i] = q[0 + i]
  BY <1>1, SubSeqIs
<1>6. first # <<>> /\ first[1] = q[1]
  BY <1>4, <1>5
<1>7. q[1] # NoPrice
  <2>1. PICK k \in Keys, p \in Prices : q[1] = Row(k, p)
    BY <1>2 DEF RowsOK
  <2>2. DOMAIN Row(k, p) = {"ticker", "timestamp", "price"} /\ DOMAIN NoPrice = {"ticker"}
    BY DEF Row, NoPrice
  <2>3. QED
    BY <2>1, <2>2
<1>8. q[1].timestamp \in Nat
  BY <1>2, RowsAre
<1>9. QED
  BY <1>1, <1>2, <1>3, <1>6, <1>7, <1>8

-----------------------------------------------------------------------------
\* The steps.

\* The part of TypeOK about the client.
ClientOK ==
  /\ client.state \in {"idle", "paging", "end of pages", "metrics", "analytics"}
  /\ client.state \in {"paging", "end of pages"} =>
       /\ client.ticker \in Tickers /\ client.sorting \in {"asc", "desc"}
       /\ client.offset \in 0 .. Cardinality(Keys) + PageLimit
       /\ client.seen \subseteq Stamps /\ client.first \subseteq Stamps
  /\ client.state = "metrics" => client.step \in 1 .. 4

LEMMA TypeParts ==
  /\ TypeOK <=> RowsOK(rows) /\ ClientOK
  /\ TypeOK' <=> RowsOK(rows') /\ ClientOK'
<1>1. TypeOK <=> RowsOK(rows) /\ ClientOK
  BY DEF TypeOK, RowsOK, ClientOK
<1>2. TypeOK' <=> RowsOK(rows') /\ ClientOK'
  BY DEF TypeOK, RowsOK, ClientOK, KeyOf, Row
<1>3. QED
  BY <1>1, <1>2

LEMMA StampsAre ==
  ASSUME NEW T, T \subseteq Stamps
  PROVE  IsFiniteSet(T) /\ T \subseteq Nat
<1> DEFINE f == [k \in Keys |-> k[2]]
<1>1. f \in Surjection(Keys, Stamps)
  BY DEF Surjection, Stamps
<1>2. IsFiniteSet(Stamps)
  BY <1>1, ReadsAssumption, FS_Surjection
<1>3. IsFiniteSet(T)
  BY <1>2, FS_Subset
<1>4. Stamps \subseteq Nat
  BY ReadsAssumption DEF Stamps
<1>5. QED
  BY <1>3, <1>4

\* The ranks of the timestamps can only grow with the range.
LEMMA BeforeGrows ==
  ASSUME NEW U, U \subseteq Stamps, NEW T, T \subseteq U, NEW x, NEW sorting
  PROVE  /\ Cardinality(StampsBefore(T, x, sorting)) \in Nat
         /\ Cardinality(StampsBefore(U, x, sorting)) \in Nat
         /\ Cardinality(StampsBefore(T, x, sorting)) <= Cardinality(StampsBefore(U, x, sorting))
<1> DEFINE A == StampsBefore(T, x, sorting)
           B == StampsBefore(U, x, sorting)
<1>1. A \subseteq B /\ B \subseteq Stamps
  BY DEF StampsBefore
<1> HIDE DEF A, B
<1>2. IsFiniteSet(A) /\ IsFiniteSet(B)
  BY <1>1, StampsAre
<1>3. Cardinality(A) \in Nat /\ Cardinality(B) \in Nat /\ Cardinality(A) <= Cardinality(B)
  BY <1>1, <1>2, FS_Subset, FS_CardinalityType
<1>4. QED
  BY <1>3 DEF A, B

LEMMA InitEstablishes == Init => IInv
<1> SUFFICES ASSUME Init PROVE IInv
  OBVIOUS
<1>1. client = [state |-> "idle"] /\ client.state = "idle" /\ rows = {}
  BY DEF Init
<1>2. TypeOK
  BY <1>1 DEF TypeOK
<1>3. QED
  BY <1>1, <1>2
     DEF IInv, ClientShape, RestBehindOffset, PagesHideNothing, ReadsInOrder

LEMMA CommitStep ==
  ASSUME IInv, NEW k \in Keys, NEW p \in Prices, Commit(k, p)
  PROVE  IInv'
<1>1. RowsOK(rows) /\ ClientOK /\ client' = client
  BY TypeParts DEF IInv, Commit
<1>2. /\ RowsOK(rows')
      /\ \A r \in rows : \E s \in rows' : s.ticker = r.ticker /\ s.timestamp = r.timestamp
      /\ Cardinality(rows) <= Cardinality(rows')
  BY <1>1, CommitKeepsKeys
<1>3. /\ Cardinality(rows) \in Nat /\ Cardinality(rows') \in Nat
      /\ \A r \in rows : r.timestamp \in Nat
      /\ \A r \in rows' : r.timestamp \in Stamps
  BY <1>1, <1>2, RowsAre
<1>4. TypeOK'
  <2>1. ClientOK'
    BY <1>1 DEF ClientOK
  <2>2. QED
    BY <1>2, <2>1, TypeParts
<1>5. ClientShape' /\ PagesHideNothing'
  BY <1>1 DEF IInv, ClientShape, PagesHideNothing
<1>6. RestBehindOffset'
  <2> SUFFICES ASSUME client.state = "paging", NEW x \in client.first \ client.seen
               PROVE  /\ x \in StampsInRange'
                      /\ client.offset
                         <= Cardinality(StampsBefore(StampsInRange', x, client.sorting))
    BY <1>1 DEF RestBehindOffset, StampsBefore
  <2>1. PICK T : T = StampsInRange
    OBVIOUS
  <2>2. PICK U : U = StampsInRange'
    OBVIOUS
  <2>3. /\ T = {r.timestamp : r \in {s \in rows : /\ s.ticker = client.ticker
                                 /\ InRange(s, client.window[1], client.window[2])}}
        /\ U = {r.timestamp : r \in {s \in rows' : /\ s.ticker = client.ticker
                                 /\ InRange(s, client.window[1], client.window[2])}}
    BY <1>1, <2>1, <2>2 DEF StampsInRange, Found
  <2>4. U \subseteq Stamps
    BY <1>3, <2>3
  <2>5. T \subseteq U
    BY <1>2, <2>3 DEF InRange
  <2>6. x \in T /\ client.offset <= Cardinality(StampsBefore(T, x, client.sorting))
    BY <2>1 DEF IInv, RestBehindOffset
  <2>7. client.offset \in Int
    BY <1>1, ReadsAssumption, RowsAre DEF ClientOK
  <2>8. QED
    BY <2>2, <2>4, <2>5, <2>6, <2>7, BeforeGrows
<1>7. ReadsInOrder'
  <2> SUFFICES ASSUME client.state = "metrics"
               PROVE  ReadsInOrder'
    BY <1>1 DEF ReadsInOrder
  <2>1. TickersOf(rows) \subseteq TickersOf(rows')
    BY <1>2 DEF TickersOf
  <2>2. client.step = 2 => client.total <= Cardinality(rows')
    BY <1>2, <1>3 DEF IInv, ReadsInOrder
  <2>3. client.step = 4 =>
          \A t \in DOMAIN client.latest :
            \E r \in rows' : /\ r.ticker = t
                             /\ client.latest[t].timestamp <= r.timestamp
    BY <1>2 DEF IInv, ReadsInOrder
  <2>4. client.step >= 3 => DOMAIN client.counts \subseteq TickersOf(rows')
    BY <2>1 DEF IInv, ReadsInOrder
  <2>5. /\ client.step >= 2 => client.total \in Nat
        /\ client.step >= 3 => client.total <= Cardinality(CountedRows(client.counts))
        /\ client.step = 4 =>
             /\ DOMAIN client.counts \subseteq DOMAIN client.latest
             /\ \A t \in DOMAIN client.latest : client.latest[t].timestamp \in Stamps
    BY DEF IInv, ReadsInOrder
  <2>6. QED
    BY <1>1, <2>2, <2>3, <2>4, <2>5 DEF ReadsInOrder, CountedRows, TickersOf
<1>8. QED
  BY <1>4, <1>5, <1>6, <1>7 DEF IInv

\* What a page adds: the rows whose ranks it covers, or none are left.
LEMMA ReadPageStep ==
  ASSUME IInv, ReadPage
  PROVE  IInv'
<1> DEFINE F == Found(client.ticker, client.window[1], client.window[2])
           page == Page(Ordered(F, client.sorting), PageLimit, client.offset)
           stamps == {page[i].timestamp : i \in DOMAIN page}
<1>1. /\ RowsOK(rows) /\ ClientOK /\ rows' = rows /\ client.state = "paging"
      /\ client' = IF page = <<>>
                   THEN [client EXCEPT !.state = "end of pages"]
                   ELSE [client EXCEPT !.offset = @ + PageLimit, !.seen = @ \cup stamps]
  BY TypeParts DEF IInv, ReadPage, GetByTickerAndDateRange, Found
<1>2. F \in SUBSET rows /\ \A r \in F : r.ticker = client.ticker
  BY DEF Found
<1>3. StampsInRange = {s.timestamp : s \in F}
  BY DEF StampsInRange
<1>4. /\ Sortable(F) /\ Cardinality(F) <= Cardinality(rows)
      /\ Cardinality(rows) <= Cardinality(Keys)
      /\ Cardinality(rows) \in Nat /\ Cardinality(Keys) \in Nat
      /\ \A r \in F : r.timestamp \in Stamps
  BY <1>1, <1>2, TickerSortable, RowsAre
<1>5. PageLimit \in Nat \ {0} /\ client.offset \in Nat
  <2>1. PageLimit \in Nat \ {0}
    BY ReadsAssumption
  <2>2. client.offset \in 0 .. Cardinality(Keys) + PageLimit
    BY <1>1 DEF ClientOK
  <2>3. QED
    BY <1>4, <2>1, <2>2
<1> HIDE DEF F
<1>6. /\ page = <<>> => Cardinality(F) <= client.offset
      /\ page # <<>> => client.offset < Cardinality(F)
      /\ \A i \in DOMAIN page : page[i] \in F
      /\ \A r \in F :
           /\ client.offset <= Rank(F, r, client.sorting)
           /\ Rank(F, r, client.sorting) < client.offset + PageLimit
           => \E i \in DOMAIN page : page[i] = r
  BY <1>4, <1>5, PageIs
<1>7. ASSUME NEW x \in client.first \ client.seen
      PROVE  \E r \in F : /\ r.timestamp = x
                          /\ Rank(F, r, client.sorting) \in Nat
                          /\ client.offset <= Rank(F, r, client.sorting)
                          /\ Rank(F, r, client.sorting) < Cardinality(F)
                          /\ Rank(F, r, client.sorting)
                             = Cardinality(StampsBefore(StampsInRange, x, client.sorting))
  <2>1. /\ x \in StampsInRange
        /\ client.offset <= Cardinality(StampsBefore(StampsInRange, x, client.sorting))
    BY <1>1 DEF IInv, RestBehindOffset
  <2>2. PICK r \in F : r.timestamp = x
    BY <1>3, <2>1
  <2>3. Cardinality(StampsBefore(StampsInRange, x, client.sorting))
        = Rank(F, r, client.sorting)
    BY <1>3, <1>4, <2>2, RankOfStamp
  <2>4. Rank(F, r, client.sorting) \in Nat /\ Rank(F, r, client.sorting) < Cardinality(F)
    BY <1>4, RankBounds
  <2>5. QED
    BY <2>1, <2>2, <2>3, <2>4
<1> HIDE DEF page
<1>8. client = [state |-> "paging", ticker |-> client.ticker, window |-> client.window,
                sorting |-> client.sorting, offset |-> client.offset,
                seen |-> client.seen, first |-> client.first]
  BY <1>1 DEF IInv, ClientShape
<1>9. CASE page = <<>>
  <2>1. client' = [state |-> "end of pages", ticker |-> client.ticker,
                   window |-> client.window, sorting |-> client.sorting,
                   offset |-> client.offset, seen |-> client.seen, first |-> client.first]
    BY <1>1, <1>8, <1>9
  <2>2. client.first \subseteq client.seen
    <3> SUFFICES ASSUME NEW x \in client.first \ client.seen PROVE FALSE
      OBVIOUS
    <3>1. PICK r \in F : /\ Rank(F, r, client.sorting) \in Nat
                         /\ client.offset <= Rank(F, r, client.sorting)
                         /\ Rank(F, r, client.sorting) < Cardinality(F)
      BY <1>7
    <3>2. Cardinality(F) <= client.offset /\ Cardinality(F) \in Nat
      BY <1>4, <1>6, <1>9, FS_CardinalityType DEF Sortable
    <3>3. QED
      BY <1>5, <3>1, <3>2
  <2>3. TypeOK'
    <3>1. /\ client.ticker \in Tickers /\ client.sorting \in {"asc", "desc"}
          /\ client.offset \in 0 .. Cardinality(Keys) + PageLimit
          /\ client.seen \subseteq Stamps /\ client.first \subseteq Stamps
      BY <1>1 DEF ClientOK
    <3>2. ClientOK'
      BY <2>1, <3>1 DEF ClientOK
    <3>3. QED
      BY <1>1, <3>2, TypeParts
  <2>4. QED
    BY <2>1, <2>2, <2>3
       DEF IInv, ClientShape, RestBehindOffset, PagesHideNothing, ReadsInOrder
<1>10. CASE page # <<>>
  <2>1. client' = [state |-> "paging", ticker |-> client.ticker,
                   window |-> client.window, sorting |-> client.sorting,
                   offset |-> client.offset + PageLimit,
                   seen |-> client.seen \cup stamps, first |-> client.first]
    BY <1>1, <1>8, <1>10
  <2>2. stamps \subseteq Stamps
    BY <1>4, <1>6
  <2>3. client.offset + PageLimit \in 0 .. Cardinality(Keys) + PageLimit
    BY <1>4, <1>5, <1>6, <1>10, FS_CardinalityType DEF Sortable
  <2>4. TypeOK'
    <3>1. ClientOK'
      BY <1>1, <2>1, <2>2, <2>3 DEF ClientOK
    <3>2. QED
      BY <1>1, <3>1, TypeParts
  <2>5. StampsInRange' = StampsInRange
    BY <1>1, <2>1 DEF StampsInRange, Found
  <2>6. ASSUME NEW x \in client.first \ (client.seen \cup stamps)
        PROVE  /\ x \in StampsInRange
               /\ client.offset + PageLimit
                  <= Cardinality(StampsBefore(StampsInRange, x, client.sorting))
    <3>1. PICK r \in F : /\ r.timestamp = x
                         /\ Rank(F, r, client.sorting) \in Nat
                         /\ client.offset <= Rank(F, r, client.sorting)
                         /\ Rank(F, r, client.sorting)
                            = Cardinality(StampsBefore(StampsInRange, x, client.sorting))
      BY <1>7
    <3>2. ~ \E i \in DOMAIN page : page[i] = r
      BY <3>1
    <3>3. ~ (Rank(F, r, client.sorting) < client.offset + PageLimit)
      BY <1>6, <3>1, <3>2
    <3>4. QED
      BY <1>3, <1>5, <3>1, <3>3
  <2> HIDE DEF stamps
  <2>7. RestBehindOffset'
    BY <2>1, <2>5, <2>6 DEF RestBehindOffset, StampsBefore
  <2>8. QED
    BY <2>1, <2>4, <2>7 DEF IInv, ClientShape, PagesHideNothing, ReadsInOrder
<1>11. QED
  BY <1>9, <1>10

\* A snapshot reads the total, then the counts, then the latest prices.
LEMMA ReadMetricsStep ==
  ASSUME IInv, ReadMetrics
  PROVE  IInv'
<1>1. /\ RowsOK(rows) /\ ClientOK /\ rows' = rows
      /\ client.state = "metrics" /\ client.step \in 1 .. 3
  <2>1. RowsOK(rows) /\ ClientOK
    BY TypeParts DEF IInv
  <2>2. rows' = rows /\ client.state = "metrics" /\ client.step <= 3
    BY DEF ReadMetrics
  <2>3. client.step \in 1 .. 4
    BY <2>1, <2>2 DEF ClientOK
  <2>4. QED
    BY <2>1, <2>2, <2>3
<1>2. client = [state |-> "metrics", step |-> client.step, total |-> client.total,
                counts |-> client.counts, latest |-> client.latest]
  BY <1>1 DEF IInv, ClientShape
<1>3. Cardinality(rows) \in Nat
  BY <1>1, RowsAre
<1> DEFINE read == [client EXCEPT !.step = client.step + 1]
<1>4. client' = CASE Reads[client.step] = "total" ->
                       [read EXCEPT !.total = Cardinality(rows)]
                  [] Reads[client.step] = "counts" ->
                       [read EXCEPT !.counts = GetCountsByTicker(rows)]
                  [] Reads[client.step] = "latest" ->
                       [read EXCEPT !.latest = GetLatestPricesByTicker(rows)]
  BY DEF ReadMetrics, GetTotalPricesCount
<1>5. Reads[1] = "total" /\ Reads[2] = "counts" /\ Reads[3] = "latest"
  BY DEF Reads
<1>6. read = [state |-> "metrics", step |-> client.step + 1, total |-> client.total,
               counts |-> client.counts, latest |-> client.latest]
  BY <1>2
<1> HIDE DEF read
<1>7. CASE client.step = 1
  <2>1. client' = [state |-> "metrics", step |-> 2, total |-> Cardinality(rows),
                   counts |-> client.counts, latest |-> client.latest]
    <3>1. client' = [read EXCEPT !.total = Cardinality(rows)]
      BY <1>7, <1>4, <1>5
    <3>2. QED
      BY <1>7, <1>6, <3>1
  <2>2. TypeOK'
    <3>1. ClientOK'
      BY <2>1 DEF ClientOK
    <3>2. QED
      BY <1>1, <3>1, TypeParts
  <2>3. QED
    BY <1>1, <1>3, <2>1, <2>2
       DEF IInv, ClientShape, RestBehindOffset, PagesHideNothing, ReadsInOrder
<1>8. CASE client.step = 2
  <2>1. PICK counts : counts = GetCountsByTicker(rows)
    OBVIOUS
  <2>2. client' = [state |-> "metrics", step |-> 3, total |-> client.total,
                   counts |-> counts, latest |-> client.latest]
    <3>1. client' = [read EXCEPT !.counts = counts]
      BY <1>8, <1>4, <1>5, <2>1
    <3>2. QED
      BY <1>8, <1>6, <3>1
  <2>3. /\ DOMAIN counts = TickersOf(rows) /\ IsFiniteSet(CountedRows(counts))
        /\ Cardinality(rows) <= Cardinality(CountedRows(counts))
    BY <1>1, <2>1, CountsCover
  <2>4. Cardinality(CountedRows(counts)) \in Nat
    BY <2>3, FS_CardinalityType
  <2>5. client.total \in Nat /\ client.total <= Cardinality(rows)
    BY <1>1, <1>8 DEF IInv, ReadsInOrder
  <2>6. client.total <= Cardinality(CountedRows(counts))
    BY <1>3, <2>3, <2>4, <2>5
  <2>7. TypeOK'
    <3>1. ClientOK'
      BY <2>2 DEF ClientOK
    <3>2. QED
      BY <1>1, <3>1, TypeParts
  <2>8. ReadsInOrder'
    BY <1>1, <2>2, <2>3, <2>5, <2>6 DEF ReadsInOrder, CountedRows, TickersOf
  <2>9. QED
    BY <2>2, <2>7, <2>8 DEF IInv, ClientShape, RestBehindOffset, PagesHideNothing
<1>9. CASE client.step = 3
  <2>1. PICK latest : latest = GetLatestPricesByTicker(rows)
    OBVIOUS
  <2>2. client' = [state |-> "metrics", step |-> 4, total |-> client.total,
                   counts |-> client.counts, latest |-> latest]
    <3>1. client' = [read EXCEPT !.latest = latest]
      BY <1>9, <1>4, <1>5, <2>1
    <3>2. QED
      BY <1>9, <1>6, <3>1
  <2>3. /\ DOMAIN latest = TickersOf(rows)
        /\ \A t \in TickersOf(rows) : latest[t] \in rows /\ latest[t].ticker = t
    BY <1>1, <2>1, LatestPricesAre
  <2>4. \A r \in rows : r.timestamp \in Stamps /\ r.timestamp \in Nat
    BY <1>1, RowsAre
  <2>5. \A t \in DOMAIN latest :
          /\ latest[t].timestamp \in Stamps
          /\ \E r \in rows : r.ticker = t /\ latest[t].timestamp <= r.timestamp
    <3>1. ASSUME NEW t \in DOMAIN latest
          PROVE  /\ latest[t].timestamp \in Stamps
                 /\ \E r \in rows : r.ticker = t /\ latest[t].timestamp <= r.timestamp
      <4>1. PICK r \in rows : r = latest[t] /\ r.ticker = t
        BY <2>3
      <4>2. r.timestamp \in Stamps /\ r.timestamp <= r.timestamp
        BY <2>4
      <4>3. QED
        BY <4>1, <4>2
    <3>2. QED
      BY <3>1
  <2>6. /\ client.total \in Nat /\ client.total <= Cardinality(CountedRows(client.counts))
        /\ DOMAIN client.counts \subseteq TickersOf(rows)
    BY <1>1, <1>9 DEF IInv, ReadsInOrder
  <2>7. TypeOK'
    <3>1. ClientOK'
      BY <2>2 DEF ClientOK
    <3>2. QED
      BY <1>1, <3>1, TypeParts
  <2>8. ReadsInOrder'
    BY <1>1, <2>2, <2>3, <2>5, <2>6 DEF ReadsInOrder, CountedRows, TickersOf
  <2>9. QED
    BY <2>2, <2>7, <2>8 DEF IInv, ClientShape, RestBehindOffset, PagesHideNothing
<1>10. QED
  BY <1>1, <1>7, <1>8, <1>9

LEMMA StartPagingStep ==
  ASSUME IInv, NEW t \in Tickers, NEW w \in Windows, NEW s \in {"asc", "desc"},
         StartPaging(t, w, s)
  PROVE  IInv'
<1>1. RowsOK(rows) /\ rows' = rows
  BY TypeParts DEF IInv, StartPaging
<1>2. PICK stamps : stamps = {r.timestamp : r \in Found(t, w[1], w[2])}
  OBVIOUS
<1>3. client' = [state |-> "paging", ticker |-> t, window |-> w, sorting |-> s,
                 offset |-> 0, seen |-> {}, first |-> stamps]
  BY <1>2 DEF StartPaging
<1>4. stamps \subseteq Stamps /\ Cardinality(Keys) \in Nat
  BY <1>1, <1>2, RowsAre DEF Found
<1>5. StampsInRange' = stamps
  BY <1>1, <1>2, <1>3 DEF StampsInRange, Found
<1>6. TypeOK'
  <2>1. PageLimit \in Nat /\ 0 \in 0 .. Cardinality(Keys) + PageLimit
    BY <1>4, ReadsAssumption
  <2>2. ClientOK'
    BY <1>3, <1>4, <2>1 DEF ClientOK
  <2>3. QED
    BY <1>1, <2>2, TypeParts
<1>7. RestBehindOffset'
  <2>1. \A x : Cardinality(StampsBefore(stamps, x, s)) \in Nat
    BY <1>4, BeforeGrows
  <2>2. \A x : 0 <= Cardinality(StampsBefore(stamps, x, s))
    BY <2>1
  <2>3. QED
    BY <1>3, <1>5, <2>2 DEF RestBehindOffset, StampsBefore
<1>8. QED
  BY <1>3, <1>6, <1>7 DEF IInv, ClientShape, PagesHideNothing, ReadsInOrder

LEMMA Inductive ==
  ASSUME IInv, [Next]_vars
  PROVE  IInv'
<1>1. ASSUME NEW k \in Keys, NEW p \in Prices, Commit(k, p)
      PROVE  IInv'
  BY <1>1, CommitStep
<1>2. ASSUME NEW t \in Tickers, NEW w \in Windows, NEW s \in {"asc", "desc"},
             StartPaging(t, w, s)
      PROVE  IInv'
  BY <1>2, StartPagingStep
<1>3. CASE ReadPage
  BY <1>3, ReadPageStep
<1>4. CASE AskMetrics
  <2>1. /\ RowsOK(rows) /\ rows' = rows
        /\ client' = [state |-> "metrics", step |-> 1, total |-> 0,
                      counts |-> <<>>, latest |-> <<>>]
    BY <1>4, TypeParts DEF IInv, AskMetrics
  <2>2. ClientOK'
    BY <2>1 DEF ClientOK
  <2>3. TypeOK'
    BY <2>1, <2>2, TypeParts
  <2>4. ClientShape'
    BY <2>1 DEF ClientShape
  <2>5. ReadsInOrder'
    BY <2>1 DEF ReadsInOrder
  <2>6. QED
    BY <2>1, <2>3, <2>4, <2>5 DEF IInv, RestBehindOffset, PagesHideNothing
<1>5. CASE ReadMetrics
  BY <1>5, ReadMetricsStep
<1>6. ASSUME NEW t \in Tickers, NEW from \in Stamps, NEW to \in Stamps,
             AskAnalytics(t, from, to)
      PROVE  IInv'
  <2>1. /\ RowsOK(rows) /\ rows' = rows
        /\ client' = [state |-> "analytics", ticker |-> t, from |-> from, to |-> to]
    BY <1>6, TypeParts DEF IInv, AskAnalytics
  <2>2. ClientOK'
    BY <2>1 DEF ClientOK
  <2>3. QED
    BY <2>1, <2>2, TypeParts
       DEF IInv, ClientShape, RestBehindOffset, PagesHideNothing, ReadsInOrder
<1>7. CASE Answered
  <2>1. RowsOK(rows) /\ rows' = rows /\ client' = [state |-> "idle"]
    BY <1>7, TypeParts DEF IInv, Answered
  <2>2. ClientOK'
    BY <2>1 DEF ClientOK
  <2>3. QED
    BY <2>1, <2>2, TypeParts
       DEF IInv, ClientShape, RestBehindOffset, PagesHideNothing, ReadsInOrder
<1>8. CASE UNCHANGED vars
  <2>1. rows' = rows /\ client' = client
    BY <1>8 DEF vars
  <2>2. TypeOK'
    BY <2>1, TypeParts DEF IInv, ClientOK
  <2>3. ClientShape' /\ PagesHideNothing'
    BY <2>1 DEF IInv, ClientShape, PagesHideNothing
  <2>4. StampsInRange' = StampsInRange
    BY <2>1 DEF StampsInRange, Found
  <2>5. RestBehindOffset'
    BY <2>1, <2>4 DEF IInv, RestBehindOffset, StampsBefore
  <2>6. ReadsInOrder'
    BY <2>1 DEF IInv, ReadsInOrder, CountedRows, TickersOf
  <2>7. QED
    BY <2>2, <2>3, <2>5, <2>6 DEF IInv
<1>9. QED
  BY <1>1, <1>2, <1>3, <1>4, <1>5, <1>6, <1>7, <1>8 DEF Next

\* A snapshot that has been read is behind the table.
LEMMA SnapshotBehind == IInv => MetricsNeverAhead
<1> SUFFICES ASSUME IInv, client.state = "metrics", client.step = 4
             PROVE  MetricsNeverAhead
  BY DEF MetricsNeverAhead
<1>1. RowsOK(rows)
  BY TypeParts DEF IInv
<1>2. /\ client.total <= Cardinality(CountedRows(client.counts))
      /\ DOMAIN client.counts \subseteq DOMAIN client.latest
      /\ \A t \in DOMAIN client.latest :
           /\ client.latest[t].timestamp \in Stamps
           /\ \E r \in rows : r.ticker = t /\ client.latest[t].timestamp <= r.timestamp
  BY DEF IInv, ReadsInOrder
<1>3. ASSUME NEW t \in DOMAIN client.latest
      PROVE  /\ GetLatestByTicker(rows, t) # NoPrice
             /\ GetLatestByTicker(rows, t).timestamp >= client.latest[t].timestamp
  <2>1. PICK r \in rows : r.ticker = t /\ client.latest[t].timestamp <= r.timestamp
    BY <1>2
  <2>2. /\ GetLatestByTicker(rows, t) # NoPrice
        /\ GetLatestByTicker(rows, t).timestamp \in Nat
        /\ r.timestamp <= GetLatestByTicker(rows, t).timestamp
    BY <1>1, <2>1, LatestIs
  <2>3. r.timestamp \in Nat /\ client.latest[t].timestamp \in Nat
    BY <1>1, <1>2, RowsAre, StampsAre
  <2>4. QED
    BY <2>1, <2>2, <2>3
<1>4. QED
  BY <1>2, <1>3 DEF MetricsNeverAhead

LEMMA IInvHolds == Spec => []IInv
<1>1. Init => IInv
  BY InitEstablishes
<1>2. IInv /\ [Next]_vars => IInv'
  BY Inductive
<1>3. QED
  BY <1>1, <1>2, PTL DEF Spec

-----------------------------------------------------------------------------
\* Lemmas on candles.

LEMMA FloorIs ==
  ASSUME NEW x \in Nat, NEW n \in Nat \ {0}, NEW cut \in Nat, cut % n = 0
  PROVE  /\ (x \div n) * n \in Nat
         /\ x < cut => (x \div n) * n < cut
         /\ cut <= x => cut <= (x \div n) * n
<1>1. PICK q \in Nat : q = x \div n
  OBVIOUS
<1>2. PICK c \in Nat : c = cut \div n
  OBVIOUS
<1>3. q * n \in Nat /\ q * n <= x /\ x < q * n + n
  BY <1>1
<1>4. cut = c * n
  BY <1>2
<1>5. cut <= x => cut <= q * n
  <2>1. q < c => q * n + n <= c * n
    <3>1. \A d \in Nat \ {0} : (q + d) * n >= q * n + n
      OBVIOUS
    <3>2. q < c => c - q \in Nat \ {0} /\ q + (c - q) = c
      OBVIOUS
    <3>3. QED
      BY <3>1, <3>2
  <2>2. c <= q => c * n <= q * n
    <3>1. \A d \in Nat : (c + d) * n >= c * n
      OBVIOUS
    <3>2. c <= q => q - c \in Nat /\ c + (q - c) = q
      OBVIOUS
    <3>3. QED
      BY <3>1, <3>2
  <2>3. q < c \/ c <= q
    OBVIOUS
  <2>4. c * n \in Nat
    BY <1>4
  <2>5. QED
    BY <1>3, <1>4, <2>1, <2>2, <2>3, <2>4
<1>6. QED
  BY <1>1, <1>3, <1>5

LEMMA ConcatIs ==
  ASSUME NEW T, NEW u \in Seq(T), NEW v \in Seq(T), NEW w \in Seq(T),
         Len(w) = Len(u) + Len(v), \A i \in 1 .. Len(u) : w[i] = u[i],
         \A i \in 1 .. Len(v) : w[Len(u) + i] = v[i]
  PROVE  w = u \o v
<1> DEFINE m == Len(u)
           n == Len(v)
<1>1. m \in Nat /\ n \in Nat
  OBVIOUS
<1>2. /\ u \o v \in Seq(T) /\ Len(u \o v) = m + n
      /\ \A i \in 1 .. m + n : (u \o v)[i] = IF i <= m THEN u[i] ELSE v[i - m]
  BY ConcatProperties
<1>3. ASSUME NEW i \in 1 .. m + n
      PROVE  w[i] = (u \o v)[i]
  <2>1. CASE i <= m
    BY <1>1, <1>2, <2>1
  <2>2. CASE ~(i <= m)
    <3>1. i - m \in 1 .. n /\ m + (i - m) = i
      BY <1>1, <2>2
    <3>2. w[m + (i - m)] = v[i - m]
      BY <3>1
    <3>3. QED
      BY <1>2, <2>2, <3>1, <3>2
  <2>3. QED
    BY <2>1, <2>2
<1>4. QED
  BY <1>2, <1>3, SeqEqual

LEMMA DisjointSum ==
  ASSUME NEW A, IsFiniteSet(A), NEW B, IsFiniteSet(B), A \cap B = {}
  PROVE  /\ Cardinality(A \cup B) = Cardinality(A) + Cardinality(B)
         /\ Cardinality(A) \in Nat /\ Cardinality(B) \in Nat
<1>1. Cardinality(A \cup B) = Cardinality(A) + Cardinality(B) - Cardinality(A \cap B)
  BY FS_Union
<1>2. Cardinality(A \cap B) = 0
  BY FS_EmptySet
<1>3. Cardinality(A) \in Nat /\ Cardinality(B) \in Nat
  BY FS_CardinalityType
<1>4. QED
  BY <1>1, <1>2, <1>3

\* A page that the limit does not cut holds all rows.
LEMMA WholePage ==
  ASSUME NEW S, Sortable(S), NEW sorting, NEW limit \in Nat \ {0}, Cardinality(S) <= limit
  PROVE  Range(Page(Ordered(S, sorting), limit, 0)) = S
<1> DEFINE page == Page(Ordered(S, sorting), limit, 0)
<1>1. /\ \A i \in DOMAIN page : page[i] \in S
      /\ \A r \in S : 0 <= Rank(S, r, sorting) /\ Rank(S, r, sorting) < 0 + limit =>
           \E i \in DOMAIN page : page[i] = r
  BY PageIs
<1> HIDE DEF page
<1>2. \A r \in S : 0 <= Rank(S, r, sorting) /\ Rank(S, r, sorting) < 0 + limit
  <2> SUFFICES ASSUME NEW r \in S
               PROVE  0 <= Rank(S, r, sorting) /\ Rank(S, r, sorting) < 0 + limit
    OBVIOUS
  <2>1. /\ Rank(S, r, sorting) \in Nat /\ Cardinality(S) \in Nat
        /\ Rank(S, r, sorting) < Cardinality(S)
    BY RankBounds
  <2>2. QED
    BY <2>1
<1>3. Range(page) = S
  BY <1>1, <1>2 DEF Range
<1>4. QED
  BY <1>3 DEF page

\* The order of older and younger rows is that of the older, then the younger.
LEMMA OrderedSplits ==
  ASSUME NEW S1, NEW S2, Sortable(S1 \cup S2),
         \A r \in S1, s \in S2 : r.timestamp < s.timestamp
  PROVE  /\ Sortable(S1) /\ Sortable(S2)
         /\ Ordered(S1 \cup S2, "asc") = Ordered(S1, "asc") \o Ordered(S2, "asc")
<1> DEFINE S == S1 \cup S2
           q == Ordered(S, "asc")
           q1 == Ordered(S1, "asc")
           q2 == Ordered(S2, "asc")
           m == Cardinality(S1)
           n == Cardinality(S2)
<1>1. IsFiniteSet(S1) /\ IsFiniteSet(S2)
  BY FS_Subset DEF Sortable
<1>2. Sortable(S1) /\ Sortable(S2)
  BY <1>1 DEF Sortable
<1>3. S1 \cap S2 = {}
  BY DEF Sortable
<1>4. Cardinality(S) = m + n /\ m \in Nat /\ n \in Nat
  BY <1>1, <1>3, DisjointSum
<1>5. ASSUME NEW r \in S1
      PROVE  Rank(S, r, "asc") = Rank(S1, r, "asc")
  <2>1. {s \in S : Before(s, r, "asc")} = {s \in S1 : Before(s, r, "asc")}
    BY DEF Before, Sortable
  <2>2. QED
    BY <2>1 DEF Rank
<1>6. ASSUME NEW r \in S2
      PROVE  Rank(S, r, "asc") = m + Rank(S2, r, "asc")
  <2> DEFINE B == {s \in S2 : Before(s, r, "asc")}
  <2>1. {s \in S : Before(s, r, "asc")} = S1 \cup B
    BY DEF Before
  <2>2. S1 \cap B = {} /\ IsFiniteSet(B)
    BY <1>1, <1>3, FS_Subset
  <2>3. Cardinality(S1 \cup B) = m + Cardinality(B)
    BY <1>1, <2>2, DisjointSum
  <2>4. QED
    BY <2>1, <2>3 DEF Rank
<1>7. /\ q \in Seq(S) /\ Len(q) = m + n
      /\ \A r \in S : q[Rank(S, r, "asc") + 1] = r
  BY <1>4, OrderedIs
<1>8. /\ q1 \in Seq(S1) /\ Len(q1) = m
      /\ \A i \in 1 .. m : Rank(S1, q1[i], "asc") = i - 1
  BY <1>2, OrderedIs
<1>9. /\ q2 \in Seq(S2) /\ Len(q2) = n
      /\ \A i \in 1 .. n : Rank(S2, q2[i], "asc") = i - 1
  BY <1>2, OrderedIs
<1> HIDE DEF q, q1, q2, m, n
<1>10. \A i \in 1 .. m : q[i] = q1[i]
  <2> SUFFICES ASSUME NEW i \in 1 .. m PROVE q[i] = q1[i]
    OBVIOUS
  <2>1. q1[i] \in S1
    BY <1>8
  <2>2. Rank(S, q1[i], "asc") = i - 1 /\ q1[i] \in S
    BY <1>5, <1>8, <2>1
  <2>3. (i - 1) + 1 = i
    BY <1>4
  <2>4. QED
    BY <1>7, <2>2, <2>3
<1>11. \A i \in 1 .. n : q[m + i] = q2[i]
  <2> SUFFICES ASSUME NEW i \in 1 .. n PROVE q[m + i] = q2[i]
    OBVIOUS
  <2>1. q2[i] \in S2
    BY <1>9
  <2>2. Rank(S, q2[i], "asc") = m + (i - 1) /\ q2[i] \in S
    BY <1>6, <1>9, <2>1
  <2>3. (m + (i - 1)) + 1 = m + i
    BY <1>4
  <2>4. QED
    BY <1>7, <2>2, <2>3
<1>12. q1 \in Seq(S) /\ q2 \in Seq(S)
  BY <1>8, <1>9
<1> HIDE DEF S
<1>13. q = q1 \o q2
  BY <1>7, <1>8, <1>9, <1>10, <1>11, <1>12, ConcatIs
<1>14. QED
  BY <1>2, <1>13 DEF q, q1, q2, S

\* The starts of the buckets that rows fall into, as CandlesOf sorts them.
StartRows(F, n) == {[timestamp |-> BucketStart(r, n)] : r \in F}

LEMMA StartRowsSortable ==
  ASSUME NEW F, IsFiniteSet(F), \A r \in F : r.timestamp \in Nat, NEW n \in Nat \ {0}
  PROVE  Sortable(StartRows(F, n))
<1> DEFINE f == [r \in F |-> [timestamp |-> BucketStart(r, n)]]
<1>1. f \in Surjection(F, StartRows(F, n))
  BY DEF Surjection, StartRows
<1>2. IsFiniteSet(StartRows(F, n))
  BY <1>1, FS_Surjection
<1>3. \A x \in StartRows(F, n) : x.timestamp \in Int /\ x = [timestamp |-> x.timestamp]
  BY DEF StartRows, BucketStart
<1>4. QED
  BY <1>2, <1>3 DEF Sortable

\* What CandlesOf returns, with its local definitions expanded.
LEMMA CandlesAre ==
  ASSUME NEW F, IsFiniteSet(F), \A r \in F : r.timestamp \in Nat, NEW n \in Nat \ {0}
  PROVE  LET starts == Ordered(StartRows(F, n), "asc")
         IN  /\ starts \in [1 .. Cardinality(StartRows(F, n)) -> StartRows(F, n)]
             /\ Cardinality(StartRows(F, n)) \in Nat
             /\ CandlesOf(F, n) =
                  [i \in 1 .. Cardinality(StartRows(F, n)) |->
                     Candle(Ordered({r \in F : BucketStart(r, n) = starts[i].timestamp},
                                    "asc"), n)]
<1> DEFINE S == StartRows(F, n)
           starts == Ordered(S, "asc")
<1>1. starts \in Seq(S) /\ Len(starts) = Cardinality(S) /\ Cardinality(S) \in Nat
  BY StartRowsSortable, OrderedIs
<1>2. CandlesOf(F, n) =
        [i \in DOMAIN starts |->
           Candle(Ordered({r \in F : BucketStart(r, n) = starts[i].timestamp}, "asc"), n)]
  BY DEF CandlesOf, StartRows
<1> HIDE DEF S, starts
<1>3. DOMAIN starts = 1 .. Cardinality(S) /\ starts \in [1 .. Cardinality(S) -> S]
  BY <1>1
<1>4. QED
  BY <1>1, <1>2, <1>3 DEF S, starts

\* The rows F are those of F1, before the start of a bucket, and those of F2, after.
Divides(F, F1, F2, cut, n) ==
  /\ F = F1 \cup F2
  /\ IsFiniteSet(F1) /\ IsFiniteSet(F2)
  /\ cut \in Nat /\ n \in Nat \ {0} /\ cut % n = 0
  /\ \A r \in F1 : r.timestamp \in Nat /\ r.timestamp < cut
  /\ \A r \in F2 : r.timestamp \in Nat /\ cut <= r.timestamp

LEMMA BucketsDivided ==
  ASSUME NEW F, NEW F1, NEW F2, NEW cut, NEW n, Divides(F, F1, F2, cut, n)
  PROVE  /\ \A r \in F1 : BucketStart(r, n) \in Nat /\ BucketStart(r, n) < cut
         /\ \A r \in F2 : BucketStart(r, n) \in Nat /\ cut <= BucketStart(r, n)
<1>1. ASSUME NEW r \in F1
      PROVE  BucketStart(r, n) \in Nat /\ BucketStart(r, n) < cut
  BY FloorIs DEF BucketStart, Divides
<1>2. ASSUME NEW r \in F2
      PROVE  BucketStart(r, n) \in Nat /\ cut <= BucketStart(r, n)
  BY FloorIs DEF BucketStart, Divides
<1>3. QED
  BY <1>1, <1>2

\* Rows on both sides of a multiple of the interval share no candle.
LEMMA CandlesOfParts ==
  ASSUME NEW F, NEW F1, NEW F2, NEW cut, NEW n, Divides(F, F1, F2, cut, n)
  PROVE  CandlesOf(F, n) = CandlesOf(F1, n) \o CandlesOf(F2, n)
<1> DEFINE S == StartRows(F, n)
           S1 == StartRows(F1, n)
           S2 == StartRows(F2, n)
           q == Ordered(S, "asc")
           q1 == Ordered(S1, "asc")
           q2 == Ordered(S2, "asc")
           Bucket(G, start) == {r \in G : BucketStart(r, n) = start}
           CandleOf(G, start) == Candle(Ordered(Bucket(G, start), "asc"), n)
           m1 == Cardinality(S1)
           m2 == Cardinality(S2)
<1>0. /\ F = F1 \cup F2 /\ IsFiniteSet(F1) /\ IsFiniteSet(F2)
      /\ n \in Nat \ {0} /\ cut \in Nat
      /\ \A r \in F1 : r.timestamp \in Nat
      /\ \A r \in F2 : r.timestamp \in Nat
  BY DEF Divides
<1>1. /\ \A r \in F1 : BucketStart(r, n) \in Nat /\ BucketStart(r, n) < cut
      /\ \A r \in F2 : BucketStart(r, n) \in Nat /\ cut <= BucketStart(r, n)
  BY BucketsDivided
<1>2. S = S1 \cup S2
  BY <1>0 DEF StartRows
<1>3. /\ \A x \in S1 : x.timestamp \in Nat /\ x.timestamp < cut
      /\ \A x \in S2 : x.timestamp \in Nat /\ cut <= x.timestamp
  BY <1>1 DEF StartRows
<1>4. IsFiniteSet(F) /\ \A r \in F : r.timestamp \in Nat
  BY <1>0, FS_Union
<1>5. Sortable(S)
  BY <1>0, <1>4, StartRowsSortable
<1>6. Sortable(S1) /\ Sortable(S2) /\ q = q1 \o q2
  <2>1. \A x \in S1, y \in S2 : x.timestamp < y.timestamp
    BY <1>0, <1>3
  <2>2. Sortable(S1 \cup S2)
    BY <1>2, <1>5
  <2> HIDE DEF S1, S2, S
  <2>3. QED
    BY <1>2, <2>1, <2>2, OrderedSplits
<1>7. Cardinality(S) = m1 + m2 /\ m1 \in Nat /\ m2 \in Nat
  <2>1. S1 \cap S2 = {}
    BY <1>0, <1>3
  <2> HIDE DEF S1, S2, S
  <2>2. QED
    BY <1>2, <1>6, <2>1, DisjointSum DEF Sortable
<1>8. /\ q1 \in [1 .. m1 -> S1]
      /\ CandlesOf(F1, n) = [i \in 1 .. m1 |-> CandleOf(F1, q1[i].timestamp)]
  BY <1>0, CandlesAre
<1>9. /\ q2 \in [1 .. m2 -> S2]
      /\ CandlesOf(F2, n) = [i \in 1 .. m2 |-> CandleOf(F2, q2[i].timestamp)]
  BY <1>0, CandlesAre
<1>10. CandlesOf(F, n) = [i \in 1 .. Cardinality(S) |-> CandleOf(F, q[i].timestamp)]
  <2>1. PICK G : G = F
    OBVIOUS
  <2>2. IsFiniteSet(G) /\ \A r \in G : r.timestamp \in Nat
    BY <1>4, <2>1
  <2>3. CandlesOf(G, n) =
          [i \in 1 .. Cardinality(StartRows(G, n)) |->
             Candle(Ordered({r \in G : BucketStart(r, n)
                                        = Ordered(StartRows(G, n), "asc")[i].timestamp},
                            "asc"), n)]
    BY <1>0, <2>2, CandlesAre
  <2>4. QED
    BY <2>1, <2>3
<1> HIDE DEF S, S1, S2, q, q1, q2, m1, m2
<1>11. \A start \in Nat : start < cut => Bucket(F, start) = Bucket(F1, start)
  BY <1>0, <1>1
<1>12. \A start \in Nat : cut <= start => Bucket(F, start) = Bucket(F2, start)
  BY <1>0, <1>1
<1>13. /\ \A i \in 1 .. m1 : q[i] = q1[i]
       /\ \A i \in 1 .. m2 : q[m1 + i] = q2[i]
  <2>1. q1 \in Seq(S) /\ Len(q1) = m1 /\ q2 \in Seq(S) /\ Len(q2) = m2
    BY <1>2, <1>7, <1>8, <1>9
  <2>2. \A i \in 1 .. m1 + m2 : q[i] = IF i <= m1 THEN q1[i] ELSE q2[i - m1]
    BY <1>6, <2>1, ConcatProperties
  <2>3. \A i \in 1 .. m2 : m1 + i \in 1 .. m1 + m2 /\ ~(m1 + i <= m1) /\ (m1 + i) - m1 = i
    BY <1>7
  <2>4. \A i \in 1 .. m1 : i \in 1 .. m1 + m2 /\ i <= m1
    BY <1>7
  <2>5. \A i \in 1 .. m2 : q[m1 + i] = q2[i]
    BY <2>2, <2>3
  <2>6. \A i \in 1 .. m1 : q[i] = q1[i]
    BY <2>2, <2>4
  <2>7. QED
    BY <2>5, <2>6
<1>14. \A i \in 1 .. m1 : CandleOf(F, q[i].timestamp) = CandleOf(F1, q1[i].timestamp)
  <2> SUFFICES ASSUME NEW i \in 1 .. m1
               PROVE  CandleOf(F, q[i].timestamp) = CandleOf(F1, q1[i].timestamp)
    OBVIOUS
  <2>1. q[i] = q1[i] /\ q1[i].timestamp \in Nat /\ q1[i].timestamp < cut
    BY <1>3, <1>8, <1>13
  <2>2. Bucket(F, q1[i].timestamp) = Bucket(F1, q1[i].timestamp)
    BY <1>11, <2>1
  <2>3. QED
    BY <2>1, <2>2
<1>15. \A i \in 1 .. m2 : CandleOf(F, q[m1 + i].timestamp) = CandleOf(F2, q2[i].timestamp)
  <2> SUFFICES ASSUME NEW i \in 1 .. m2
               PROVE  CandleOf(F, q[m1 + i].timestamp) = CandleOf(F2, q2[i].timestamp)
    OBVIOUS
  <2>1. q[m1 + i] = q2[i] /\ q2[i].timestamp \in Nat /\ cut <= q2[i].timestamp
    BY <1>3, <1>9, <1>13
  <2>2. Bucket(F, q2[i].timestamp) = Bucket(F2, q2[i].timestamp)
    BY <1>12, <2>1
  <2>3. QED
    BY <2>1, <2>2
<1> DEFINE u == CandlesOf(F1, n)
           v == CandlesOf(F2, n)
           w == CandlesOf(F, n)
           T == {w[i] : i \in 1 .. m1 + m2}
<1>16. /\ w = [i \in 1 .. m1 + m2 |-> w[i]]
       /\ u = [i \in 1 .. m1 |-> u[i]] /\ v = [i \in 1 .. m2 |-> v[i]]
       /\ \A i \in 1 .. m1 : w[i] = u[i]
       /\ \A i \in 1 .. m2 : w[m1 + i] = v[i]
  <2>1. \A i \in 1 .. m1 : i \in 1 .. m1 + m2
    BY <1>7
  <2>2. \A i \in 1 .. m2 : m1 + i \in 1 .. m1 + m2
    BY <1>7
  <2> HIDE DEF CandleOf
  <2>3. /\ w = [i \in 1 .. m1 + m2 |-> CandleOf(F, q[i].timestamp)]
        /\ u = [i \in 1 .. m1 |-> CandleOf(F1, q1[i].timestamp)]
        /\ v = [i \in 1 .. m2 |-> CandleOf(F2, q2[i].timestamp)]
    BY <1>7, <1>8, <1>9, <1>10
  <2> HIDE DEF u, v, w
  <2>4. \A i \in 1 .. m1 : w[i] = u[i]
    BY <1>14, <2>1, <2>3
  <2>5. \A i \in 1 .. m2 : w[m1 + i] = v[i]
    BY <1>15, <2>2, <2>3
  <2>6. QED
    BY <2>3, <2>4, <2>5
<1> HIDE DEF u, v, w
<1>17. w \in [1 .. m1 + m2 -> T] /\ u \in [1 .. m1 -> T] /\ v \in [1 .. m2 -> T]
  <2>1. \A i \in 1 .. m1 + m2 : w[i] \in T
    OBVIOUS
  <2>2. \A i \in 1 .. m1 : u[i] \in T
    <3>1. \A i \in 1 .. m1 : i \in 1 .. m1 + m2
      BY <1>7
    <3>2. QED
      BY <1>16, <2>1, <3>1
  <2>3. \A i \in 1 .. m2 : v[i] \in T
    <3>1. \A i \in 1 .. m2 : m1 + i \in 1 .. m1 + m2
      BY <1>7
    <3>2. QED
      BY <1>16, <2>1, <3>1
  <2> HIDE DEF T
  <2>4. QED
    BY <1>16, <2>1, <2>2, <2>3
<1> HIDE DEF T
<1>18. w = u \o v
  <2>1. /\ w \in Seq(T) /\ Len(w) = m1 + m2 /\ u \in Seq(T) /\ Len(u) = m1
        /\ v \in Seq(T) /\ Len(v) = m2
    BY <1>7, <1>17
  <2>2. /\ \A i \in 1 .. Len(u) : w[i] = u[i]
        /\ \A i \in 1 .. Len(v) : w[Len(u) + i] = v[i]
    BY <1>16, <2>1
  <2>3. Len(w) = Len(u) + Len(v)
    BY <2>1
  <2>4. QED
    BY <2>1, <2>2, <2>3, ConcatIs
<1>19. QED
  BY <1>18 DEF u, v, w

-----------------------------------------------------------------------------
\* Lemmas on the candles of a range.

\* A client that waits for analytics asked for a range between two timestamps.
RangeAsked ==
  client.state = "analytics" => client.from \in Stamps /\ client.to \in Stamps

LEMMA ReadMetricsKeepsState ==
  ASSUME TypeOK, ClientShape, ReadMetrics
  PROVE  client'.state = "metrics"
<1> DEFINE read == [client EXCEPT !.step = client.step + 1]
<1>1. client.state = "metrics" /\ client.step \in 1 .. 3
  <2>1. client.state = "metrics" /\ client.step <= 3
    BY DEF ReadMetrics
  <2>2. client.step \in 1 .. 4
    BY <2>1 DEF TypeOK
  <2>3. QED
    BY <2>1, <2>2
<1>2. client = [state |-> "metrics", step |-> client.step, total |-> client.total,
                counts |-> client.counts, latest |-> client.latest]
  BY <1>1 DEF ClientShape
<1>3. client' = CASE Reads[client.step] = "total" ->
                       [read EXCEPT !.total = GetTotalPricesCount(rows)]
                  [] Reads[client.step] = "counts" ->
                       [read EXCEPT !.counts = GetCountsByTicker(rows)]
                  [] Reads[client.step] = "latest" ->
                       [read EXCEPT !.latest = GetLatestPricesByTicker(rows)]
  BY DEF ReadMetrics
<1>4. Reads[client.step] \in {"total", "counts", "latest"}
  BY <1>1 DEF Reads
<1>5. read = [state |-> "metrics", step |-> client.step + 1, total |-> client.total,
              counts |-> client.counts, latest |-> client.latest]
  BY <1>2
<1> HIDE DEF read
<1>6. QED
  BY <1>3, <1>4, <1>5

LEMMA RangeAskedHolds == Spec => []RangeAsked
<1>1. Init => RangeAsked
  BY DEF Init, RangeAsked
<1>2. IInv /\ RangeAsked /\ [Next]_vars => RangeAsked'
  <2> SUFFICES ASSUME IInv, RangeAsked, [Next]_vars PROVE RangeAsked'
    OBVIOUS
  <2>1. ASSUME NEW k \in Keys, NEW p \in Prices, Commit(k, p)
        PROVE  RangeAsked'
    BY <2>1 DEF Commit, RangeAsked
  <2>2. ASSUME NEW t \in Tickers, NEW w \in Windows, NEW s \in {"asc", "desc"},
               StartPaging(t, w, s)
        PROVE  RangeAsked'
    BY <2>2 DEF StartPaging, RangeAsked
  <2>3. CASE ReadPage
    <3>1. client.state = "paging"
      BY <2>3 DEF ReadPage
    <3>2. client = [state |-> "paging", ticker |-> client.ticker,
                    window |-> client.window, sorting |-> client.sorting,
                    offset |-> client.offset, seen |-> client.seen,
                    first |-> client.first]
      BY <3>1 DEF IInv, ClientShape
    <3>3. \/ client' = [client EXCEPT !.state = "end of pages"]
          \/ \E offset, seen : client' = [client EXCEPT !.offset = offset, !.seen = seen]
      BY <2>3 DEF ReadPage
    <3>4. client'.state \in {"paging", "end of pages"}
      <4>1. ASSUME client' = [client EXCEPT !.state = "end of pages"]
            PROVE  client'.state = "end of pages"
        BY <3>2, <4>1
      <4>2. ASSUME NEW offset, NEW seen,
                   client' = [client EXCEPT !.offset = offset, !.seen = seen]
            PROVE  client'.state = "paging"
        BY <3>2, <4>2
      <4>3. QED
        BY <3>3, <4>1, <4>2
    <3>5. QED
      BY <3>4 DEF RangeAsked
  <2>4. CASE AskMetrics
    BY <2>4 DEF AskMetrics, RangeAsked
  <2>5. CASE ReadMetrics
    <3>1. client'.state = "metrics"
      BY <2>5, ReadMetricsKeepsState DEF IInv
    <3>2. QED
      BY <3>1 DEF RangeAsked
  <2>6. ASSUME NEW t \in Tickers, NEW from \in Stamps, NEW to \in Stamps,
               AskAnalytics(t, from, to)
        PROVE  RangeAsked'
    BY <2>6 DEF AskAnalytics, RangeAsked
  <2>7. CASE Answered
    BY <2>7 DEF Answered, RangeAsked
  <2>8. CASE UNCHANGED vars
    BY <2>8 DEF vars, RangeAsked
  <2>9. QED
    BY <2>1, <2>2, <2>3, <2>4, <2>5, <2>6, <2>7, <2>8 DEF Next
<1>3. QED
  BY <1>1, <1>2, IInvHolds, PTL DEF Spec

\* A range that the query limit does not cut becomes the candles of its rows.
LEMMA CandlesOfRange ==
  ASSUME RowsOK(rows), NEW ticker, NEW from, NEW to, NEW n,
         Cardinality(Found(ticker, from, to)) <= QueryLimit
  PROVE  GetCandles(rows, ticker, n, from, to) = CandlesOf(Found(ticker, from, to), n)
<1> DEFINE F == Found(ticker, from, to)
<1>1. Sortable(F)
  BY TickerSortable DEF Found
<1>2. Range(Page(Ordered(F, "asc"), QueryLimit, 0)) = F
  BY <1>1, QueryLimitAssumption, WholePage
<1>3. GetCandles(rows, ticker, n, from, to)
        = CandlesOf(Range(Page(Ordered(F, "asc"), QueryLimit, 0)), n)
  BY DEF GetCandles, GetByTickerAndDateRange, Found
<1>4. QED
  BY <1>2, <1>3

\* The cut is the start of a bucket inside a range that the limit does not cut.
CutsRange(ticker, from, last, cut, to, n) ==
  /\ last = cut - 1
  /\ Cardinality(Found(ticker, from, to)) <= QueryLimit
  /\ from \in Nat /\ cut \in Nat /\ to \in Nat /\ n \in Nat \ {0}
  /\ from < cut /\ cut <= to /\ cut % n = 0

LEMMA RangeSplits ==
  ASSUME RowsOK(rows), NEW ticker, NEW from, NEW last, NEW cut, NEW to, NEW n,
         CutsRange(ticker, from, last, cut, to, n)
  PROVE  GetCandles(rows, ticker, n, from, to)
         = GetCandles(rows, ticker, n, from, last) \o GetCandles(rows, ticker, n, cut, to)
<1> DEFINE F == Found(ticker, from, to)
           F1 == Found(ticker, from, last)
           F2 == Found(ticker, cut, to)
<1>0. /\ from \in Nat /\ cut \in Nat /\ to \in Nat /\ n \in Nat \ {0}
      /\ from < cut /\ cut <= to /\ cut % n = 0
      /\ last = cut - 1 /\ Cardinality(F) <= QueryLimit
  BY DEF CutsRange
<1>1. \A r \in rows : r.timestamp \in Nat
  BY RowsAre
<1>2. /\ F = {r \in rows : /\ r.ticker = ticker /\ from <= r.timestamp
                           /\ r.timestamp <= to}
      /\ F1 = {r \in rows : /\ r.ticker = ticker /\ from <= r.timestamp
                            /\ r.timestamp <= cut - 1}
      /\ F2 = {r \in rows : /\ r.ticker = ticker /\ cut <= r.timestamp
                            /\ r.timestamp <= to}
  BY <1>0, <1>1 DEF Found, InRange, NoBound
<1>3. GetCandles(rows, ticker, n, from, to) = CandlesOf(F, n)
  BY <1>0, CandlesOfRange
<1> HIDE DEF F, F1, F2
<1>4. F = F1 \cup F2
  <2>1. \A x \in Nat : (from <= x /\ x <= to)
                       <=> (from <= x /\ x <= cut - 1) \/ (cut <= x /\ x <= to)
    BY <1>0
  <2>2. QED
    BY <1>1, <1>2, <2>1
<1>5. Sortable(F)
  BY <1>2, TickerSortable
<1>6. /\ IsFiniteSet(F1) /\ Cardinality(F1) <= Cardinality(F)
      /\ IsFiniteSet(F2) /\ Cardinality(F2) <= Cardinality(F)
  BY <1>4, <1>5, FS_Subset DEF Sortable
<1>7. Cardinality(F) \in Nat /\ Cardinality(F1) \in Nat /\ Cardinality(F2) \in Nat
  BY <1>5, <1>6, FS_CardinalityType DEF Sortable
<1>8. Cardinality(F1) <= QueryLimit /\ Cardinality(F2) <= QueryLimit
  BY <1>0, <1>6, <1>7, QueryLimitAssumption
<1>9. GetCandles(rows, ticker, n, from, last) = CandlesOf(F1, n)
  BY <1>8, CandlesOfRange DEF F1
<1>10. GetCandles(rows, ticker, n, cut, to) = CandlesOf(F2, n)
  BY <1>8, CandlesOfRange DEF F2
<1>11. /\ \A r \in F1 : r.timestamp \in Nat /\ r.timestamp < cut
       /\ \A r \in F2 : r.timestamp \in Nat /\ cut <= r.timestamp
  BY <1>0, <1>1, <1>2
<1>12. CandlesOf(F, n) = CandlesOf(F1, n) \o CandlesOf(F2, n)
  <2>1. Divides(F, F1, F2, cut, n)
    BY <1>0, <1>4, <1>6, <1>11 DEF Divides
  <2>2. QED
    BY <2>1, CandlesOfParts
<1>13. QED
  BY <1>3, <1>9, <1>10, <1>12

LEMMA SplitHolds == IInv /\ RangeAsked => CandlesSplit
<1> SUFFICES ASSUME IInv, RangeAsked, client.state = "analytics",
                    Cardinality(Found(client.ticker, client.from, client.to)) <= QueryLimit,
                    NEW n \in Intervals, NEW cut \in client.from + 1 .. client.to,
                    cut % n = 0
             PROVE  Candles(n) = GetCandles(rows, client.ticker, n, client.from, cut - 1)
                                 \o GetCandles(rows, client.ticker, n, cut, client.to)
  BY DEF CandlesSplit
<1>1. RowsOK(rows) /\ n \in Nat \ {0}
  BY TypeParts, ReadsAssumption DEF IInv
<1>2. client.from \in Nat /\ client.to \in Nat
  BY StampsAre DEF RangeAsked
<1>3. cut \in Nat /\ client.from < cut /\ cut <= client.to
  BY <1>2
<1>4. PICK ticker, from, last, to, c, m :
        /\ ticker = client.ticker /\ from = client.from /\ to = client.to
        /\ last = cut - 1 /\ c = cut /\ m = n
  OBVIOUS
<1>5. CutsRange(ticker, from, last, c, to, m)
  BY <1>1, <1>2, <1>3, <1>4 DEF CutsRange
<1>6. GetCandles(rows, ticker, m, from, to)
        = GetCandles(rows, ticker, m, from, last) \o GetCandles(rows, ticker, m, c, to)
  BY <1>1, <1>5, RangeSplits
<1>7. QED
  BY <1>4, <1>6 DEF Candles

-----------------------------------------------------------------------------
\* The table keeps one row for each key, and the client's state is well formed.
THEOREM TypeCorrect == Spec => []TypeOK
<1>1. IInv => TypeOK
  BY DEF IInv
<1>2. QED
  BY <1>1, IInvHolds, PTL

\* GET /prices and /prices/by-date: a client that pages until 404 has seen each
\* row that was in its range when it began, for every limit, range and order,
\* whatever is committed between its pages.
THEOREM PagesComplete == Spec => []PagesHideNothing
<1>1. IInv => PagesHideNothing
  BY DEF IInv
<1>2. QED
  BY <1>1, IInvHolds, PTL

\* get_business_metrics: the total of a snapshot does not exceed its counts, a
\* ticker that is counted has a latest price, and GET /prices/latest is not
\* behind it.
THEOREM SnapshotsNeverAhead == Spec => []MetricsNeverAhead
<1>1. QED
  BY SnapshotBehind, IInvHolds, PTL

\* get_candles: a range cut at the start of a bucket has the candles of its two
\* parts, one after the other, for every interval and any rows the query limit
\* does not cut.
THEOREM CandlesJoin == Spec => []CandlesSplit
<1>1. QED
  BY SplitHolds, IInvHolds, RangeAskedHolds, PTL

=============================================================================
