---------------------------- MODULE PriceQueries ----------------------------
(***************************************************************************)
(* The read queries of app/repositories.py and the analytics computed from *)
(* them in app/services.py, as functions of the rows in the prices table.  *)
(* A row has the fields ticker, timestamp and price; no two rows agree on  *)
(* the first two.  A quotient of Decimals is kept as dividend and divisor, *)
(* so that the average of a candle is the pair (sum, points).              *)
(***************************************************************************)
EXTENDS Integers, Sequences, FiniteSets, SequencesExt

CONSTANT QueryLimit  \* the limit of 10_000 rows in the analytics queries

ASSUME QueryLimitAssumption == QueryLimit \in Nat \ {0}

NoBound == -1  \* a bound left out; timestamps are natural numbers

OrderedByPrice(rows, sorting) ==  \* mutant: ORDER BY price, timestamp
  SetToSortSeq(rows, LAMBDA r, s : \/ r.price < s.price
                                   \/ r.price = s.price /\ r.timestamp < s.timestamp)

Before(r, s, sorting) ==
  IF sorting = "desc" THEN r.timestamp > s.timestamp ELSE r.timestamp < s.timestamp

Rank(rows, r, sorting) == Cardinality({s \in rows : Before(s, r, sorting)})

\* ORDER BY timestamp, which no two rows of a ticker share.
Ordered(rows, sorting) ==
  [i \in 1 .. Cardinality(rows) |-> CHOOSE r \in rows : Rank(rows, r, sorting) = i - 1]

Page(sequence, limit, offset) ==
  SubSeq(sequence, offset + 1, Min({offset + limit, Len(sequence)}))

GetAllByTicker(rows, ticker, limit, offset, sorting) ==
  Page(Ordered({r \in rows : r.ticker = ticker}, sorting), limit, offset)

NoPrice == [ticker |-> NoBound]  \* None in Python

GetLatestByTicker(rows, ticker) ==
  LET first == Page(Ordered({r \in rows : r.ticker = ticker}, "desc"), 1, 0)
  IN IF first = <<>> THEN NoPrice ELSE first[1]

InRangeOpen(r, from, to) ==  \* mutant: the end is exclusive
  /\ from = NoBound \/ r.timestamp >= from
  /\ to = NoBound \/ r.timestamp < to

InRange(r, from, to) ==
  /\ from = NoBound \/ r.timestamp >= from
  /\ to = NoBound \/ r.timestamp <= to

GetByTickerAndDateRange(rows, ticker, from, to, limit, offset, sorting) ==
  Page(Ordered({r \in rows : r.ticker = ticker /\ InRange(r, from, to)}, sorting),
       limit, offset)

GetTotalPricesCount(rows) == Cardinality(rows)

GetCountsByTicker(rows) ==
  [t \in {r.ticker : r \in rows} |-> Cardinality({r \in rows : r.ticker = t})]

GetLatestPricesByTicker(rows) ==
  [t \in {r.ticker : r \in rows} |->
     CHOOSE r \in rows : /\ r.ticker = t
                         /\ \A s \in rows : s.ticker = t => s.timestamp <= r.timestamp]

-----------------------------------------------------------------------------
PricesOf(sequence) == {sequence[i].price : i \in DOMAIN sequence}

SumOf(values) ==
  LET sum[i \in 0 .. Len(values)] == IF i = 0 THEN 0 ELSE sum[i - 1] + values[i]
  IN  sum[Len(values)]

Total(sequence) == SumOf([i \in DOMAIN sequence |-> sequence[i].price])

BucketByTime(r, seconds) ==  \* mutant: the nearest boundary
  ((r.timestamp + seconds \div 2) \div seconds) * seconds

BucketStart(r, seconds) == (r.timestamp \div seconds) * seconds

CandleByPrice(bucket, seconds) ==  \* mutant: opens with the lowest price
  [bucket_start |-> BucketStart(bucket[1], seconds),
   bucket_end |-> BucketStart(bucket[1], seconds) + seconds - 1,
   open |-> Min(PricesOf(bucket)), close |-> Last(bucket).price,
   high |-> Max(PricesOf(bucket)), low |-> Min(PricesOf(bucket)),
   sum |-> Total(bucket), points |-> Len(bucket)]

Candle(bucket, seconds) ==
  [bucket_start |-> BucketStart(bucket[1], seconds),
   bucket_end |-> BucketStart(bucket[1], seconds) + seconds - 1,
   open |-> bucket[1].price, close |-> Last(bucket).price,
   high |-> Max(PricesOf(bucket)), low |-> Min(PricesOf(bucket)),
   sum |-> Total(bucket), points |-> Len(bucket)]

\* The candles of the rows found: a bucket keeps their order, sorted(buckets) is
\* that of the starts.
CandlesOf(found, seconds) ==
  LET Bucket(start) == Ordered({r \in found : BucketStart(r, seconds) = start}, "asc")
      starts == Ordered({[timestamp |-> BucketStart(r, seconds)] : r \in found}, "asc")
  IN [i \in DOMAIN starts |-> Candle(Bucket(starts[i].timestamp), seconds)]

GetCandles(rows, ticker, seconds, from, to) ==
  CandlesOf(Range(GetByTickerAndDateRange(rows, ticker, from, to, QueryLimit, 0, "asc")),
            seconds)

Trend(change) == IF change > 0 THEN "up" ELSE IF change < 0 THEN "down" ELSE "flat"

\* The zero start price has a percentage of its own.
Percent(change, start) == IF start = 0 THEN <<0, 1>> ELSE <<100 * change, start>>

\* None when no row is found.
None == [points |-> 0]

GetPriceSummary(rows, ticker, from, to) ==
  LET prices == GetByTickerAndDateRange(rows, ticker, from, to, QueryLimit, 0, "asc")
      start == Head(prices).price
      change == Last(prices).price - start
  IN IF prices = <<>> THEN None
     ELSE [points |-> Len(prices), sum |-> Total(prices),
           min |-> Min(PricesOf(prices)), max |-> Max(PricesOf(prices)),
           start |-> start, end |-> Last(prices).price, change |-> change,
           percent |-> Percent(change, start), trend |-> Trend(change)]

=============================================================================
