----------------------------- MODULE PriceReads -----------------------------
(***************************************************************************)
(* One client of the read API while the collector commits rows.  Every     *)
(* query is one statement and sees the rows committed before it; a client  *)
(* that pages through the prices, and a request for metrics, issue several *)
(* and rows are committed between them.  The table only grows: nothing in  *)
(* the repository deletes a price, and save_price keeps the key of a row   *)
(* it updates.  A commit of several rows is several commits with no read   *)
(* in between.                                                             *)
(***************************************************************************)
EXTENDS PriceQueries

CONSTANTS
  Keys,        \* the pairs (ticker, timestamp) that may be stored
  Prices,
  PageLimit,   \* the limit of the client's pages
  Windows,     \* the ranges the client pages through, NoBound allowed
  Intervals    \* CandleInterval.seconds

ASSUME ReadsAssumption ==
  /\ IsFiniteSet(Keys) /\ \A k \in Keys : k = <<k[1], k[2]>> /\ k[2] \in Nat
  /\ PageLimit \in 1 .. 1000
  /\ Prices \subseteq Int  \* Numeric(20, 8): whole numbers of the last digit
  /\ Intervals \subseteq Nat \ {0}
  /\ \A m, n \in Intervals : m < n => n % m = 0

VARIABLES rows, client

vars == <<rows, client>>

Tickers == {k[1] : k \in Keys}
Stamps == {k[2] : k \in Keys}

\* The validators of the queries for a range.
ValidByDate(window) ==
  window[1] # NoBound /\ window[2] # NoBound => window[1] <= window[2]

ValidRange(from, to) == from <= to

Row(k, p) == [ticker |-> k[1], timestamp |-> k[2], price |-> p]
KeyOf(r) == <<r.ticker, r.timestamp>>
Found(ticker, from, to) == {r \in rows : r.ticker = ticker /\ InRange(r, from, to)}

TypeOK ==
  /\ rows \subseteq {Row(k, p) : k \in Keys, p \in Prices}
  /\ \A r, s \in rows : KeyOf(r) = KeyOf(s) => r = s
  /\ client.state \in {"idle", "paging", "end of pages", "metrics", "analytics"}
  /\ client.state \in {"paging", "end of pages"} =>
       /\ client.ticker \in Tickers /\ client.sorting \in {"asc", "desc"}
       /\ client.offset \in 0 .. Cardinality(Keys) + PageLimit
       /\ client.seen \subseteq Stamps /\ client.first \subseteq Stamps
  /\ client.state = "metrics" => client.step \in 1 .. 4

Init == rows = {} /\ client = [state |-> "idle"]

CommitInserts(k, p) ==  \* mutant: always inserts
  /\ rows' = rows \cup {Row(k, p)}
  /\ UNCHANGED client

\* A transaction of the collector commits a new row or another price.
Commit(k, p) ==
  /\ rows' = {r \in rows : KeyOf(r) # k} \cup {Row(k, p)}
  /\ UNCHANGED client

\* GET /prices or /prices/by-date from offset 0.
StartPaging(ticker, window, sorting) ==
  /\ client.state = "idle" /\ ValidByDate(window)
  /\ client' = [state |-> "paging", ticker |-> ticker, window |-> window,
                sorting |-> sorting, offset |-> 0, seen |-> {},
                first |-> {r.timestamp : r \in Found(ticker, window[1], window[2])}]
  /\ UNCHANGED rows

\* The next page, until one is empty and answered with 404.
ReadPage ==
  /\ client.state = "paging"
  /\ LET page == GetByTickerAndDateRange(rows, client.ticker, client.window[1],
                   client.window[2], PageLimit, client.offset, client.sorting)
     IN client' = IF page = <<>>
                  THEN [client EXCEPT !.state = "end of pages"]
                  ELSE [client EXCEPT !.offset = @ + PageLimit,
                          !.seen = @ \cup {page[i].timestamp : i \in DOMAIN page}]
  /\ UNCHANGED rows

AskMetrics ==
  /\ client.state = "idle"
  /\ client' = [state |-> "metrics", step |-> 1, total |-> 0, counts |-> <<>>,
                latest |-> <<>>]
  /\ UNCHANGED rows

ReadsReversed == <<"latest", "counts", "total">>  \* mutant: latest first

\* The arguments of build_business_metrics_snapshot, awaited from left to right.
Reads == <<"total", "counts", "latest">>

ReadMetrics ==
  /\ client.state = "metrics" /\ client.step <= 3
  /\ client' =
       LET read == [client EXCEPT !.step = @ + 1] IN
       CASE Reads[client.step] = "total" ->
              [read EXCEPT !.total = GetTotalPricesCount(rows)]
         [] Reads[client.step] = "counts" ->
              [read EXCEPT !.counts = GetCountsByTicker(rows)]
         [] Reads[client.step] = "latest" ->
              [read EXCEPT !.latest = GetLatestPricesByTicker(rows)]
  /\ UNCHANGED rows

\* GET /prices/candles and /prices/summary for a range that is valid.
AskAnalytics(ticker, from, to) ==
  /\ client.state = "idle" /\ ValidRange(from, to)
  /\ client' = [state |-> "analytics", ticker |-> ticker, from |-> from, to |-> to]
  /\ UNCHANGED rows

Answered ==
  /\ \/ client.state \in {"end of pages", "analytics"}
     \/ client.state = "metrics" /\ client.step = 4
  /\ client' = [state |-> "idle"]
  /\ UNCHANGED rows

Next ==
  \/ \E k \in Keys, p \in Prices : Commit(k, p)
  \/ \E t \in Tickers, w \in Windows, s \in {"asc", "desc"} : StartPaging(t, w, s)
  \/ ReadPage
  \/ AskMetrics
  \/ ReadMetrics
  \/ \E t \in Tickers, from, to \in Stamps : AskAnalytics(t, from, to)
  \/ Answered

Spec == Init /\ [][Next]_vars

-----------------------------------------------------------------------------
\* A client that pages until 404, in either order, has seen every row that was
\* in its range when it began, whatever the collector committed between pages:
\* a new row can repeat one on a later page, never hide one.
PagesHideNothing == client.state = "end of pages" => client.first \subseteq client.seen

\* A pair for each row that the counts by ticker include.
CountedRows(counts) == UNION {{t} \X (1 .. counts[t]) : t \in DOMAIN counts}

\* The three reads of a metrics snapshot are not one transaction.  Their order
\* makes each at least as new as the one before: the total does not exceed the
\* counts, and a ticker that is counted has a latest price; the endpoint for
\* the latest price, with a query of its own, is not behind the snapshot.
MetricsNeverAhead ==
  client.state = "metrics" /\ client.step = 4 =>
    /\ client.total <= Cardinality(CountedRows(client.counts))
    /\ DOMAIN client.counts \subseteq DOMAIN client.latest
    /\ \A t \in DOMAIN client.latest :
         LET newest == GetLatestByTicker(rows, t)
         IN  newest # NoPrice /\ newest.timestamp >= client.latest[t].timestamp

Merged(candles) ==
  [open |-> candles[1].open, close |-> Last(candles).close,
   low |-> Min({candles[i].low : i \in DOMAIN candles}),
   high |-> Max({candles[i].high : i \in DOMAIN candles}),
   sum |-> SumOf([i \in DOMAIN candles |-> candles[i].sum]),
   points |-> SumOf([i \in DOMAIN candles |-> candles[i].points])]

Candles(seconds) ==
  GetCandles(rows, client.ticker, seconds, client.from, client.to)

\* The candles of a range and its summary, computed by different code, tell the
\* same story at every interval, the cut after QueryLimit rows included.
CandlesMatchSummary ==
  client.state = "analytics" =>
    LET summary == GetPriceSummary(rows, client.ticker, client.from, client.to) IN
    \A n \in Intervals :
      IF summary = None THEN Candles(n) = <<>>
      ELSE Merged(Candles(n)) =
             [open |-> summary.start, close |-> summary.end, low |-> summary.min,
              high |-> summary.max, sum |-> summary.sum, points |-> summary.points]

\* A candle is the union of the candles of a shorter interval inside it, which
\* follow one another.
CandlesNest ==
  client.state = "analytics" =>
    \A m, n \in Intervals : m < n =>
      \A i \in DOMAIN Candles(n) :
        LET c == Candles(n)[i]
            Inside(d) == c.bucket_start <= d.bucket_start /\ d.bucket_end <= c.bucket_end
        IN  \E first, last \in DOMAIN Candles(m) :
              LET parts == Merged(SubSeq(Candles(m), first, last))
              IN  /\ first <= last
                  /\ \A j \in DOMAIN Candles(m) : j \in first .. last <=> Inside(Candles(m)[j])
                  /\ \A f \in DOMAIN parts : parts[f] = c[f]

\* A client may cut a range of at most QueryLimit rows at the start of any
\* bucket and ask for the parts: no row is lost or counted twice.
CandlesSplit ==
  client.state = "analytics"
  /\ Cardinality(Found(client.ticker, client.from, client.to)) <= QueryLimit =>
    \A n \in Intervals, cut \in client.from + 1 .. client.to : cut % n = 0 =>
      Candles(n) = GetCandles(rows, client.ticker, n, client.from, cut - 1)
                   \o GetCandles(rows, client.ticker, n, cut, client.to)

=============================================================================
