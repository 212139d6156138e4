--------------------------- MODULE Reconciliation ---------------------------
(***************************************************************************)
(* reconcile_recent_prices (collector/tasks.py) between the live           *)
(* collection that leaves gaps and the backfill it schedules; both are     *)
(* also called by hand (collector/reconcile.py, collector/backfill.py).    *)
(* Time is counted in steps of the live collection and rows are kept by    *)
(* their age (now - timestamp), so time goes on for ever in finitely many  *)
(* states: the age Horizon stands for itself and all that is older.  The   *)
(* provider's clock may be ahead, and its stamps then have negative ages.  *)
(* A job of PriceIngestion is one step here, by the refinement proved      *)
(* there.  A run of the task is cut at its two SELECTs; it takes           *)
(* milliseconds, so the clock does not move while it reads, but rows may   *)
(* be committed between the reads.  Runs share nothing but the table, and  *)
(* they are modelled one after the other.                                  *)
(***************************************************************************)
EXTENDS Integers, Sequences, FiniteSets, FiniteSetsExt

CONSTANTS
  Selected,      \* config.supported_tickers
  MaxGap,        \* PRICE_FETCH_INTERVAL_SEC * RECONCILIATION_STALE_MULTIPLIER
  Lookback,      \* RECONCILIATION_LOOKBACK_SEC
  Period,        \* RECONCILIATION_INTERVAL_SEC
  ByHand,        \* arguments of calls by hand, <<>> and 0 for those left out
  MaxDelay,      \* a live price is stored at most this long after its stamp
  Skew,          \* and at most this long before it
  Covers,        \* threshold of a bounded range -> what its chart covers
  ChartStep,     \* distance of the points of a chart
  Horizon,
  MaxRepairs     \* scheduled backfills that wait at a time, a bound of the model

ASSUME ReconciliationAssumption ==
  /\ Selected \in Seq(Range(Selected))
  /\ MaxGap \in Nat \ {0} /\ Lookback \in Nat \ {0} /\ Period \in Nat \ {0}
  /\ ByHand \subseteq [tickers : Seq(Range(Selected)), lookback : 0 .. Horizon - 1]
  /\ MaxDelay \in Nat /\ Skew \in Nat /\ ChartStep \in Nat \ {0}
  /\ DOMAIN Covers \subseteq 0 .. Horizon /\ Covers \in [DOMAIN Covers -> 0 .. Horizon]
  /\ MaxRepairs \in Nat \ {0}
  /\ Horizon \in Nat /\ Lookback < Horizon /\ MaxDelay < Horizon

Tickers == Range(Selected)

\* The thresholds of resolve_reconciliation_range.
Thresholds == DOMAIN Covers

\* The provider's side of that table: a chart reaches back to its threshold.
ChartsReach == \A r \in Thresholds : r <= Covers[r]

Ages == -Skew .. Horizon

None == Horizon + 1  \* there is no row

\* The arguments of a call after their defaults.
Effective(args) ==
  [tickers |-> IF args.tickers = <<>> THEN Selected ELSE args.tickers,
   lookback |-> IF args.lookback = 0 THEN Lookback ELSE args.lookback]

\* Beat calls the task without arguments.
Scheduled == Effective([tickers |-> <<>>, lookback |-> 0])

VARIABLES
  ages,     \* ticker -> ages of its rows
  queued,   \* the task that beat has sent waits for a worker
  pc,       \* "idle", "latest" or "range": where a run of the task is
  call,     \* the arguments of that run
  cursor,   \* index of the ticker it looks at
  latest,   \* age of the latest row it has read, or None
  found,    \* backfill_tickers
  repairs,  \* scheduled backfills: tickers and range
  elapsed,  \* since beat last sent the task
  healthy   \* whole intervals without a failure, a delay, or a
            \* stamp ahead of the clock (history variable)

vars == <<ages, queued, pc, call, cursor, latest, found, repairs, elapsed, healthy>>

TypeOK ==
  /\ ages \in [Tickers -> SUBSET Ages]
  /\ queued \in BOOLEAN /\ pc \in {"idle", "latest", "range"}
  /\ call \in {Scheduled} \cup {Effective(c) : c \in ByHand}
  /\ cursor \in 1 .. Len(call.tickers) + 1
  /\ latest \in Ages \cup {None}
  /\ found \subseteq Tickers
  /\ repairs \subseteq [tickers : SUBSET Tickers, range : 0 .. Horizon]
  /\ elapsed \in 0 .. Period
  /\ healthy \in 0 .. Period + 1

Init ==
  /\ ages = [t \in Tickers |-> {}]
  /\ queued = FALSE
  /\ pc = "idle"
  /\ call = Scheduled
  /\ cursor = 1
  /\ latest = None
  /\ found = {}
  /\ repairs = {}
  /\ elapsed = 0
  /\ healthy = 0

-----------------------------------------------------------------------------
\* The clock and the live collection.

Older(a) == IF a = Horizon THEN Horizon ELSE a + 1

\* One interval passes.  Work still waiting counts as a delay.
Tick ==
  /\ pc = "idle" /\ elapsed < Period
  /\ ages' = [t \in Tickers |-> {Older(a) : a \in ages[t]}]
  /\ elapsed' = elapsed + 1
  /\ healthy' = IF queued \/ repairs # {} \/ \E t \in Tickers : \E a \in ages[t] : a < 0
                THEN 0 ELSE IF healthy > Period THEN healthy ELSE healthy + 1
  /\ UNCHANGED <<queued, pc, call, cursor, latest, found, repairs>>

\* A live batch stores a price of t; when it fails, or does not run, there
\* is no such step before the next Tick.
Collect(t) ==
  /\ \E a \in -Skew .. MaxDelay : ages' = [ages EXCEPT ![t] = @ \cup {a}]
  /\ UNCHANGED <<queued, pc, call, cursor, latest, found, repairs, elapsed, healthy>>

\* Beat sends the task on time; a message still queued has then expired, as
\* its deadline of 240 s is shorter than the period, and this one follows it.
Beat ==
  /\ elapsed = Period
  /\ elapsed' = 0
  /\ queued' = TRUE
  /\ UNCHANGED <<ages, pc, call, cursor, latest, found, repairs, healthy>>

-----------------------------------------------------------------------------
\* reconcile_recent_prices.

InWindow(t, lookback) == {a \in ages[t] : 0 <= a /\ a <= lookback}

\* p and q are the ages of neighbours in S that are too far apart.
IsGap(S, p, q) ==
  /\ p \in S /\ q \in S /\ p - q > MaxGap
  /\ \A r \in S : r <= q \/ p <= r

HasMissingIntervalsFirst(S) ==  \* mutant: only the latest interval is checked
  \E p, q \in S : IsGap(S, p, q) /\ \A r \in S : q <= r

HasMissingIntervals(S) == \E p, q \in S : IsGap(S, p, q)

LatestOf(S) == IF S = {} THEN None ELSE CHOOSE a \in S : \A b \in S : a <= b

Start ==
  /\ queued /\ pc = "idle"
  /\ queued' = FALSE /\ pc' = "latest"
  /\ UNCHANGED <<ages, call, cursor, latest, found, repairs, elapsed, healthy>>

StartByHand(c) ==
  /\ pc = "idle"
  /\ pc' = "latest" /\ call' = Effective(c)
  /\ UNCHANGED <<ages, queued, cursor, latest, found, repairs, elapsed, healthy>>

ReadLatest ==
  /\ pc = "latest" /\ cursor <= Len(call.tickers)
  /\ latest' = LatestOf(ages[call.tickers[cursor]])
  /\ pc' = "range"
  /\ UNCHANGED <<ages, queued, call, cursor, found, repairs, elapsed, healthy>>

Suspect(t) ==
  \/ latest = None
  \/ latest > MaxGap
  \/ HasMissingIntervals(InWindow(t, call.lookback))

ReadRangeIndex ==  \* mutant: the index is collected, not the ticker
  /\ pc = "range"
  /\ found' = IF Suspect(call.tickers[cursor]) THEN found \cup {cursor} ELSE found
  /\ pc' = "latest" /\ cursor' = cursor + 1 /\ latest' = None
  /\ UNCHANGED <<ages, queued, call, repairs, elapsed, healthy>>

ReadRange ==
  /\ pc = "range"
  /\ found' = IF Suspect(call.tickers[cursor]) THEN found \cup {call.tickers[cursor]}
              ELSE found
  /\ pc' = "latest" /\ cursor' = cursor + 1 /\ latest' = None
  /\ UNCHANGED <<ages, queued, call, repairs, elapsed, healthy>>

Idle ==
  pc' = "idle" /\ call' = Scheduled /\ cursor' = 1 /\ found' = {} /\ latest' = None

\* resolve_reconciliation_range: what the chart of the first threshold that is
\* not below the lookback covers.
ResolveRangeShort(lookback) ==  \* mutant: always the first range
  Covers[Min(Thresholds)]

ResolveRange(lookback) ==
  LET enough == {r \in Thresholds : lookback <= r}
  IN  IF enough = {} THEN Horizon ELSE Covers[Min(enough)]

\* One backfill for all the tickers found.
Schedule ==
  /\ pc = "latest" /\ cursor > Len(call.tickers)
  /\ found # {} => Cardinality(repairs) < MaxRepairs
  /\ repairs' = IF found = {} THEN repairs
                ELSE repairs \cup {[tickers |-> found,
                                    range |-> ResolveRange(call.lookback)]}
  /\ Idle
  /\ UNCHANGED <<ages, queued, elapsed, healthy>>

\* A run crashes or loses the database: it has no retries.
ReconcileFails ==
  /\ pc # "idle"
  /\ healthy' = IF call = Scheduled THEN 0 ELSE healthy
  /\ Idle
  /\ UNCHANGED <<ages, queued, repairs, elapsed>>

\* The message that beat has sent is lost or past its deadline.
ReconcileExpires ==
  /\ queued
  /\ queued' = FALSE
  /\ healthy' = 0
  /\ UNCHANGED <<ages, pc, call, cursor, latest, found, repairs, elapsed>>

-----------------------------------------------------------------------------
\* The backfill it schedules, and one by hand.

Chart(range) == {a \in 0 .. range : a % ChartStep = 0}

\* backfill_price_history: the tickers the provider rejects are skipped.
Repair(m) ==
  /\ m \in repairs
  /\ repairs' = repairs \ {m}
  /\ \E skipped \in SUBSET m.tickers :
       /\ ages' = [t \in Tickers |-> IF t \in m.tickers \ skipped
                                     THEN ages[t] \cup Chart(m.range) ELSE ages[t]]
       /\ healthy' = IF skipped = {} THEN healthy ELSE 0
  /\ UNCHANGED <<queued, pc, call, cursor, latest, found, elapsed>>

\* The backfill expires, fails for good or is lost in a crash.
RepairFails(m) ==
  /\ m \in repairs
  /\ repairs' = repairs \ {m}
  /\ healthy' = 0
  /\ UNCHANGED <<ages, queued, pc, call, cursor, latest, found, elapsed>>

\* backfill.py, with any of the ranges; several tickers are several steps.
BackfillByHand(t) ==
  /\ \E range \in Range(Covers) \cup {Horizon} :
       ages' = [ages EXCEPT ![t] = @ \cup Chart(range)]
  /\ UNCHANGED <<queued, pc, call, cursor, latest, found, repairs, elapsed, healthy>>

-----------------------------------------------------------------------------
Next ==
  \/ Tick \/ Beat
  \/ \E t \in Tickers : Collect(t) \/ BackfillByHand(t)
  \/ Start \/ \E c \in ByHand : StartByHand(c)
  \/ ReadLatest \/ ReadRange \/ Schedule \/ ReconcileFails \/ ReconcileExpires
  \/ \E m \in repairs : Repair(m) \/ RepairFails(m)

Spec == Init /\ [][Next]_vars

-----------------------------------------------------------------------------
\* The tickers the running task has passed without suspicion.
Passed == {call.tickers[i] : i \in 1 .. cursor - 1} \ found

\* A ticker passed was collected recently and has no gap in the window of the
\* run, also when rows were committed between the two reads: the latest row is
\* read before the range, so a row the range misses cannot hide a gap.  A row
\* stamped ahead of the clock can, as it is the latest but not in the range.
PassedMeansNoGap ==
  \A t \in Passed :
    /\ LatestOf(ages[t]) <= MaxGap
    /\ LatestOf(ages[t]) >= 0 => \A p, q \in InWindow(t, call.lookback) :
                                  ~IsGap(InWindow(t, call.lookback), p, q)

\* While the tasks of beat run on time and the provider answers, a gap in the
\* window is closed within a period, also one that failures left behind, and
\* whatever shorter windows and ranges are reconciled and backfilled by hand.
\* The table of thresholds must choose a chart that is long enough for that.
GapsAreRepaired ==
  healthy > Period =>
    \A t \in Tickers : \A p, q \in InWindow(t, Lookback) :
      IsGap(ages[t], p, q) => q <= Period + MaxDelay

\* A ticker passed has no gap that reaches into the window, which is what
\* reconciling gapped recent history would take.
PassedMeansNoRecentGap ==
  \A t \in Passed : \A p \in ages[t], q \in InWindow(t, call.lookback) :
    IsGap(ages[t], p, q) => call.lookback - q <= MaxGap

=============================================================================
