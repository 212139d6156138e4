# TLA+ models of deribit-price-collector

This directory specifies the collector, its database writes, its scheduled
tasks, its read API and the start of a release in TLA+. TLC checks the specifications on small
instances; TLAPS proves all their safety properties and both refinements for
every value of the constants.
Paths such as `tasks.py:331` are relative to `collector/` for `tasks.py`,
`client.py`, `providers.py`, `backfill.py` and `reconcile.py`, to the repository
for `docker-compose.yml` and `alembic/`, and to `app/` otherwise.

Run a model with `tlc -config Ingestion.cfg MCPriceIngestion`, the proofs of
a component with `tlapm PriceIngestionProofs.tla` (and so for each `*Proofs` module). `PROJECT.json` maps every definition to the
lines it models and lists runs, mutants, hazards and theorems.

## 1. Inventory of the system

| Component | State | Operations | Module |
|---|---|---|---|
| Price tasks (`tasks.py:190-355`) | local counters, points and failure lists of an invocation; `request.retries` of the message | `fetch_price_batch`, `backfill_price_history` | `PriceIngestion`, `PriceHistory` |
| Deribit client (`client.py`) | none; one HTTP call per operation | `get_index_price_time`, `get_index_chart_data` | `PriceIngestion` |
| Providers (`providers.py`) | the setting `MARKET_DATA_PROVIDER` | build the client, describe the active provider | `PriceIngestion` (`ProviderOk`), `ApiRequests` (`provider`) |
| Synchronous repository and session (`repositories.py:117-160`, `core/db.py:30-36`) | identity map and pending objects of the session, an open transaction | `save_price`, commit, rollback, `get_latest_timestamp`, `get_timestamps_in_range` | `PriceIngestion`, `Reconciliation` |
| `prices` table (`models.py`) | rows, unique on (ticker, timestamp) | insert, update; nothing deletes | `PriceIngestion`, `PriceReads` |
| Migrations (`alembic/`) | revision of the schema | `upgrade head` | `Deployment`, `SchemaUpgrade` |
| Containers (`docker-compose.yml`) | web, worker and beat containers | start in order, health check, restart | `Deployment` |
| Reconciliation (`tasks.py:53-187`) | `backfill_tickers` of a run | `reconcile_recent_prices`, `has_missing_intervals`, `resolve_reconciliation_range` | `Reconciliation` |
| Task dispatch (`tasks.py:23-50`, `86-104`) | messages in Redis with absolute deadlines | beat schedule, `dispatch_price_batches`, retries | `TaskRounds` |
| Command line (`backfill.py`, `reconcile.py`) | none | call a task directly, without broker | `PriceIngestion` (`ViaBroker`), `Reconciliation` (`StartByHand`, `BackfillByHand`) |
| Query services (`services.py`, `repositories.py:16-114`) | none | pages, latest price, candles, summary, counts | `PriceQueries`, `PriceReads` |
| HTTP API (`main.py`, `api/endpoints.py`, `schemas.py`) | a request with its id, session and context variable | startup, shutdown, middleware, validation, endpoints, exception handlers | `ApiRequests` |
| Metrics (`core/metrics.py`) | counters of `RuntimeMetrics` | `on_request_start`, `on_request_end`, snapshots | `ApiRequests`, `PriceReads` |
| Configuration and logging | settings; format of records | - | constants of the models; `ErrorsLoggedWithId` |
| Dashboards and scraping | - | - | not modelled |

**Interactions.** Beat sends `dispatch_price_batches` and
`reconcile_recent_prices`. The first sends one `fetch_price_batch` for each
chunk of tickers, the second at most one `backfill_price_history` for the
tickers it suspects; operators start the last two from the command line too.
Workers are processes that share nothing but the database. Both price tasks
call the provider once per ticker, pass each point to `save_price`, and commit
once. The API is one asyncio process that only reads the same table. Its
container upgrades the schema before it serves, and the worker containers wait
for it to be healthy.

**What is hard, and what makes each part correct.**

- *Price tasks and repository.* `save_price` is SELECT, then INSERT or UPDATE
  at a later autoflush; jobs that hold the same keys race, wait for each
  other's rows, deadlock, and lose the race at the unique index in the middle
  of a loop. Errors of the provider, of parsing and of the database take
  different `except` paths in the two tasks. The message is acknowledged before
  the task runs, so a crash loses it; a lost acknowledgement of COMMIT repeats
  it. Correct means: one row per key; a job publishes all its points in one
  step or none; what succeeded is stored; repeating changes nothing; a transient
  failure is retried and a job always ends.
- *Reconciliation.* The latest row and the range are read by two statements
  with commits in between; the window, the gap test and the chart range have
  edges; stamps may be ahead of the clock; operators run shorter reconciliations
  and backfills in between. Correct means: a ticker that passes has no gap in the
  window; gaps are closed within a period of undisturbed work.
- *Dispatch.* Workers may be down for any time, parents crash in their fan-out,
  retries back off. Correct means: old rounds do not pile up, and none is
  dispatched twice.
- *Queries.* A client pages by offset, and metrics are read in three statements,
  while rows are inserted. Candles and summary are computed separately and must
  agree.
- *API.* Requests interleave at every await, share a pool of connections, and
  end through four different exits; the process may stop at any moment. Correct
  means: each is counted once, a scrape misses no reply sent before it, and every
  request gives its connection back.
- *Start of a release.* Migrations wait for open transactions of old workers, a
  second upgrade may run, processes die in between, and the rows of an earlier
  release may violate the new constraint. Correct means: the schema changes in
  one step, only over unique rows; nothing of this release runs on another
  schema; without duplicates the API comes up.

## 2. Modules

**`PriceHistory`** is the abstract specification of ingestion: a history, the
points each job has received, the jobs that have ended. `Receive`, `Publish`
(all received keys, one step) and `Abandon` are its only steps.

**`PriceIngestion`** is the detailed one. `pc`, `retries`, `attempt` (locals of
the running invocation), `txn` (flushed rows of its open transaction), `raised`
(how the last failed invocation ended) and `table`. Steps are cut where another
process can get in between: provider calls (`FetchAnswered`, `ChartAnswered`,
`CallRejected`, `FetchUnreachable`, `ChartUnreachable`, `BodyNotJson`,
`FieldGarbled`), the SELECT of `save_price` (`Select`), the flush of a row
(`Flush`, `FlushRejected`, `Deadlock`) and the end of the task (`Commit`,
`CommitAckLost`, `EndEmpty`, `Finish`). `Expire`, `Crash` and
`DatabaseUnavailable` may strike at any time. Every path into an exception
handler goes through `Raise`, which rolls back, closes, and retries as
`autoretry_for` does. A timestamp is a number divided by the unit of the
answer, so two answers may fall on one second. `PublishesWhole` states that it
implements `PriceHistory`. A job whose settings name no provider, or whose range
is unknown, raises at its start (`Configured`).

**`Reconciliation`** keeps rows by age, so that time goes on in finitely many
states. `ReadLatest` and `ReadRange` are the two SELECTs of one ticker, with
`Collect` and `Repair` between them; `Schedule` sends the backfill. `call` has the
arguments of the run after their defaults, as beat and `reconcile.py` give them
different ones. `ResolveRange` is the table of `resolve_reconciliation_range`; how
far the provider's chart of each range reaches back is a parameter of its own
(`Covers`), since only the provider decides it. A whole job of `PriceIngestion` is one step here, which
`ImplementsHistory` justifies.

**`TaskRounds`** has the beat interval, the waiting parents and children with
the time left to their deadline, and the workers. One module serves the pair
dispatch/fetch and the pair reconcile/backfill.

**`PriceQueries`** holds the queries and analytics as operators over a set of
rows; **`PriceReads`** is one API client that uses them while rows are committed.
`Ordered` puts a row at its rank, the number of rows before it: no two rows of a
ticker share a timestamp, so `ORDER BY timestamp` has one result.

**`ApiRequests`** follows requests through the middleware (`Receive`, `End`),
validation and endpoints (`AnswerInvalid`, `AnswerDirectly`, `DescribeProvider`,
`Connect`, `Read`, `ReadLast`, `ReadRefused`, `ReadFails`, `PoolTimeout`), the
reply (`Send`) and the end of the session (`Close`). `Startup` and `Exit` are the
lifespan of the process, whose counters and requests are lost when it ends. An
exception without a handler passes the middleware, where it is counted as 500,
and is answered outside, as in FastAPI 0.104.

**`SchemaUpgrade`** is the abstract specification of starting a release: rows are
stored, the schema goes to its head in one step, and the API and the workers run
on the head only. **`Deployment`** is the detailed one: an upgrade by the web
container or a shell (`Begin`, `Queue`, `Migrate`, `MigrateFails`, `CommitUpgrade`; one
transaction for all migrations, `alembic/env.py:26`), the containers (`InitDb`,
`StartWorkers`, `StopEarlier`, `ComposeAborts`, `WebFails`, ...) and transactions
of `save_price` cut at its SELECT, its INSERT and the commit. The earlier release is
taken to write as this one does. `UpgradesWhole` states the refinement.

**How the modules fit.** `Deployment` shows that workers of this release find the
unique constraint, which `PriceIngestion` takes for granted (`Conflicts`).
`PriceIngestion` shows that a job publishes in one step, which `Reconciliation`
and `PriceReads` take for granted. `TaskRounds` shows how long messages live,
which the others leave open (`Expire`, `ReconcileExpires`, `RepairFails`).

Each of the six components with actions has a module of theorems beside it:
`PriceIngestionProofs`, `ReconciliationProofs`, `TaskRoundsProofs`,
`PriceReadsProofs`, `ApiRequestsProofs` and `DeploymentProofs`; `CandleProofs`
has those about the analytics (section 5). MC
modules only give values to constants. Definitions marked `mutant` are
plausible bugs: each property of a passing run is violated when its mutant
stands for the definition it follows.

## 3. Runs

| Run | Bounds | What it shows |
|---|---|---|
| `ingestion` | live batch and backfill over the same 2 tickers in opposite order, and a direct backfill with bad settings; 2 stamps in one second, 2 prices, 1 retry | `TypeOK`, `UniqueKeys`, `WritesIsolated`, `AttemptsConsistent`, `SuccessMeansStored`, `FetchRetried`, `RepeatChangesNothing`, the refinement `PublishesWhole`, and `EveryJobEnds` under fairness |
| `deployment` | every schema and every row count up to 2 for 2 keys at the start, 3 transactions, 2 upgraders, 2 failures | `HeadMeansUnique`, the refinement `UpgradesWhole`, and `UpgradeEnds` under fairness |
| `reconciliation` | 2 tickers, lookback 4 steps, period 1, ages -1 to 5, ranges 1 and 4, a run by hand over one step | `PassedMeansNoGap`, `GapsAreRepaired` |
| `task_rounds` | interval 6, deadlines 5 and 5, 3 tickers in chunks of 2, 2 workers, 1 retry | `RoundsBounded`, `NoTwin`, `StartsInTime` |
| `reads` | 5 timestamps of one ticker and 1 of another, 2 prices, pages of 2, query limit 3, intervals 2 and 4 | `PagesHideNothing`, `MetricsNeverAhead`, `CandlesMatchSummary`, `CandlesNest`, `CandlesSplit` |
| `api` | 2 requests of any endpoint, 1 connection, any number of restarts | `CountersAgree`, `ScrapesCountReplies`, `RequestsEnd` |

The bounds are the least at which the hard cases happen: two jobs with crossing
tickers wait in a cycle; two stamps of one second meet in one transaction, where
the second must see the unflushed first; a retry budget of 1 has a last retry;
ages reach one step behind the window; ranges of a chart lie below and at the lookback, and
the unlimited one above it; intervals and deadlines of `task_rounds` are in the
proportion of dispatch and fetch (60/50/50 s), so that rounds overlap (reconciliation
and backfill, 300/240/300 s, are left to the theorem `RoundsStayBounded`, which holds
for any); the query limit is less
than the rows of a range; with one connection the other request waits; three
transactions are two that race for a key and one that keeps a migration waiting,
and two failures hit an upgrade and its repetition.

Bounds are constants of the models. `Horizon` and `healthy` in
`Reconciliation` and `MaxAge` in `TaskRounds` make ages saturate; `MaxDelay` is
how late after its stamp a price may be stored, 0 in the run, where a live price
is stored within one interval, and `Skew` how far a stamp may be ahead of the
clock; `MaxRepairs` bounds the scheduled backfills that wait at a time (their
deadline is one period), `MaxFailures` the processes that die in `Deployment`. `CHECK_DEADLOCK FALSE` stands where all
jobs or requests of the instance may be over.

### Disagreements between the code and what it says

Six runs end in a counterexample on purpose; each checks one property
that a document, a message or a comment of the repository states.

- `backfill_conflict` (`ConflictRetried`): a backfill that loses the race for a
  key at an autoflush (`tasks.py:332`) fails at once although it has retries;
  the same conflict at the commit (`tasks.py:337`) or in a live batch is retried.
- `backfill_error` (`PermanentMeansBadRange`): a body that is not JSON raises a
  `ValueError`, which `tasks.py:349` reports as an unsupported range and never
  retries.
- `batch_partial` (`PartialSuccessKept`): an exception that is not a
  `PriceCollectionError` discards the tickers a live batch has already saved.
- `recent_gap` (`PassedMeansNoRecentGap`): a hole that began before the lookback
  window is not found, however much of the window it covers.
- `wide_timestamp` (`AcceptedIsServed`): timestamps from 2147483648 to
  2500000000 pass validation (`schemas.py:119`) and end in 500, because the
  column is a 32-bit integer. An `offset` above that limit does the same.
- `error_log` (`ErrorsLoggedWithId`): the record of an unhandled error has the
  request id `-`, since the middleware resets the context (`main.py:58`) before
  the handler outside it logs.

Two more observations, which no document contradicts. A price stamped ahead of
the clock is the latest of its ticker but outside the range that is read, so it
hides a gap before it until the next run (the condition in `PassedMeansNoGap`).
A setting that names no provider ends a backfill with the message of
`backfill_error`, while a live batch retries it.

## 4. Fairness

`EveryJobEnds` assumes weak fairness of the steps of each job and none of
faults: a worker that has started a task keeps running it; calls of the provider
have a timeout (`DERIBIT_API_TIMEOUT_SEC`), PostgreSQL breaks cycles of waits
(`Deadlock`), and retries are finite. A message that nobody consumes would not
end, so the fairness of `Start` stands for a worker that is up, which
`docker-compose.yml` restarts. `RequestsEnd` assumes that the event loop runs each
coroutine, that waiting for the pool times out (SQLAlchemy's default), and that
the database answers a statement or fails it; the code sets no statement
timeout, so a database that hangs for ever is outside this assumption.
`UpgradeEnds` assumes that Docker starts the web container again
(`restart: unless-stopped`), that an upgrade and a transaction that may go on do
so, and that processes stop dying (`MaxFailures`); it needs no fairness of
compose or the operator. It is stated for databases that never hold duplicates:
with them the upgrade fails at every start, as it must. Safety properties need
no fairness.

## 5. Proofs

Every theorem is about the specification TLC checks, for every value of the
constants that meets the named assumption of its module. Those assumptions state
the kinds of the constants and what the settings of the code satisfy. Each
module follows one scheme: an inductive invariant `IInv`, which TLC confirmed on
the instances of section 3 before it was proved, lemmas for the steps, and
theorems that follow from it.

| Module | Theorem | States |
|---|---|---|
| `PriceIngestionProofs` | `TypeCorrect`, `KeysStayUnique`, `WritesStayIsolated`, `AttemptsStayConsistent`, `SuccessStaysStored`, `FetchStaysRetried`, `RepeatsChangeNothing` | `TypeOK`, `UniqueKeys`, `WritesIsolated`, `AttemptsConsistent`, `SuccessMeansStored`, `FetchRetried`, `RepeatChangesNothing` |
| | `ImplementsHistory` | the refinement `PublishesWhole` |
| `DeploymentProofs` | `TypeCorrect`, `HeadStaysUnique` | `TypeOK`, `HeadMeansUnique` |
| | `ImplementsUpgrade` | the refinement `UpgradesWhole` |
| `ReconciliationProofs` | `TypeCorrect`, `PassedIsWhole`, `GapsClose` | `TypeOK`, `PassedMeansNoGap`, `GapsAreRepaired` |
| `TaskRoundsProofs` | `TypeCorrect`, `NoTwins`, `ChildrenStartInTime`, `RoundsStayBounded` | `TypeOK`, `NoTwin`, `StartsInTime`, `RoundsBounded` |
| `PriceReadsProofs` | `TypeCorrect`, `PagesComplete`, `SnapshotsNeverAhead`, `CandlesJoin` | `TypeOK`, `PagesHideNothing`, `MetricsNeverAhead`, `CandlesSplit` |
| `CandleProofs` | `CandlesTellSummary`, `CandlesNestWhole` | `CandlesMatchSummary`, `CandlesNest` |
| `ApiRequestsProofs` | `TypeCorrect`, `CountersStayTrue`, `ScrapesStayTrue` | `TypeOK`, `CountersAgree`, `ScrapesCountReplies` |

**Ingestion**, for any number of jobs, any batches, any answers and any retry
limit. `UniqueKeys` is not inductive. That a commit keeps keys unique needs that an
inserted row is not in the table and no other open transaction holds its key
(`WritesIsolated`); that a flush keeps this needs that a pending update finds
its row (a conjunct of `AttemptsConsistent`). Hence the invariant

    IInv == TypeOK /\ UniqueKeys /\ WritesIsolated /\ AttemptsConsistent

The proof has a lemma for each kind of step: `RaiseKeeps` for every error path,
`LocalKeeps` for steps that touch one job's locals only, `SelectKeeps`,
`FlushKeeps`, `CommitKeeps`, and so on; `NextKeeps` puts them together.
`AppliedTable` says what a commit makes of the table. The refinement maps
`history` to the table, `received` to the points in hand and `ended` to the final
states; `StepImplements` shows that a step of a job is `Receive`, `Publish`,
`Abandon` or a stutter, where `Publish` rests on the conjunct that everything
received is saved, pending, written or still to be saved.

**Start of a release**, for any keys, transactions and number of failures. An
upgrade that has run a migration excludes open transactions and every other
upgrade, and has found no duplicates once it has run the last (`HolderAlone`);
what it read of the schema is not newer than the schema, and exactly the schema
while it holds the table (`UpgradeConsistent`); a web container that is not down,
and current workers, have the head (`ReleaseConsistent`). In the refinement only
the commit of an upgrade moves the schema, and only that of a transaction stores
rows; a commit of several migrations at once is one abstract step.

**Reconciliation**, for any tickers, windows, periods and calls by hand. All three
parts of the proof are about one relation: from an age on, each row of a ticker
follows another by at most `MaxGap` (`Linked`). A test that passes has seen it in
the range that was read, and the row read first is still there (`LatestIsStored`):
this is where the order of the two reads enters. Rows that arrive later are
stored in time and keep it. For the repair, the invariant remembers that all
rows older than the last beat are linked, or the run or backfill that will link
them is still to come (`LinkedSinceBeat`), and that a period without a failure
has completed one (`LinkedForAPeriod`). Three hypotheses are about the provider and
not about the code, hence are hypotheses of the theorems and not assumptions of
the model: `ChartStep <= MaxGap` (a chart has no gaps of its own, or a backfill
could not close any); for `GapsClose` only, `ChartsReach` (the chart of a range
reaches back to the threshold that `tasks.py:53-64` has for it); and for
`PassedIsWhole` only, `MaxDelay <= MaxGap` (a live price is not stored so late that
it would itself end a gap the run could not see). The run meets all three; the
invariant itself needs the first only. `ChartsReach` is more than the run needs, as
successive runs overlap: there a chart that reaches two of the four steps of the
lookback still closes every gap in time, while one that reaches a single step
does not.

**Dispatch**, for any interval, deadlines, batch size, workers and retries. What is
left of a deadline is what the round has left (`DeadlinesKept`); rounds that may
still start a task are an interval apart (`RoundsSpaced`), so at most
`MaxAge \div Interval + 1` of them fit below `MaxAge` (counted by the injection
of an age to its quotient); a chunk of a round is in one place, and a round whose
parent still waits has no children (`OneOfEach`).

**Reads**, for any keys, page limit, windows and either order. A page holds the
rows whose ranks are its own (`PageIs`, from `OrderedIs`: ranks are a bijection
to the positions). A commit removes no key, so no rank ever falls
(`BeforeGrows`): what a client has yet to see stays behind its offset
(`RestBehindOffset`), and when a page is empty, nothing is behind it. For the
snapshot, each read bounds the next (`ReadsInOrder`): the table has at least the
rows of the total, the counts include every row (`CountsCover`), and the row
that is the latest of a ticker keeps its key. `CandlesJoin` is about one state,
whose range is of natural numbers (`RangeAsked`): rows before and after a
multiple of the interval share no bucket (`BucketsDivided`), the order of older
and younger rows is that of the older, then that of the younger
(`OrderedSplits`), for the rows and for the starts of their buckets alike, hence
the candles of the parts follow one another (`CandlesOfParts`).

**Analytics**, for any rows, prices, intervals and query limit. `CandlesTellSummary`
and `CandlesNestWhole` are about one state too, and both rest on `CandlesTell`: the
candles of some rows add up to what the rows add up to (`PointsOf`, each row as
a candle of one point). For the rows of one bucket this is what `get_candles`
computes of them (`CandleTells`, from `PointsTell`). A sum is a recursive function,
and a sum of two parts is that of their sums (`SumSplits`), as the least and
greatest are (`ExtremesJoin`); so what candles add up to joins when they follow
one another (`MergedJoins`), and the rows of the first bucket join the others
(`TellsJoins`). `CandlesTell` takes a least number of rows for which it would
fail; there is one because `<` is well founded on the naturals (`LeastNatural`,
from `WFMin`), which needs no operator as a parameter, as the induction theorems do.
The summary is computed from the page that the query limit leaves, the candles
from the rows of that page: sorted again, they are the page (`FirstPageInOrder`,
because their ranks are those among all rows). For nested candles, the rows before
a bucket, of it and after it share no bucket of a shorter interval
(`BucketDivides`), whose candles are therefore three lists, the middle one inside
the candle (`BucketBounds`, `PartsAre`). A price is `Numeric(20, 8)`, so the model
counts it in its last digit, an integer (`ReadsAssumption`).

**API**, for any number of requests and connections, and any restarts. Each
counter is the size of a set of requests (`CountersAreSizes`); an event of the
middleware moves one request between those sets. `ScrapesCountReplies` needs that
the replies received before a request are among those counted since the start
(`RepliesCounted`).

Only model-checked:

- liveness (`EveryJobEnds`, `RequestsEnd`, `UpgradeEnds`): the provers do not
  reason about fairness and `ENABLED`;
- the six disagreements of section 3, which are counterexamples.

## 6. Not modelled

The parsing of command lines does no more than call what is modelled. Texts of
logs, errors, Prometheus output and OpenAPI, durations, freshness, `created_at`,
and the digits of a Decimal quotient (kept as dividend and divisor) are
abstracted; so is the growth of the counter of paths. A deadline of a message is
a free choice in `PriceIngestion` (`Expire`) and counted in `TaskRounds`; the
countdown before a retry is any delay. A backfill that skips every ticker ends as a
success, as the code means it to; no property asks more of it. The fresh `X-Request-ID` of a request
without one is one of `Requests`. Runs of the reconciliation at the same time
share only the table and are modelled one after the other.

Of the migrations, `downgrade` and the offline mode are left out: nothing in the
repository runs them. Docker may still report the last status of a container that
is starting again as healthy; the model has no such stale status, which could do no
harm, as the schema never goes back. That the workers are started at all is not
asked: after a failed health check it takes another run of compose. An earlier release is assumed to write by the `save_price`
of this one, and a transaction to end with the process that opened it. Redis,
the dashboards, the scraping configuration and CI have no behaviour of the
program; what Redis does to messages is in `TaskRounds`.

## 7. Plan

Done: all components of section 1 but the dashboards, checked by TLC, and every
safety property of the runs that pass proved, with both refinements.

Next: that pages read without commits in between show each row once; a bound on
the counter of paths, should the code get one.
