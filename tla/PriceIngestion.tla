--------------------------- MODULE PriceIngestion ---------------------------
(***************************************************************************)
(* The writing side of the collector: fetch_price_batch and                *)
(* backfill_price_history (collector/tasks.py), the Deribit client they    *)
(* call (collector/client.py), SyncPriceRepository.save_price and the      *)
(* SQLAlchemy session it writes through, and the prices table.  Every job  *)
(* runs in a worker process of its own.  The steps of a job are cut where  *)
(* another process can get between: at each call of the provider, at each  *)
(* SELECT, at each flush of a written row and at COMMIT.                   *)
(*                                                                         *)
(* Celery and PostgreSQL are modelled from how the code uses them: a       *)
(* message is acknowledged before the task runs, so a crash loses it; a    *)
(* retry is the same message with a higher count and the old deadline; a   *)
(* transaction is READ COMMITTED; a write of a key another open            *)
(* transaction has written waits; the unique constraint rejects an insert  *)
(* of a committed key; a cycle of waits is broken by aborting one of them. *)
(***************************************************************************)
EXTENDS Integers, Sequences, FiniteSets

CONSTANTS
  Jobs,             \* task messages and command line invocations
  Kind,             \* job -> "fetch" or "backfill"
  Batch,            \* job -> the sequence of tickers it was given
  RangeOk,          \* job -> its range_name is a HistoryRange
  ProviderOk,       \* job -> MARKET_DATA_PROVIDER names a provider where it runs
  ViaBroker,        \* job -> run by a worker, not called by backfill.py
  Tickers,
  Supported,        \* config.TICKERS
  Prices,
  IndexAnswers,     \* [stamp, price] records of get_index_price
  ChartAnswers,     \* sequences of such records of get_index_chart_data
  MicrosPerSecond,  \* 1_000_000 in the code
  MillisPerSecond,  \* 1000 in the code
  MaxRetries        \* 3 in the code

Answers == [stamp : Nat, price : Prices]

ASSUME JobsAssumption ==
  /\ Kind \in [Jobs -> {"fetch", "backfill"}]
  /\ Batch \in [Jobs -> Seq(Tickers) \ {<<>>}]
  /\ RangeOk \in [Jobs -> BOOLEAN] /\ ProviderOk \in [Jobs -> BOOLEAN]
  /\ ViaBroker \in [Jobs -> BOOLEAN]
  /\ Supported \subseteq Tickers

ASSUME ProviderAssumption ==
  /\ IndexAnswers \subseteq Answers
  /\ ChartAnswers \subseteq Seq(Answers)
  /\ MicrosPerSecond \in Nat \ {0}
  /\ MillisPerSecond \in Nat \ {0}

ASSUME RetriesAssumption == MaxRetries \in Nat

VARIABLES
  pc,        \* job -> where it is
  retries,   \* job -> request.retries of its message
  attempt,   \* job -> local variables of the running invocation
  txn,       \* job -> rows flushed by its open transaction
  raised,    \* job -> how its last failed invocation ended
  table      \* the committed rows of prices

vars == <<pc, retries, attempt, txn, raised, table>>

Keys == Tickers \X Nat

Points == [key : Keys, price : Prices]

Writes == [key : Keys, price : Prices, op : {"insert", "update"}]

KeysOf(S) == {p.key : p \in S}

Elements(s) == {s[i] : i \in DOMAIN s}

Ended == {"succeeded", "failed", "expired", "lost"}

Running == {"calling", "saving", "committing", "closing"}

\* cursor: index of the current ticker; points: parsed points still to save;
\* pending: the object the session has not flushed yet; saved: keys passed to
\* save_price; unreachable: transient_failures is not empty; received: every
\* point the provider has answered (a history variable).
Fresh == [cursor |-> 1, points |-> <<>>, pending |-> {}, saved |-> {},
          unreachable |-> FALSE, received |-> {}]

Attempts == [cursor : Nat \ {0}, points : Seq(Points), pending : SUBSET Writes,
             saved : SUBSET Keys, unreachable : BOOLEAN,
             received : SUBSET Points]

TypeOK ==
  /\ pc \in [Jobs -> {"waiting"} \cup Running \cup Ended]
  /\ retries \in [Jobs -> 0 .. MaxRetries]
  /\ attempt \in [Jobs -> Attempts]
  /\ txn \in [Jobs -> SUBSET Writes]
  /\ raised \in [Jobs -> {"none", "transient", "permanent", "uncaught"}]
  /\ table \subseteq Points

Init ==
  /\ pc = [j \in Jobs |-> "waiting"]
  /\ retries = [j \in Jobs |-> 0]
  /\ attempt = [j \in Jobs |-> Fresh]
  /\ txn = [j \in Jobs |-> {}]
  /\ raised = [j \in Jobs |-> "none"]
  /\ table = {}

-----------------------------------------------------------------------------
\* How an invocation ends.

\* autoretry_for re-enqueues the message on PriceBatchTransientError while it
\* has retries left; a direct call only raises.
RetriesOnceMore(j, kind) ==  \* mutant: off by one
  kind = "transient" /\ ViaBroker[j] /\ retries[j] <= MaxRetries

Retries(j, kind) ==
  kind = "transient" /\ ViaBroker[j] /\ retries[j] < MaxRetries

\* The session is rolled back and closed.
RollbackForgotten(j) ==  \* mutant: the next invocation goes on in the session
  UNCHANGED txn

Rollback(j) == txn' = [txn EXCEPT ![j] = {}]

RaiseUncounted(j, kind) ==  \* mutant: sent again with delay() instead of retry
  /\ attempt' = [attempt EXCEPT ![j] = Fresh]
  /\ Rollback(j)
  /\ raised' = [raised EXCEPT ![j] = kind]
  /\ pc' = [pc EXCEPT ![j] = IF Retries(j, kind) THEN "waiting" ELSE "failed"]
  /\ UNCHANGED retries

Raise(j, kind) ==
  /\ attempt' = [attempt EXCEPT ![j] = Fresh]
  /\ Rollback(j)
  /\ raised' = [raised EXCEPT ![j] = kind]
  /\ IF Retries(j, kind)
     THEN /\ pc' = [pc EXCEPT ![j] = "waiting"]
          /\ retries' = [retries EXCEPT ![j] = @ + 1]
     ELSE /\ pc' = [pc EXCEPT ![j] = "failed"]
          /\ UNCHANGED retries

\* What becomes of an exception raised by the database in save_price or in
\* commit: only the commit of a backfill is wrapped.
DatabaseErrorBare(j) ==  \* mutant: fetch_price_batch without line 277
  IF pc[j] = "committing" THEN "transient" ELSE "uncaught"

DatabaseError(j) ==
  IF Kind[j] = "fetch" \/ pc[j] = "committing" THEN "transient" ELSE "uncaught"

\* The loop over tickers goes on with local state a.
NextTicker(j, a) ==
  /\ attempt' = [attempt EXCEPT ![j] = [a EXCEPT !.cursor = @ + 1]]
  /\ pc' = [pc EXCEPT ![j] =
       IF a.cursor = Len(Batch[j]) THEN "committing" ELSE "calling"]

\* HistoryRange(range_name) and build_sync_market_data_provider.
Configured(j) == ProviderOk[j] /\ (Kind[j] = "backfill" => RangeOk[j])

Start(j) ==
  /\ pc[j] = "waiting"
  /\ IF Configured(j)
     THEN /\ pc' = [pc EXCEPT ![j] = "calling"]
          /\ UNCHANGED <<retries, attempt, txn, raised>>
     ELSE Raise(j, IF Kind[j] = "fetch" THEN "transient" ELSE "permanent")
  /\ UNCHANGED table

-----------------------------------------------------------------------------
\* Calls of the provider.

Ticker(j) == Batch[j][attempt[j].cursor]

Calls(j) == pc[j] = "calling" /\ Ticker(j) \in Supported

PointOf(ticker, answer, unit) ==
  [key |-> <<ticker, answer.stamp \div unit>>, price |-> answer.price]

\* The points ps come back and are saved next; none is possible for a chart.
Answered(j, ps) ==
  /\ IF ps = <<>>
     THEN NextTicker(j, attempt[j])
     ELSE /\ attempt' = [attempt EXCEPT
               ![j].points = ps,
               ![j].received = @ \cup Elements(ps)]
          /\ pc' = [pc EXCEPT ![j] = "saving"]
  /\ UNCHANGED <<retries, txn, raised, table>>

FetchAnswered(j) ==
  /\ Calls(j) /\ Kind[j] = "fetch"
  /\ \E a \in IndexAnswers :
       Answered(j, <<PointOf(Ticker(j), a, MicrosPerSecond)>>)

ChartAnswered(j) ==
  /\ Calls(j) /\ Kind[j] = "backfill"
  /\ \E s \in ChartAnswers :
       Answered(j, [i \in 1 .. Len(s) |->
                      PointOf(Ticker(j), s[i], MillisPerSecond)])

\* UnsupportedTickerError, the only outcome for a ticker that is not in the
\* configuration, or DeribitResponseError: the loop skips the ticker.
CallRejected(j) ==
  /\ pc[j] = "calling"
  /\ NextTicker(j, attempt[j])
  /\ UNCHANGED <<retries, txn, raised, table>>

\* httpx.HTTPError becomes DeribitRequestError.
FetchUnreachable(j) ==
  /\ Calls(j) /\ Kind[j] = "fetch"
  /\ NextTicker(j, [attempt[j] EXCEPT !.unreachable = TRUE])
  /\ UNCHANGED <<retries, txn, raised, table>>

ChartUnreachable(j) ==
  /\ Calls(j) /\ Kind[j] = "backfill"
  /\ Raise(j, "transient")
  /\ UNCHANGED table

\* The body is not JSON: JSONDecodeError is a ValueError.
BodyNotJson(j) ==
  /\ Calls(j)
  /\ Raise(j, IF Kind[j] = "fetch" THEN "transient" ELSE "permanent")
  /\ UNCHANGED table

\* A field of the wrong kind: Decimal(str(price)) raises InvalidOperation,
\* us_in // 1_000_000 or data.get a TypeError or an AttributeError.
FieldGarbled(j) ==
  /\ Calls(j)
  /\ Raise(j, IF Kind[j] = "fetch" THEN "transient" ELSE "uncaught")
  /\ UNCHANGED table

-----------------------------------------------------------------------------
\* The session.

VisibleCommitted(j, k) ==  \* mutant: autoflush is off
  {p.price : p \in {r \in table : r.key = k}}

\* Prices under key k that the transaction of j can see.
Visible(j, k) ==
  {w.price : w \in {r \in IF k \in KeysOf(txn[j]) THEN txn[j] ELSE table :
                       r.key = k}}

\* save_price: SELECT by (ticker, timestamp), then add a Price or assign
\* obj.price; an assignment of an equal value makes no UPDATE.
Select(j) ==
  /\ pc[j] = "saving" /\ attempt[j].pending = {}
  /\ LET p    == Head(attempt[j].points)
         seen == Visible(j, p.key)
         rest == Tail(attempt[j].points)
         a    == [attempt[j] EXCEPT
                    !.points = rest,
                    !.saved = @ \cup {p.key},
                    !.pending =
                      IF p.price \in seen THEN {}
                      ELSE {[key |-> p.key, price |-> p.price,
                             op |-> IF seen = {} THEN "insert" ELSE "update"]}]
     IN  IF rest = <<>> THEN NextTicker(j, a)
         ELSE attempt' = [attempt EXCEPT ![j] = a] /\ UNCHANGED pc
  /\ UNCHANGED <<retries, txn, raised, table>>

\* The next SELECT (autoflush) or the commit sends the pending row.
Flushes(j) == pc[j] \in {"saving", "committing"} /\ attempt[j].pending # {}

Holders(j) ==
  {h \in Jobs \ {j} : KeysOf(txn[h]) \cap KeysOf(attempt[j].pending) # {}}

Waits(j) == Flushes(j) /\ Holders(j) # {}

ConflictsUnchecked(j) ==  \* mutant: the table before migration e8f1a2c4d6b7
  FALSE

\* An insert of a key that was committed after the SELECT of it.
Conflicts(j) ==
  \E w \in attempt[j].pending : w.op = "insert" /\ w.key \in KeysOf(table)

\* A second write of a row leaves one row, inserted if the first was.
Written(t, w) ==
  {r \in t : r.key # w.key} \cup
  {[w EXCEPT !.op = IF \E r \in t : r.key = w.key /\ r.op = "insert"
                    THEN "insert" ELSE @]}

Flush(j) ==
  /\ Flushes(j) /\ Holders(j) = {} /\ ~Conflicts(j)
  /\ \E w \in attempt[j].pending :
       txn' = [txn EXCEPT ![j] = Written(txn[j], w)]
  /\ attempt' = [attempt EXCEPT ![j].pending = {}]
  /\ UNCHANGED <<pc, retries, raised, table>>

FlushRejected(j) ==
  /\ Flushes(j) /\ Holders(j) = {} /\ Conflicts(j)
  /\ Raise(j, DatabaseError(j))
  /\ UNCHANGED table

\* Every job of C waits for a job of C, so one of them is aborted.
Deadlock(j) ==
  /\ \E C \in SUBSET Jobs :
       /\ j \in C
       /\ \A i \in C : Waits(i) /\ Holders(i) \cap C # {}
  /\ Raise(j, DatabaseError(j))
  /\ UNCHANGED table

DatabaseUnavailable(j) ==
  /\ pc[j] \in {"saving", "committing"}
  /\ Kind[j] = "fetch" /\ pc[j] = "committing" => attempt[j].saved # {}
  /\ Raise(j, DatabaseError(j))
  /\ UNCHANGED table

-----------------------------------------------------------------------------
\* The end of an invocation.

\* success_count is 0: nothing is committed.
EndEmpty(j) ==
  /\ pc[j] = "committing" /\ Kind[j] = "fetch" /\ attempt[j].saved = {}
  /\ Raise(j, IF attempt[j].unreachable THEN "transient" ELSE "permanent")
  /\ UNCHANGED table

CommitsUnflushed(j) ==  \* mutant: the last written row is not flushed
  /\ pc[j] = "committing"
  /\ Kind[j] = "backfill" \/ attempt[j].saved # {}

CommitsEarly(j) ==  \* mutant: commit inside the loop
  /\ pc[j] \in {"saving", "committing"} /\ attempt[j].pending = {}
  /\ attempt[j].saved # {}

Commits(j) ==
  /\ pc[j] = "committing" /\ attempt[j].pending = {}
  /\ Kind[j] = "backfill" \/ attempt[j].saved # {}

RowsOf(j) == {[key |-> w.key, price |-> w.price] : w \in txn[j]}

\* An UPDATE replaces a row, an INSERT adds one.
Applied(j) ==
  {p \in table : \A w \in txn[j] : w.op = "update" => w.key # p.key}
  \cup RowsOf(j)

Commit(j) ==
  /\ Commits(j)
  /\ table' = Applied(j)
  /\ txn' = [txn EXCEPT ![j] = {}]
  /\ pc' = [pc EXCEPT ![j] = "closing"]
  /\ UNCHANGED <<retries, attempt, raised>>

\* The server has committed, the client sees a broken connection.
CommitAckLost(j) ==
  /\ Commits(j)
  /\ table' = Applied(j)
  /\ Raise(j, "transient")

Finish(j) ==
  /\ pc[j] = "closing"
  /\ pc' = [pc EXCEPT ![j] = "succeeded"]
  /\ UNCHANGED <<retries, attempt, txn, raised, table>>

\* The worker drops a message whose deadline has passed.
Expire(j) ==
  /\ pc[j] = "waiting" /\ ViaBroker[j]
  /\ pc' = [pc EXCEPT ![j] = "expired"]
  /\ UNCHANGED <<retries, attempt, txn, raised, table>>

\* The process dies: the message was acknowledged, the transaction is
\* rolled back by the server.
Crash(j) ==
  /\ pc[j] \in Running
  /\ pc' = [pc EXCEPT ![j] = "lost"]
  /\ attempt' = [attempt EXCEPT ![j] = Fresh]
  /\ txn' = [txn EXCEPT ![j] = {}]
  /\ UNCHANGED <<retries, raised, table>>

-----------------------------------------------------------------------------
\* What a job does by itself, whatever the provider answers.
Progress(j) ==
  \/ Start(j)
  \/ FetchAnswered(j) \/ ChartAnswered(j) \/ CallRejected(j)
  \/ FetchUnreachable(j) \/ ChartUnreachable(j)
  \/ BodyNotJson(j) \/ FieldGarbled(j)
  \/ Select(j) \/ Flush(j) \/ FlushRejected(j) \/ Deadlock(j)
  \/ EndEmpty(j) \/ Commit(j) \/ Finish(j)

Fault(j) ==
  DatabaseUnavailable(j) \/ CommitAckLost(j) \/ Expire(j) \/ Crash(j)

Next == \E j \in Jobs : Progress(j) \/ Fault(j)

\* A worker that runs a job goes on running it; every call has a timeout.
Fairness == \A j \in Jobs : WF_vars(Progress(j))

Spec == Init /\ [][Next]_vars

FairSpec == Spec /\ Fairness

-----------------------------------------------------------------------------
\* The table has at most one row for each (ticker, timestamp): the unique
\* constraint, whatever the SELECT-then-INSERT of two save_price saw.
UniqueKeys == \A p, q \in table : p.key = q.key => p = q

\* A row an open transaction has inserted is not committed by anybody else,
\* a row it has updated is; and a row is written by one open transaction.
WritesIsolated ==
  /\ \A j \in Jobs : \A w \in txn[j] :
       w.op = "insert" <=> w.key \notin KeysOf(table)
  /\ \A i, j \in Jobs : i # j => KeysOf(txn[i]) \cap KeysOf(txn[j]) = {}

\* The local state of an invocation fits its transaction and the table: all
\* it will write was received, all it received is saved or about to be, and
\* all it saved is in the table, in its transaction or pending.
InvocationConsistent(j) ==
  LET a == attempt[j]
  IN  /\ pc[j] = "saving" <=> a.points # <<>>
      /\ pc[j] = "waiting" => a = Fresh
      /\ pc[j] \notin {"calling", "saving", "committing"} =>
           txn[j] = {} /\ a.pending = {}
      /\ Elements(a.points) \subseteq a.received
      /\ \A w \in txn[j] \cup a.pending :
           [key |-> w.key, price |-> w.price] \in a.received
      /\ KeysOf(a.received) \subseteq a.saved \cup KeysOf(Elements(a.points))
      /\ a.saved \subseteq KeysOf(table) \cup KeysOf(txn[j]) \cup KeysOf(a.pending)
      /\ \A v, w \in txn[j] : v.key = w.key => v = w
      /\ \A v, w \in a.pending : v = w
      /\ \A w \in a.pending :
           IF w.op = "insert" THEN w.key \notin KeysOf(txn[j])
           ELSE w.key \in KeysOf(table) \cup KeysOf(txn[j])

AttemptsConsistent == \A j \in Jobs : InvocationConsistent(j)

\* When an invocation has committed, there is a row for each point it passed
\* to save_price, those it found already stored included.
SuccessMeansStored ==
  \A j \in Jobs : pc[j] \in {"closing", "succeeded"} =>
                   attempt[j].saved \subseteq KeysOf(table)

\* A live batch gives up only on permanent failures or when its retries are
\* used up, whichever of the provider and the database failed it.
FetchRetried ==
  \A j \in Jobs : pc[j] = "failed" /\ Kind[j] = "fetch" /\ ViaBroker[j] =>
                   raised[j] = "permanent" \/ retries[j] = MaxRetries

\* Collecting again points that are all stored already changes nothing: the
\* idempotent writes of save_price, through races and retries.
RepeatChangesNothing ==
  [][\A j \in Jobs :
       attempt[j].received \subseteq table /\ (Commit(j) \/ CommitAckLost(j))
         => table' = table]_vars

\* A job a worker runs that loses the race for a key while it has retries
\* left is tried again, as the README says of collection and backfill.
ConflictRetried ==
  [][\A j \in Jobs :
       FlushRejected(j) /\ ViaBroker[j] /\ retries[j] < MaxRetries
         => pc'[j] = "waiting"]_vars

\* A backfill fails for good only because its range is not supported, which
\* is what the error it raises says.
PermanentMeansBadRange ==
  \A j \in Jobs : Kind[j] = "backfill" /\ raised[j] = "permanent" => ~RangeOk[j]

\* A live batch that has saved a ticker goes on when another ticker fails.
PartialSuccessKept ==
  [][\A j \in Jobs :
       Kind[j] = "fetch" /\ pc[j] = "calling" /\ attempt[j].saved # {}
         => pc'[j] \in Running \cup {"lost"}]_vars

\* Every job ends, also when transactions wait for one another.
EveryJobEnds == \A j \in Jobs : <>(pc[j] \in Ended)

\* Readers see a job's points all at once or not at all.
History == INSTANCE PriceHistory WITH
  history  <- table,
  received <- [j \in Jobs |-> IF pc[j] = "closing" \/ pc[j] \in Ended
                              THEN {} ELSE attempt[j].received],
  ended    <- {j \in Jobs : pc[j] \in Ended}

PublishesWhole == History!Spec

=============================================================================
