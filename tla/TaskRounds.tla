----------------------------- MODULE TaskRounds -----------------------------
(***************************************************************************)
(* Deadlines of the scheduled tasks (collector/tasks.py): beat sends a     *)
(* parent task every Interval, the parent sends its children, a child that *)
(* fails for a while is sent again.  Two pairs of tasks have this shape:   *)
(* dispatch_price_batches with fetch_price_batch (60, 50 and 50 s) and     *)
(* reconcile_recent_prices with backfill_price_history (300, 240 and       *)
(* 300 s).  Messages carry an absolute deadline, which a retry keeps.      *)
(* Celery and Redis are modelled from how the tasks use them: a message is *)
(* acknowledged before it runs, and dropped instead of run when its        *)
(* deadline has passed.  A countdown before a retry is not modelled: a     *)
(* retry may start at any time until its deadline.                         *)
(***************************************************************************)
EXTENDS Integers, FiniteSets

CONSTANTS
  Interval,        \* schedule of the parent in beat_schedule
  ParentDeadline,  \* expires of the parent
  ChildDeadline,   \* expires of the child
  TickerCount,     \* len(config.TICKERS)
  BatchSize,       \* PRICE_BATCH_SIZE
  Workers,         \* processes of the worker
  MaxRetries

ASSUME RoundsAssumption ==
  /\ Interval \in Nat \ {0} /\ ParentDeadline \in Nat /\ ChildDeadline \in Nat
  /\ TickerCount \in Nat /\ BatchSize \in Nat
  /\ Workers \in Nat /\ MaxRetries \in Nat

VARIABLES
  since,     \* time since beat last sent the parent, up to Interval
  parents,   \* ages of the parents waiting, counted from beat
  children,  \* messages waiting; age: since beat sent their parent
  running    \* worker -> the message it runs, or Idle

vars == <<since, parents, children, running>>

\* chunked(config.TICKERS, batch_size): a size of 0 ends the loop at once.
Chunks ==
  IF BatchSize = 0 THEN 0 ELSE (TickerCount + BatchSize - 1) \div BatchSize

\* How old a child can be when it starts.
MaxAge == ParentDeadline + ChildDeadline

\* A task may run on after its deadline: age and left then stand still.
Messages == [chunk : 1 .. Chunks, age : 0 .. MaxAge + 1,
             left : -1 .. ChildDeadline, retries : 0 .. MaxRetries]

Idle == [chunk |-> 0]

TypeOK ==
  /\ since \in 0 .. Interval
  /\ parents \subseteq 0 .. ParentDeadline
  /\ children \subseteq Messages
  /\ running \in [1 .. Workers -> Messages \cup {Idle}]

Init ==
  /\ since = 0
  /\ parents = {}
  /\ children = {}
  /\ running = [w \in 1 .. Workers |-> Idle]

Aged(m) ==
  [m EXCEPT !.age = IF @ > MaxAge THEN @ ELSE @ + 1,
            !.left = IF @ < 0 THEN @ ELSE @ - 1]

\* Messages past their deadline are no longer counted: they will not run.
\* Beat may be late or down.
Tick ==
  /\ since' = IF since < Interval THEN since + 1 ELSE since
  /\ parents' = {a + 1 : a \in parents} \cap (0 .. ParentDeadline)
  /\ children' = {m \in {Aged(c) : c \in children} : m.left >= 0}
  /\ running' = [w \in 1 .. Workers |->
                   IF running[w] = Idle THEN Idle ELSE Aged(running[w])]

Beat ==
  /\ since = Interval
  /\ since' = 0
  /\ parents' = parents \cup {0}
  /\ UNCHANGED <<children, running>>

\* A child of age a for each of the first n chunks.
Sent(n, a) ==
  {[chunk |-> k, age |-> a, left |-> ChildDeadline, retries |-> 0] : k \in 1 .. n}

DispatchLate(a) ==  \* mutant: the parent is acknowledged after it has run
  /\ a \in parents
  /\ \E n \in 0 .. Chunks :
       /\ parents' = IF n = Chunks THEN parents \ {a} ELSE parents
       /\ children' = children \cup Sent(n, a)
  /\ UNCHANGED <<since, running>>

\* The parent runs: it sends its children one by one, and a crash leaves the
\* first n of them.
Dispatch(a) ==
  /\ a \in parents
  /\ parents' = parents \ {a}
  /\ \E n \in 0 .. Chunks : children' = children \cup Sent(n, a)
  /\ UNCHANGED <<since, running>>

Start(m, w) ==
  /\ m \in children /\ running[w] = Idle
  /\ children' = children \ {m}
  /\ running' = [running EXCEPT ![w] = m]
  /\ UNCHANGED <<since, parents>>

\* Done, failed for good, or lost with its process.
Finish(w) ==
  /\ running[w] # Idle
  /\ running' = [running EXCEPT ![w] = Idle]
  /\ UNCHANGED <<since, parents, children>>

RetryRenewed(w) ==  \* mutant: the deadline starts again
  /\ running[w] # Idle /\ running[w].retries < MaxRetries
  /\ running' = [running EXCEPT ![w] = Idle]
  /\ children' = children \cup {[running[w] EXCEPT !.retries = @ + 1,
                                                   !.left = ChildDeadline]}
  /\ UNCHANGED <<since, parents>>

RetryOnceMore(w) ==  \* mutant: the retries are counted from one
  /\ running[w] # Idle /\ running[w].retries <= MaxRetries
  /\ running' = [running EXCEPT ![w] = Idle]
  /\ children' = IF running[w].left < 0 THEN children
                 ELSE children \cup {[running[w] EXCEPT !.retries = @ + 1]}
  /\ UNCHANGED <<since, parents>>

\* A transient failure; past the deadline the message is sent in vain.
Retry(w) ==
  /\ running[w] # Idle /\ running[w].retries < MaxRetries
  /\ running' = [running EXCEPT ![w] = Idle]
  /\ children' = IF running[w].left < 0 THEN children
                 ELSE children \cup {[running[w] EXCEPT !.retries = @ + 1]}
  /\ UNCHANGED <<since, parents>>

Next ==
  \/ Tick \/ Beat
  \/ \E a \in parents : Dispatch(a)
  \/ \E m \in children, w \in 1 .. Workers : Start(m, w)
  \/ \E w \in 1 .. Workers : Finish(w) \/ Retry(w)

Spec == Init /\ [][Next]_vars

-----------------------------------------------------------------------------
\* Rounds do not pile up: however long the workers are busy or down, the
\* children that can still run come from few rounds, two for the intervals
\* and deadlines of the code.
RoundsBounded ==
  Cardinality({m.age : m \in children}) <= MaxAge \div Interval + 1

\* No chunk of a round is waiting or running twice, retries and crashes of
\* the parent included.
NoTwin ==
  /\ \A m, n \in children : m.chunk = n.chunk /\ m.age = n.age => m = n
  /\ \A w \in 1 .. Workers : running[w] # Idle /\ running[w].left >= 0 =>
       /\ running[w].age \notin parents
       /\ \A m \in children : m.chunk = running[w].chunk => m.age # running[w].age
       /\ \A v \in 1 .. Workers \ {w} :
            running[v].chunk = running[w].chunk => running[v].age # running[w].age

\* A child starts at most MaxAge after beat sent its parent, a retry too.
StartsInTime ==
  [][\A w \in 1 .. Workers :
       running[w] = Idle /\ running'[w] # Idle => running'[w].age <= MaxAge]_vars

=============================================================================
