----------------------------- MODULE Deployment -----------------------------
(***************************************************************************)
(* `docker compose up` over a database an earlier release has used: the    *)
(* web container upgrades the schema (alembic) and then serves the API,    *)
(* the workers wait for it to be healthy, and transactions of save_price   *)
(* go on meanwhile.  An operator may run the upgrade from a shell as well. *)
(* All migrations of an upgrade run in one transaction (alembic/env.py).   *)
(*                                                                         *)
(* Docker, Alembic and PostgreSQL are modelled from how the code uses      *)
(* them: containers are restarted whatever they depend on; a migration of  *)
(* the table waits for the transactions that have read it, those that have *)
(* not yet read it queue behind the migration; a migration whose objects   *)
(* another upgrade has committed meanwhile fails.                          *)
(***************************************************************************)
EXTENDS Integers

CONSTANTS
  Sessions,    \* transactions that write prices
  Keys,
  MaxFailures  \* processes that die, bounded so that a last one exists

ASSUME DeploymentAssumption == MaxFailures \in Nat

Head == 3  \* init prices, composite index, unique constraint

Upgraders == {"web", "shell"}

VARIABLES
  version,   \* committed revision of the schema
  rows,      \* key -> committed rows
  upgrade,   \* upgrader -> its transaction
  web,       \* "down", "starting" (lifespan) or "serving"
  compose,   \* "waiting" for a healthy web, "started" the workers, "aborted"
  workers,   \* "none", those of the "earlier" release, or the "current" ones
  session,   \* session -> what its transaction has done
  failures

vars == <<version, rows, upgrade, web, compose, workers, session, failures>>

\* base: the version it has read; done: the last migration it has run;
\* queued: it waits for the lock of the table.
Upgrades ==
  [open : BOOLEAN, base : 0 .. Head, done : 0 .. Head, queued : BOOLEAN]

NoUpgrade == [open |-> FALSE, base |-> 0, done |-> 0, queued |-> FALSE]

TypeOK ==
  /\ version \in 0 .. Head
  /\ rows \in [Keys -> Nat]
  /\ upgrade \in [Upgraders -> Upgrades]
  /\ web \in {"down", "starting", "serving"}
  /\ compose \in {"waiting", "started", "aborted"}
  /\ workers \in {"none", "earlier", "current"}
  /\ session \in [Sessions -> {[at |-> "idle"]} \cup
                    [at : {"absent", "found", "inserted"}, key : Keys]]
  /\ failures \in 0 .. MaxFailures

Idle == [at |-> "idle"]

Unique == \A k \in Keys : rows[k] <= 1

\* Two transactions of the earlier release may have inserted one key, as
\* long as nothing in the schema forbids it.
Init ==
  /\ version \in 0 .. Head
  /\ rows \in [Keys -> 0 .. 2]
  /\ version = 0 => \A k \in Keys : rows[k] = 0
  /\ version = Head => Unique
  /\ upgrade = [u \in Upgraders |-> NoUpgrade]
  /\ web = "down"
  /\ compose = "waiting"
  /\ workers \in IF version = 0 THEN {"none"} ELSE {"none", "earlier"}
  /\ session = [s \in Sessions |-> Idle]
  /\ failures = 0

-----------------------------------------------------------------------------
\* alembic upgrade head.

Holds(u) == upgrade[u].open /\ upgrade[u].done > upgrade[u].base

BeginOnce(u) ==  \* mutant: the container has no restart policy
  /\ ~upgrade[u].open /\ (u = "web" => web = "down" /\ failures = 0)
  /\ upgrade' = [upgrade EXCEPT ![u] =
       [open |-> TRUE, base |-> version, done |-> version, queued |-> FALSE]]
  /\ UNCHANGED <<version, rows, web, compose, workers, session, failures>>

\* The transaction has read the version.  The web container does this
\* whenever it is started.
Begin(u) ==
  /\ ~upgrade[u].open /\ (u = "web" => web = "down")
  /\ upgrade' = [upgrade EXCEPT ![u] =
       [open |-> TRUE, base |-> version, done |-> version, queued |-> FALSE]]
  /\ UNCHANGED <<version, rows, web, compose, workers, session, failures>>

QueueAnother(u) ==  \* mutant: one migration too many
  /\ upgrade[u].open /\ ~upgrade[u].queued
  /\ upgrade' = [upgrade EXCEPT ![u].queued = TRUE]
  /\ UNCHANGED <<version, rows, web, compose, workers, session, failures>>

\* The next migration is sent to the server.
Queue(u) ==
  /\ upgrade[u].open /\ ~upgrade[u].queued /\ upgrade[u].done < Head
  /\ upgrade' = [upgrade EXCEPT ![u].queued = TRUE]
  /\ UNCHANGED <<version, rows, web, compose, workers, session, failures>>

MayMigrateAtOnce(u) ==  \* mutant: the index is built concurrently
  upgrade[u].queued /\ \A v \in Upgraders \ {u} : ~Holds(v)

\* It has the lock of the table, if there is a table to lock.
MayMigrate(u) ==
  /\ upgrade[u].queued
  /\ \A v \in Upgraders \ {u} : ~Holds(v)
  /\ upgrade[u].done > 0 => \A s \in Sessions : session[s] = Idle

\* Somebody else has created or dropped the same objects, or there are
\* duplicates under the unique constraint.
Fails(u) ==
  \/ version # upgrade[u].base
  \/ upgrade[u].done + 1 = Head /\ ~Unique

Migrate(u) ==
  /\ MayMigrate(u) /\ ~Fails(u)
  /\ upgrade' = [upgrade EXCEPT ![u].done = @ + 1, ![u].queued = FALSE]
  /\ UNCHANGED <<version, rows, web, compose, workers, session, failures>>

\* Rolled back; the container exits and is started again.
MigrateFails(u) ==
  /\ MayMigrate(u) /\ Fails(u)
  /\ upgrade' = [upgrade EXCEPT ![u] = NoUpgrade]
  /\ UNCHANGED <<version, rows, web, compose, workers, session, failures>>

Commits(u) == upgrade[u].open /\ upgrade[u].done = Head

CommitUpgrade(u) ==
  /\ Commits(u)
  /\ version' = upgrade[u].done
  /\ upgrade' = [upgrade EXCEPT ![u] = NoUpgrade]
  /\ web' = IF u = "web" THEN "starting" ELSE web
  /\ UNCHANGED <<rows, compose, workers, session, failures>>

-----------------------------------------------------------------------------
\* The containers.

\* lifespan: the database answers, and the API accepts requests.
InitDb ==
  /\ web = "starting"
  /\ web' = "serving"
  /\ UNCHANGED <<version, rows, upgrade, compose, workers, session, failures>>

WebStarted ==  \* mutant: condition service_started
  web # "down" \/ upgrade["web"].open

WebHealthy == web = "serving"

\* The workers of the earlier release, if any, are replaced.
StartWorkers ==
  /\ compose = "waiting" /\ WebHealthy
  /\ compose' = "started" /\ workers' = "current"
  /\ session' = [s \in Sessions |-> Idle]
  /\ UNCHANGED <<version, rows, upgrade, web, failures>>

StopEarlier ==
  /\ compose = "waiting" /\ workers = "earlier"
  /\ workers' = "none"
  /\ session' = [s \in Sessions |-> Idle]
  /\ UNCHANGED <<version, rows, upgrade, web, compose, failures>>

\* The health check has failed five times, while a migration waits for
\* a lock or fails; the operator may try again.
ComposeAborts ==
  /\ compose = "waiting" /\ ~WebHealthy
  /\ compose' = "aborted"
  /\ UNCHANGED <<version, rows, upgrade, web, workers, session, failures>>

ComposeAgain ==
  /\ compose = "aborted"
  /\ compose' = "waiting"
  /\ UNCHANGED <<version, rows, upgrade, web, workers, session, failures>>

\* The web container dies, or the database does not answer its lifespan.
WebFails ==
  /\ failures < MaxFailures /\ failures' = failures + 1
  /\ web' = "down"
  /\ upgrade' = [upgrade EXCEPT !["web"] = NoUpgrade]
  /\ UNCHANGED <<version, rows, compose, workers, session>>

DatabaseFails ==
  /\ failures < MaxFailures /\ failures' = failures + 1
  /\ upgrade' = [u \in Upgraders |-> NoUpgrade]
  /\ session' = [s \in Sessions |-> Idle]
  /\ UNCHANGED <<version, rows, web, compose, workers>>

-----------------------------------------------------------------------------
\* save_price in a transaction of a worker.

\* A table lock is asked for behind the migrations that wait for it.
MayRead ==
  /\ workers # "none" /\ version > 0
  /\ \A u \in Upgraders : upgrade[u].done > 0 => ~upgrade[u].queued /\ ~Holds(u)

\* With two rows scalar_one_or_none raises, and the transaction ends.
Select(s, k) ==
  /\ session[s] = Idle /\ MayRead /\ rows[k] <= 1
  /\ session' = [session EXCEPT ![s] =
       [at |-> IF rows[k] = 0 THEN "absent" ELSE "found", key |-> k]]
  /\ UNCHANGED <<version, rows, upgrade, web, compose, workers, failures>>

Taken(s) == version = Head /\ rows[session[s].key] > 0

Insert(s) ==
  /\ session[s].at = "absent" /\ ~Taken(s)
  /\ version = Head =>
       \A t \in Sessions \ {s} : session[t] # [session[s] EXCEPT !.at = "inserted"]
  /\ session' = [session EXCEPT ![s].at = "inserted"]
  /\ UNCHANGED <<version, rows, upgrade, web, compose, workers, failures>>

\* COMMIT; an update of a row that was found changes no row count.
EndSession(s) ==
  /\ session[s].at \in {"found", "inserted"}
  /\ rows' = IF session[s].at = "found" THEN rows
             ELSE [rows EXCEPT ![session[s].key] = @ + 1]
  /\ session' = [session EXCEPT ![s] = Idle]
  /\ UNCHANGED <<version, upgrade, web, compose, workers, failures>>

\* The unique constraint, an error, or the end of its process.
Rollback(s) ==
  /\ session[s] # Idle
  /\ session' = [session EXCEPT ![s] = Idle]
  /\ UNCHANGED <<version, rows, upgrade, web, compose, workers, failures>>

-----------------------------------------------------------------------------
Upgrading(u) == Queue(u) \/ Migrate(u) \/ MigrateFails(u) \/ CommitUpgrade(u)

Next ==
  \/ \E u \in Upgraders : Begin(u) \/ Upgrading(u)
  \/ InitDb \/ StartWorkers \/ StopEarlier
  \/ ComposeAborts \/ ComposeAgain \/ WebFails \/ DatabaseFails
  \/ \E s \in Sessions, k \in Keys : Select(s, k)
  \/ \E s \in Sessions : Insert(s) \/ EndSession(s) \/ Rollback(s)

Spec == Init /\ [][Next]_vars

\* Docker starts the container again, an upgrade and a transaction go on.
FairSpec ==
  /\ Spec
  /\ WF_vars(Begin("web")) /\ WF_vars(InitDb)
  /\ \A u \in Upgraders : WF_vars(Upgrading(u))
  /\ \A s \in Sessions : WF_vars(EndSession(s) \/ Rollback(s))

-----------------------------------------------------------------------------
\* Whoever has created the unique constraint, no key has two rows behind it,
\* those of transactions that were open at the time included.
HeadMeansUnique ==
  version = Head =>
    /\ Unique
    /\ \A s \in Sessions : session[s].at = "inserted" =>
         /\ rows[session[s].key] = 0
         /\ \A t \in Sessions \ {s} : session[t] # session[s]

\* The refinement: one step from the old schema to the head, over unique
\* rows; neither the API nor a worker of this release meets another one,
\* whichever containers have been restarted.
Schema == INSTANCE SchemaUpgrade WITH
  serving <- web = "serving",
  working <- workers = "current"

UpgradesWhole == Schema!Spec

\* Without duplicates the API is up in the end: an upgrade and the
\* transactions of a worker do not wait for each other, and one that loses
\* the race against the shell finds nothing left to do.
UpgradeEnds == []Unique => <>[](web = "serving")

=============================================================================
