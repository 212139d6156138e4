-------------------------- MODULE DeploymentProofs --------------------------
(***************************************************************************)
(* Proofs about Deployment, for every set of transactions and keys and     *)
(* every number of failures.  The argument is that of the lock: an upgrade *)
(* that has run a migration keeps transactions and other upgrades out      *)
(* until its end, so what it saw when it created the unique constraint is  *)
(* still true when it commits.                                             *)
(***************************************************************************)
EXTENDS Deployment, TLAPS

\* What an upgrade has read is not newer than the schema, and is the schema
\* itself once it has run a migration.
UpgradeConsistent(u) ==
  /\ ~upgrade[u].open => upgrade[u] = NoUpgrade
  /\ upgrade[u].base <= upgrade[u].done
  /\ upgrade[u].base <= version
  /\ upgrade[u].queued => upgrade[u].done < Head
  /\ Holds(u) => version = upgrade[u].base

\* An upgrade that has run a migration is alone, and one that has run the
\* last of them has found no duplicates.
HolderAlone(u) ==
  Holds(u) =>
    /\ \A v \in Upgraders \ {u} : ~Holds(v)
    /\ \A s \in Sessions : session[s] = Idle
    /\ upgrade[u].done = Head => Unique

\* The containers of this release, and transactions, over the schema.
ReleaseConsistent ==
  /\ upgrade["web"].open => web = "down"
  /\ web # "down" \/ workers = "current" => version = Head
  /\ version = 0 => \A s \in Sessions : session[s] = Idle

IInv ==
  /\ TypeOK
  /\ HeadMeansUnique
  /\ \A u \in Upgraders : UpgradeConsistent(u) /\ HolderAlone(u)
  /\ ReleaseConsistent

-----------------------------------------------------------------------------
\* Lemmas on types.

LEMMA NoUpgradeType ==
  NoUpgrade \in Upgrades /\ ~NoUpgrade.open /\ NoUpgrade.done = 0
BY DEF NoUpgrade, Upgrades, Head

\* The records an upgrade goes through.
LEMMA UpgradeSteps ==
  ASSUME NEW r \in Upgrades, NEW v \in 0 .. Head
  PROVE  /\ [open |-> TRUE, base |-> v, done |-> v, queued |-> FALSE] \in Upgrades
         /\ [r EXCEPT !.queued = TRUE] \in Upgrades
         /\ r.done < Head =>
              [r EXCEPT !.done = @ + 1, !.queued = FALSE] \in Upgrades
<1>1. r.done < Head => r.done + 1 \in 0 .. Head
  BY DEF Upgrades, Head
<1>2. QED
  BY <1>1 DEF Upgrades

\* Every step keeps the types.  A migration stays below the head because a
\* queued upgrade is.
LEMMA TypeKeeps ==
  ASSUME TypeOK, \A u \in Upgraders : UpgradeConsistent(u), [Next]_vars
  PROVE  TypeOK'
<1> USE DEF TypeOK
<1>1. ASSUME NEW u \in Upgraders, Begin(u) \/ Upgrading(u)
      PROVE  TypeOK'
  <2>1. CASE Begin(u)
    BY <2>1, UpgradeSteps DEF Begin
  <2>2. CASE Queue(u)
    <3>1. upgrade' = [upgrade EXCEPT ![u] = [upgrade[u] EXCEPT !.queued = TRUE]]
      BY <2>2 DEF Queue
    <3>2. [upgrade[u] EXCEPT !.queued = TRUE] \in Upgrades
      BY UpgradeSteps
    <3>3. QED
      BY <2>2, <3>1, <3>2 DEF Queue
  <2>3. CASE Migrate(u)
    <3>1. upgrade' = [upgrade EXCEPT ![u] =
                        [upgrade[u] EXCEPT !.done = @ + 1, !.queued = FALSE]]
      BY <2>3 DEF Migrate
    <3>2. upgrade[u].done < Head
      BY <2>3 DEF Migrate, MayMigrate, UpgradeConsistent
    <3>3. [upgrade[u] EXCEPT !.done = @ + 1, !.queued = FALSE] \in Upgrades
      BY <3>2, UpgradeSteps
    <3>4. QED
      BY <2>3, <3>1, <3>3 DEF Migrate
  <2>4. CASE MigrateFails(u)
    BY <2>4, NoUpgradeType DEF MigrateFails
  <2>5. CASE CommitUpgrade(u)
    <3>1. version' = Head
      BY <2>5 DEF CommitUpgrade, Commits
    <3>2. QED
      BY <2>5, <3>1, NoUpgradeType DEF CommitUpgrade, Head
  <2>6. QED
    BY <1>1, <2>1, <2>2, <2>3, <2>4, <2>5 DEF Upgrading
<1>2. CASE InitDb \/ StartWorkers \/ StopEarlier \/ ComposeAborts \/ ComposeAgain
  BY <1>2 DEF InitDb, StartWorkers, StopEarlier, ComposeAborts, ComposeAgain, Idle
<1>3. CASE WebFails \/ DatabaseFails
  <2>1. failures' \in 0 .. MaxFailures
    BY <1>3, DeploymentAssumption DEF WebFails, DatabaseFails
  <2>2. QED
    BY <1>3, <2>1, NoUpgradeType DEF WebFails, DatabaseFails, Idle
<1>4. ASSUME NEW s \in Sessions, NEW k \in Keys, Select(s, k)
      PROVE  TypeOK'
  BY <1>4 DEF Select
<1>5. ASSUME NEW s \in Sessions, Insert(s) \/ EndSession(s) \/ Rollback(s)
      PROVE  TypeOK'
  <2>1. session[s].at \in {"absent", "found", "inserted"} => session[s].key \in Keys
    BY DEF Idle
  <2>2. CASE Insert(s)
    <3>1. [session[s] EXCEPT !.at = "inserted"]
            \in [at : {"absent", "found", "inserted"}, key : Keys]
      BY <2>2, <2>1 DEF Insert
    <3>2. QED
      BY <2>2, <3>1 DEF Insert
  <2>3. CASE EndSession(s)
    BY <2>1, <2>3 DEF EndSession, Idle
  <2>4. CASE Rollback(s)
    BY <2>4 DEF Rollback, Idle
  <2>5. QED
    BY <1>5, <2>2, <2>3, <2>4
<1>6. CASE UNCHANGED vars
  BY <1>6 DEF vars
<1>7. QED
  BY <1>1, <1>2, <1>3, <1>4, <1>5, <1>6 DEF Next

-----------------------------------------------------------------------------
\* The upgrades.

\* An upgrade that has migrated is open, and it has read an older schema.
LEMMA HolderBelowHead ==
  ASSUME TypeOK, NEW u \in Upgraders, UpgradeConsistent(u), Holds(u)
  PROVE  upgrade[u].open /\ version < Head /\ upgrade[u].done > 0
BY DEF TypeOK, UpgradeConsistent, Holds, Upgrades, Head

\* What a step must leave alone for the invariant of upgrade u to stay true:
\* its own transaction, and while it holds the lock, versions, rows and
\* transactions of prices; nobody else begins to hold it.
LEMMA UntouchedKeeps ==
  ASSUME TypeOK, TypeOK', NEW u \in Upgraders,
         UpgradeConsistent(u), HolderAlone(u),
         upgrade'[u] = upgrade[u],
         version' = version \/ (version' = Head /\ ~Holds(u)),
         Holds(u) => /\ rows' = rows
                     /\ \A s \in Sessions : session'[s] = Idle
                     /\ \A v \in Upgraders \ {u} : Holds(v)' => Holds(v)
  PROVE  UpgradeConsistent(u)' /\ HolderAlone(u)'
<1>1. Holds(u)' <=> Holds(u)
  BY DEF Holds
<1>2. UpgradeConsistent(u)'
  BY <1>1 DEF UpgradeConsistent, TypeOK, Upgrades, Head
<1>3. HolderAlone(u)'
  BY <1>1 DEF HolderAlone, Unique
<1>4. QED
  BY <1>2, <1>3

\* An upgrade that ends, or has not begun, is consistent.
LEMMA ClosedConsistent ==
  ASSUME TypeOK', NEW u \in Upgraders, upgrade'[u] = NoUpgrade
  PROVE  UpgradeConsistent(u)' /\ HolderAlone(u)' /\ ~Holds(u)'
BY DEF UpgradeConsistent, HolderAlone, Holds, NoUpgrade, TypeOK, Head

\* Steps that write a transaction of prices, or the containers, leave a
\* migration alone: while it holds the lock there is no transaction that
\* could write, and none may read.
LEMMA OtherStepsKeepUpgrades ==
  ASSUME IInv, TypeOK', NEW u \in Upgraders, UNCHANGED <<version, upgrade>>,
         \/ rows' = rows /\ \A s \in Sessions : session'[s] \in {session[s], Idle}
         \/ MayRead /\ rows' = rows
         \/ (\E s \in Sessions : session[s] # Idle)
  PROVE  UpgradeConsistent(u)' /\ HolderAlone(u)'
<1>1. Holds(u) => upgrade[u].done > 0
  BY HolderBelowHead DEF IInv
<1>2. Holds(u) => /\ rows' = rows
                  /\ \A s \in Sessions : session'[s] = Idle
  BY <1>1 DEF IInv, HolderAlone, MayRead
<1>3. \A v \in Upgraders \ {u} : Holds(v)' => Holds(v)
  BY DEF Holds
<1>4. TypeOK /\ UpgradeConsistent(u) /\ HolderAlone(u)
  BY DEF IInv
<1>5. upgrade'[u] = upgrade[u] /\ version' = version
  OBVIOUS
<1>6. Holds(u) => /\ rows' = rows
                  /\ \A s \in Sessions : session'[s] = Idle
                  /\ \A v \in Upgraders \ {u} : Holds(v)' => Holds(v)
  BY <1>2, <1>3
<1>7. QED
  BY <1>4, <1>5, <1>6, UntouchedKeeps

\* A step of one upgrade leaves the other alone, unless it is the other that
\* holds the lock and this one begins to.
LEMMA OtherUpgradeKeeps ==
  ASSUME IInv, TypeOK', NEW u \in Upgraders, NEW v \in Upgraders \ {u},
         upgrade'[v] = upgrade[v], UNCHANGED <<rows, session>>,
         version' = version \/ (version' = Head /\ ~Holds(v)),
         Holds(v) /\ Holds(u)' => Holds(u)
  PROVE  UpgradeConsistent(v)' /\ HolderAlone(v)'
<1>1. TypeOK /\ UpgradeConsistent(v) /\ HolderAlone(v)
  BY DEF IInv
<1>2. \A w \in Upgraders \ {v} : w = u
  BY DEF Upgraders
<1>3. Holds(v) => /\ rows' = rows
                  /\ \A s \in Sessions : session'[s] = Idle
                  /\ \A w \in Upgraders \ {v} : Holds(w)' => Holds(w)
  BY <1>1, <1>2 DEF HolderAlone
<1>4. QED
  BY <1>1, <1>3, UntouchedKeeps

\* Reading the version.
LEMMA BeginKeepsUpgrades ==
  ASSUME IInv, TypeOK', NEW u \in Upgraders, Begin(u)
  PROVE  \A v \in Upgraders : UpgradeConsistent(v)' /\ HolderAlone(v)'
<1> USE DEF IInv, TypeOK, Begin
<1>1. UpgradeConsistent(u)' /\ HolderAlone(u)' /\ ~Holds(u)'
  BY DEF UpgradeConsistent, HolderAlone, Holds, Head
<1>2. ASSUME NEW v \in Upgraders \ {u}
      PROVE  UpgradeConsistent(v)' /\ HolderAlone(v)'
  <2>1. upgrade'[v] = upgrade[v] /\ UNCHANGED <<rows, session>> /\ version' = version
    OBVIOUS
  <2> QED
    BY <1>1, <1>2, <2>1, OtherUpgradeKeeps
<1>3. QED
  BY <1>1, <1>2

\* Sending the next migration.
LEMMA QueueKeepsUpgrades ==
  ASSUME IInv, TypeOK', NEW u \in Upgraders, Queue(u)
  PROVE  \A v \in Upgraders : UpgradeConsistent(v)' /\ HolderAlone(v)'
<1> USE DEF IInv, TypeOK, Queue
<1>1. /\ upgrade'[u] = [upgrade[u] EXCEPT !.queued = TRUE]
      /\ \A v \in Upgraders \ {u} : upgrade'[v] = upgrade[v]
  OBVIOUS
<1>2. upgrade[u] \in Upgrades
  OBVIOUS
<1>3. \A v \in Upgraders : Holds(v)' <=> Holds(v)
  BY <1>1, <1>2 DEF Holds, Upgrades
<1>4. UpgradeConsistent(u)'
  BY <1>1, <1>2, <1>3 DEF UpgradeConsistent, Upgrades, Holds
<1>5. HolderAlone(u)'
  BY <1>1, <1>2, <1>3 DEF HolderAlone, Unique, Upgrades
<1>6. ASSUME NEW v \in Upgraders \ {u}
      PROVE  UpgradeConsistent(v)' /\ HolderAlone(v)'
  BY <1>1, <1>3, OtherUpgradeKeeps
<1>7. QED
  BY <1>4, <1>5, <1>6

\* Running a migration: nobody else holds the lock and no transaction has
\* read the table, which does not exist if this is the first migration.  The
\* constraint is created over unique rows only.
LEMMA MigrateKeepsUpgrades ==
  ASSUME IInv, TypeOK', NEW u \in Upgraders, Migrate(u)
  PROVE  \A v \in Upgraders : UpgradeConsistent(v)' /\ HolderAlone(v)'
<1> USE DEF IInv, TypeOK
<1>1. /\ upgrade'[u] = [upgrade[u] EXCEPT !.done = @ + 1, !.queued = FALSE]
      /\ \A v \in Upgraders \ {u} : upgrade'[v] = upgrade[v]
      /\ UNCHANGED <<version, rows, session>>
  BY DEF Migrate
<1>2. upgrade[u] \in Upgrades /\ UpgradeConsistent(u)
  OBVIOUS
<1>3. \A v \in Upgraders \ {u} : ~Holds(v)
  BY DEF Migrate, MayMigrate
<1>4. \A s \in Sessions : session[s] = Idle
  <2>1. CASE upgrade[u].done > 0
    BY <2>1 DEF Migrate, MayMigrate
  <2>2. CASE upgrade[u].done = 0
    <3>1. version = 0
      BY <1>2, <2>2 DEF Migrate, Fails, UpgradeConsistent, Upgrades, Head
    <3>2. QED
      BY <3>1 DEF ReleaseConsistent
  <2>3. QED
    BY <1>2, <2>1, <2>2 DEF Upgrades, Head
<1>5. UpgradeConsistent(u)'
  <2>1. upgrade[u].queued /\ upgrade[u].open /\ version = upgrade[u].base
    BY <1>2 DEF Migrate, MayMigrate, Fails, UpgradeConsistent, NoUpgrade
  <2>2. QED
    BY <1>1, <1>2, <2>1 DEF UpgradeConsistent, Upgrades, Head
<1>6. HolderAlone(u)'
  <2>1. upgrade'[u].done = Head => Unique'
    BY <1>1, <1>2 DEF Migrate, Fails, Unique, Upgrades, Head
  <2>2. \A v \in Upgraders \ {u} : ~Holds(v)'
    BY <1>1, <1>3 DEF Holds
  <2>3. QED
    BY <1>1, <1>4, <2>1, <2>2 DEF HolderAlone
<1>7. ASSUME NEW v \in Upgraders \ {u}
      PROVE  UpgradeConsistent(v)' /\ HolderAlone(v)'
  BY <1>1, <1>3, OtherUpgradeKeeps
<1>8. QED
  BY <1>5, <1>6, <1>7

\* An upgrade that ends without a change of the schema.
LEMMA AbandonKeepsUpgrades ==
  ASSUME IInv, TypeOK', NEW u \in Upgraders,
         upgrade' = [upgrade EXCEPT ![u] = NoUpgrade],
         UNCHANGED <<version, rows, session>>
  PROVE  \A v \in Upgraders : UpgradeConsistent(v)' /\ HolderAlone(v)'
<1>1. upgrade'[u] = NoUpgrade /\ \A v \in Upgraders \ {u} : upgrade'[v] = upgrade[v]
  BY DEF IInv, TypeOK
<1>2. UpgradeConsistent(u)' /\ HolderAlone(u)' /\ ~Holds(u)'
  BY <1>1, ClosedConsistent
<1>3. ASSUME NEW v \in Upgraders \ {u}
      PROVE  UpgradeConsistent(v)' /\ HolderAlone(v)'
  BY <1>1, <1>2, OtherUpgradeKeeps
<1>4. QED
  BY <1>2, <1>3

\* An upgrade commits.  If it has run no migration, the schema was at the
\* head when it began, and still is.
LEMMA CommitStepOf ==
  ASSUME IInv, NEW u \in Upgraders, CommitUpgrade(u)
  PROVE  /\ version' = Head
         /\ version = Head \/ (Holds(u) /\ upgrade[u].done = Head)
         /\ \A v \in Upgraders \ {u} : ~Holds(v)
<1>1. /\ TypeOK /\ upgrade[u] \in Upgrades
      /\ \A v \in Upgraders : UpgradeConsistent(v) /\ HolderAlone(v)
  BY DEF IInv, TypeOK
<1>2. version' = Head /\ upgrade[u].done = Head /\ upgrade[u].open
  BY DEF CommitUpgrade, Commits
<1>3. version = Head \/ Holds(u)
  BY <1>1, <1>2 DEF TypeOK, UpgradeConsistent, Holds, Upgrades, Head
<1>4. \A v \in Upgraders \ {u} : ~Holds(v)
  <2>1. CASE version = Head
    BY <1>1, <2>1, HolderBelowHead DEF TypeOK, Head
  <2>2. CASE Holds(u)
    BY <1>1, <2>2 DEF HolderAlone
  <2>3. QED
    BY <1>3, <2>1, <2>2
<1>5. QED
  BY <1>2, <1>3, <1>4

LEMMA CommitKeepsUpgrades ==
  ASSUME IInv, TypeOK', NEW u \in Upgraders, CommitUpgrade(u)
  PROVE  \A v \in Upgraders : UpgradeConsistent(v)' /\ HolderAlone(v)'
<1>1. /\ upgrade'[u] = NoUpgrade
      /\ \A v \in Upgraders \ {u} : upgrade'[v] = upgrade[v]
      /\ UNCHANGED <<rows, session>>
  BY DEF IInv, TypeOK, CommitUpgrade
<1>2. UpgradeConsistent(u)' /\ HolderAlone(u)' /\ ~Holds(u)'
  BY <1>1, ClosedConsistent
<1>3. ASSUME NEW v \in Upgraders \ {u}
      PROVE  UpgradeConsistent(v)' /\ HolderAlone(v)'
  BY <1>1, <1>2, CommitStepOf, OtherUpgradeKeeps
<1>4. QED
  BY <1>2, <1>3

\* Steps of transactions and of the containers.
LEMMA SessionKeepsUpgrades ==
  ASSUME IInv, TypeOK', NEW s \in Sessions,
         \/ \E k \in Keys : Select(s, k)
         \/ Insert(s) \/ EndSession(s) \/ Rollback(s)
  PROVE  \A v \in Upgraders : UpgradeConsistent(v)' /\ HolderAlone(v)'
<1>1. CASE \E k \in Keys : Select(s, k)
  BY <1>1, OtherStepsKeepUpgrades DEF Select
<1>2. CASE Insert(s) \/ EndSession(s) \/ Rollback(s)
  <2>1. UNCHANGED <<version, upgrade>> /\ session[s] # Idle
    BY <1>2 DEF Insert, EndSession, Rollback, Idle
  <2>2. QED
    BY <2>1, OtherStepsKeepUpgrades
<1>3. QED
  BY <1>1, <1>2

LEMMA ContainersKeepUpgrades ==
  ASSUME IInv, TypeOK',
         InitDb \/ StartWorkers \/ StopEarlier \/ ComposeAborts \/ ComposeAgain
  PROVE  \A v \in Upgraders : UpgradeConsistent(v)' /\ HolderAlone(v)'
<1>1. /\ UNCHANGED <<version, upgrade, rows>>
      /\ \A s \in Sessions : session'[s] \in {session[s], Idle}
  BY DEF InitDb, StartWorkers, StopEarlier, ComposeAborts, ComposeAgain
<1>2. QED
  BY <1>1, OtherStepsKeepUpgrades

LEMMA UpgradesKeep ==
  ASSUME IInv, TypeOK', [Next]_vars
  PROVE  \A v \in Upgraders : UpgradeConsistent(v)' /\ HolderAlone(v)'
<1>1. ASSUME NEW u \in Upgraders, Begin(u) \/ Upgrading(u)
      PROVE  \A v \in Upgraders : UpgradeConsistent(v)' /\ HolderAlone(v)'
  <2>1. CASE MigrateFails(u)
    BY <2>1, AbandonKeepsUpgrades DEF MigrateFails
  <2>2. QED
    BY <1>1, <2>1, BeginKeepsUpgrades, QueueKeepsUpgrades, MigrateKeepsUpgrades,
       CommitKeepsUpgrades DEF Upgrading
<1>2. CASE WebFails
  BY <1>2, AbandonKeepsUpgrades DEF WebFails, Upgraders
<1>3. CASE DatabaseFails
  BY <1>3, ClosedConsistent DEF DatabaseFails
<1>4. CASE UNCHANGED vars
  BY <1>4, OtherStepsKeepUpgrades DEF vars
<1>5. QED
  BY <1>1, <1>2, <1>3, <1>4, SessionKeepsUpgrades, ContainersKeepUpgrades DEF Next

-----------------------------------------------------------------------------
\* The containers and the rows.

\* The web container leaves "down" only behind a commit, and the workers of
\* the release start behind the web container.
LEMMA ReleaseKeeps ==
  ASSUME IInv, TypeOK', [Next]_vars
  PROVE  ReleaseConsistent'
<1> USE DEF IInv, TypeOK, ReleaseConsistent
<1>1. ASSUME NEW u \in Upgraders, Begin(u) \/ Upgrading(u)
      PROVE  ReleaseConsistent'
  <2>1. CASE Begin(u)
    BY <2>1 DEF Begin, Upgraders
  <2>2. CASE Queue(u) \/ Migrate(u)
    <3>1. upgrade'["web"].open <=> upgrade["web"].open
      BY <2>2 DEF Queue, Migrate, Upgraders, Upgrades
    <3>2. QED
      BY <2>2, <3>1 DEF Queue, Migrate
  <2>3. CASE MigrateFails(u)
    BY <2>3, NoUpgradeType DEF MigrateFails, Upgraders
  <2>4. CASE CommitUpgrade(u)
    <3>1. version' = Head /\ Head # 0
      BY <2>4, CommitStepOf DEF Head
    <3>2. upgrade'["web"].open => web' = "down"
      BY <2>4, NoUpgradeType DEF CommitUpgrade, Upgraders
    <3>3. QED
      BY <3>1, <3>2
  <2>5. QED
    BY <1>1, <2>1, <2>2, <2>3, <2>4 DEF Upgrading
<1>2. CASE InitDb \/ StartWorkers \/ StopEarlier \/ ComposeAborts \/ ComposeAgain
  BY <1>2
     DEF InitDb, StartWorkers, StopEarlier, ComposeAborts, ComposeAgain, WebHealthy
<1>3. CASE WebFails \/ DatabaseFails
  BY <1>3, NoUpgradeType DEF WebFails, DatabaseFails, Upgraders
<1>4. ASSUME NEW s \in Sessions, NEW k \in Keys, Select(s, k)
      PROVE  ReleaseConsistent'
  BY <1>4 DEF Select, MayRead
<1>5. ASSUME NEW s \in Sessions, Insert(s) \/ EndSession(s) \/ Rollback(s)
      PROVE  ReleaseConsistent'
  BY <1>5 DEF Insert, EndSession, Rollback, Idle
<1>6. CASE UNCHANGED vars
  BY <1>6 DEF vars
<1>7. QED
  BY <1>1, <1>2, <1>3, <1>4, <1>5, <1>6 DEF Next

\* Steps that add no row and no inserted one keep the constraint.
LEMMA FewerInsertsKeepHead ==
  ASSUME HeadMeansUnique, UNCHANGED <<version, rows>>,
         \A s \in Sessions : session'[s] = session[s] \/ session'[s].at # "inserted"
  PROVE  HeadMeansUnique'
BY DEF HeadMeansUnique, Unique

\* A transaction inserts, or commits what it has inserted.
LEMMA InsertKeepsHead ==
  ASSUME IInv, NEW s \in Sessions, Insert(s)
  PROVE  HeadMeansUnique'
<1>1. /\ session' = [session EXCEPT ![s] = [session[s] EXCEPT !.at = "inserted"]]
      /\ session[s].at = "absent" /\ UNCHANGED <<version, rows>>
  BY DEF Insert
<1>2. session \in [Sessions -> {Idle} \cup
                     [at : {"absent", "found", "inserted"}, key : Keys]]
  BY DEF IInv, TypeOK, Idle
<1>3. session[s] \in [at : {"absent", "found", "inserted"}, key : Keys]
  BY <1>1, <1>2 DEF Idle
<1>4. /\ session'[s] = [at |-> "inserted", key |-> session[s].key]
      /\ \A t \in Sessions \ {s} : session'[t] = session[t]
  BY <1>1, <1>2, <1>3
<1>5. version = Head =>
        /\ Unique
        /\ rows[session[s].key] = 0
        /\ \A t \in Sessions \ {s} : session[t] # session'[s]
  <2>1. [session[s] EXCEPT !.at = "inserted"] = session'[s]
    BY <1>1, <1>2
  <2>2. rows[session[s].key] \in Nat
    BY <1>3 DEF IInv, TypeOK
  <2>3. QED
    BY <2>1, <2>2 DEF Insert, Taken, IInv, HeadMeansUnique
<1>6. QED
  BY <1>1, <1>4, <1>5 DEF HeadMeansUnique, Unique, IInv

LEMMA EndSessionKeepsHead ==
  ASSUME IInv, NEW s \in Sessions, EndSession(s)
  PROVE  HeadMeansUnique'
<1>1. /\ session'[s] = Idle
      /\ \A t \in Sessions \ {s} : session'[t] = session[t]
      /\ version' = version
  BY DEF EndSession, IInv, TypeOK
<1>2. CASE session[s].at = "found"
  BY <1>1, <1>2, FewerInsertsKeepHead DEF EndSession, Idle, IInv
<1>3. CASE session[s].at = "inserted"
  <2> DEFINE k == session[s].key
  <2>1. k \in Keys /\ session[s] = [at |-> "inserted", key |-> k]
    BY <1>3 DEF IInv, TypeOK
  <2>2. rows' = [rows EXCEPT ![k] = @ + 1] /\ rows \in [Keys -> Nat]
    BY <1>3 DEF EndSession, IInv, TypeOK
  <2>3. ASSUME version = Head
        PROVE  /\ Unique'
               /\ \A t \in Sessions : session'[t].at = "inserted" =>
                    /\ rows'[session'[t].key] = 0
                    /\ \A w \in Sessions \ {t} : session'[w] # session'[t]
    <3>1. rows[k] = 0 /\ Unique
      BY <1>3, <2>3 DEF IInv, HeadMeansUnique
    <3>2. Unique'
      BY <2>1, <2>2, <3>1 DEF Unique
    <3>3. ASSUME NEW t \in Sessions, session'[t].at = "inserted"
          PROVE  /\ rows'[session'[t].key] = 0
                 /\ \A w \in Sessions \ {t} : session'[w] # session'[t]
      <4>1. t # s /\ session'[t] = session[t]
        BY <1>1, <3>3 DEF Idle
      <4>2. session[t] # session[s] /\ rows[session[t].key] = 0
        BY <2>3, <3>3, <4>1 DEF IInv, HeadMeansUnique
      <4>3. session[t].key \in Keys /\ session[t].key # k
        BY <2>1, <3>3, <4>1, <4>2 DEF IInv, TypeOK
      <4>4. \A w \in Sessions \ {t} : session'[w] # session[t]
        BY <1>1, <2>3, <3>3, <4>1 DEF IInv, HeadMeansUnique, Idle
      <4>5. QED
        BY <2>2, <4>1, <4>2, <4>3, <4>4
    <3>4. QED
      BY <3>2, <3>3
  <2>4. QED
    BY <1>1, <2>3 DEF HeadMeansUnique
<1>4. QED
  BY <1>2, <1>3 DEF EndSession

\* The commit of an upgrade: if it changes the schema there is no transaction
\* of prices, and the rows are still as unique as its last migration saw them.
LEMMA CommitKeepsHead ==
  ASSUME IInv, NEW u \in Upgraders, CommitUpgrade(u)
  PROVE  HeadMeansUnique'
<1>1. UNCHANGED <<rows, session>>
  BY DEF CommitUpgrade
<1>2. CASE version = Head
  BY <1>1, <1>2, CommitStepOf, FewerInsertsKeepHead DEF IInv
<1>3. CASE Holds(u) /\ upgrade[u].done = Head
  BY <1>1, <1>3 DEF IInv, HolderAlone, HeadMeansUnique, Unique, Idle
<1>4. QED
  BY <1>2, <1>3, CommitStepOf

LEMMA HeadKeeps ==
  ASSUME IInv, [Next]_vars
  PROVE  HeadMeansUnique'
<1> USE DEF IInv
<1>1. ASSUME NEW u \in Upgraders, Begin(u) \/ Queue(u) \/ Migrate(u) \/ MigrateFails(u)
      PROVE  HeadMeansUnique'
  BY <1>1, FewerInsertsKeepHead DEF Begin, Queue, Migrate, MigrateFails
<1>2. CASE InitDb \/ StartWorkers \/ StopEarlier \/ ComposeAborts \/ ComposeAgain
           \/ WebFails \/ DatabaseFails
  BY <1>2, FewerInsertsKeepHead
     DEF InitDb, StartWorkers, StopEarlier, ComposeAborts, ComposeAgain, WebFails,
         DatabaseFails, Idle
<1>3. ASSUME NEW s \in Sessions, NEW k \in Keys, Select(s, k)
      PROVE  HeadMeansUnique'
  BY <1>3, FewerInsertsKeepHead DEF Select, TypeOK
<1>4. ASSUME NEW s \in Sessions, Rollback(s)
      PROVE  HeadMeansUnique'
  BY <1>4, FewerInsertsKeepHead DEF Rollback, TypeOK, Idle
<1>5. CASE UNCHANGED vars
  BY <1>5, FewerInsertsKeepHead DEF vars
<1>6. QED
  BY <1>1, <1>2, <1>3, <1>4, <1>5, InsertKeepsHead, EndSessionKeepsHead,
     CommitKeepsHead DEF Next, Upgrading

-----------------------------------------------------------------------------
LEMMA InitHolds == Init => IInv
<1> SUFFICES ASSUME Init
             PROVE  IInv
  OBVIOUS
<1>1. TypeOK
  BY DeploymentAssumption, NoUpgradeType DEF Init, TypeOK, Idle
<1>2. HeadMeansUnique
  BY DEF Init, HeadMeansUnique, Unique, Idle
<1>3. ASSUME NEW u \in Upgraders
      PROVE  UpgradeConsistent(u) /\ HolderAlone(u)
  BY <1>1 DEF Init, UpgradeConsistent, HolderAlone, Holds, NoUpgrade, TypeOK, Head
<1>4. ReleaseConsistent
  BY DEF Init, ReleaseConsistent, NoUpgrade, Upgraders
<1>5. QED
  BY <1>1, <1>2, <1>3, <1>4 DEF IInv

LEMMA NextKeeps == IInv /\ [Next]_vars => IInv'
<1> SUFFICES ASSUME IInv, [Next]_vars
             PROVE  IInv'
  OBVIOUS
<1>1. TypeOK'
  BY TypeKeeps DEF IInv
<1>2. QED
  BY <1>1, UpgradesKeep, ReleaseKeeps, HeadKeeps DEF IInv

LEMMA InvariantHolds == Spec => []IInv
BY InitHolds, NextKeeps, PTL DEF Spec

\* The variables keep their types: an upgrade runs each migration once and
\* stops at the head, whoever upgrades besides it and whatever fails.
THEOREM TypeCorrect == Spec => []TypeOK
<1>1. IInv => TypeOK
  BY DEF IInv
<1>2. QED
  BY <1>1, InvariantHolds, PTL

\* Behind the unique constraint (20260609_0003) there are no duplicates, and
\* none come from the transactions that were open when it was created.
THEOREM HeadStaysUnique == Spec => []HeadMeansUnique
<1>1. IInv => HeadMeansUnique
  BY DEF IInv
<1>2. QED
  BY <1>1, InvariantHolds, PTL

\* Every step of the deployment is a step of the abstract upgrade.
LEMMA StepImplements ==
  ASSUME IInv, IInv', [Next]_vars
  PROVE  Schema!Next \/ UNCHANGED Schema!vars
<1> USE DEF Schema!Next, Schema!vars
<1>1. ASSUME NEW u \in Upgraders, CommitUpgrade(u)
      PROVE  Schema!Next \/ UNCHANGED Schema!vars
  <2>1. UNCHANGED <<rows, workers>> /\ version' = Head
    BY <1>1, CommitStepOf DEF CommitUpgrade
  <2>2. (web' = "serving") = (web = "serving")
    BY <1>1 DEF CommitUpgrade, Commits, IInv, ReleaseConsistent
  <2>3. CASE version = Head
    BY <2>1, <2>2, <2>3
  <2>4. CASE version # Head
    <3>1. Unique /\ version < Head
      BY <1>1, <2>4, CommitStepOf DEF IInv, HolderAlone, TypeOK, Head
    <3>2. Schema!Upgrade
      BY <2>1, <2>2, <3>1 DEF Schema!Upgrade, Schema!Unique, Unique
    <3>3. QED
      BY <3>2
  <2>5. QED
    BY <2>3, <2>4
<1>2. ASSUME UNCHANGED <<version, rows>>,
             version = Head \/ ((web' = "serving" => web = "serving")
                                 /\ (workers' = "current" => workers = "current"))
      PROVE  Schema!Next
  BY <1>2 DEF Schema!Turn
<1>3. CASE InitDb \/ StartWorkers \/ StopEarlier \/ ComposeAborts \/ ComposeAgain
           \/ WebFails \/ DatabaseFails
  <2>1. version = Head \/ ((web' = "serving" => web = "serving")
                             /\ (workers' = "current" => workers = "current"))
    BY <1>3
       DEF InitDb, StartWorkers, StopEarlier, ComposeAborts, ComposeAgain,
           WebFails, DatabaseFails, WebHealthy, IInv, ReleaseConsistent
  <2>2. UNCHANGED <<version, rows>>
    BY <1>3
       DEF InitDb, StartWorkers, StopEarlier, ComposeAborts, ComposeAgain,
           WebFails, DatabaseFails
  <2>3. QED
    BY <1>2, <2>1, <2>2
<1>4. ASSUME NEW u \in Upgraders, Begin(u) \/ Queue(u) \/ Migrate(u) \/ MigrateFails(u)
      PROVE  UNCHANGED Schema!vars
  BY <1>4 DEF Begin, Queue, Migrate, MigrateFails
<1>5. ASSUME NEW s \in Sessions, EndSession(s)
      PROVE  Schema!Next \/ UNCHANGED Schema!vars
  <2>1. UNCHANGED <<version, web, workers>>
    BY <1>5 DEF EndSession
  <2>2. CASE session[s].at = "found"
    BY <1>5, <2>1, <2>2 DEF EndSession
  <2>3. CASE session[s].at = "inserted"
    <3> DEFINE k == session[s].key
    <3>1. k \in Keys /\ session[s] # Idle
      BY <2>3 DEF IInv, TypeOK, Idle
    <3>2. version > 0 /\ (version = Head => rows[k] = 0)
      BY <2>3, <3>1 DEF IInv, TypeOK, HeadMeansUnique, ReleaseConsistent, Head
    <3>3. rows' = [rows EXCEPT ![k] = @ + 1]
      BY <1>5, <2>3 DEF EndSession
    <3>4. Schema!Store(k)
      BY <2>1, <3>2, <3>3 DEF Schema!Store
    <3>5. QED
      BY <3>1, <3>4
  <2>4. QED
    BY <1>5, <2>2, <2>3 DEF EndSession
<1>6. ASSUME NEW s \in Sessions,
             Insert(s) \/ Rollback(s) \/ \E k \in Keys : Select(s, k)
      PROVE  UNCHANGED Schema!vars
  BY <1>6 DEF Insert, Rollback, Select
<1>7. CASE UNCHANGED vars
  BY <1>7 DEF vars
<1>8. QED
  BY <1>1, <1>3, <1>4, <1>5, <1>6, <1>7 DEF Next, Upgrading

\* The deployment implements the abstract upgrade: the schema goes to the head
\* in one step and over unique rows, rows are stored one at a time, and the
\* API and the workers of the release run on the head only.
THEOREM ImplementsUpgrade == Spec => UpgradesWhole
<1>1. Init => Schema!Init
  BY DEF Init, Schema!Init, Unique, Schema!Unique
<1>2. IInv /\ IInv' /\ [Next]_vars => [Schema!Next]_(Schema!vars)
  BY StepImplements
<1>3. QED
  BY <1>1, <1>2, InvariantHolds, PTL DEF Spec, UpgradesWhole, Schema!Spec

=============================================================================
