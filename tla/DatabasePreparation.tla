------------------------- MODULE DatabasePreparation -------------------------
(***************************************************************************)
(* Programs of several releases that open one database at once (drfed       *)
(* database-runtime.ts): each inspects its migration history, or takes the  *)
(* migration lock, applies what its release adds, and inspects again        *)
(* (models migration-session.ts, migration-state.ts, migration-snapshot.ts, *)
(* migration-manifest.ts, pglite-preparation.ts).                           *)
(*                                                                         *)
(* A migration is a number that stands for its timestamp and name; a row of *)
(* the history and a file of an installation also say whether the SQL is    *)
(* what the manifest promises.  PostgreSQL's backends and Drizzle's         *)
(* migrator are external.                                                   *)
(***************************************************************************)
EXTENDS Integers, FiniteSets, Sequences, SequencesExt

CONSTANTS
  Preparers, \* programs that open the database
  Manifest,  \* the migrations of each one's release, in order
  Policy,    \* "apply" or "inspect"
  Stores,    \* the databases it may be: "postgres", "pglite"
  Nobody     \* no holder of the lock

\* parseMigrationManifest() accepts increasing timestamps alone.
ASSUME PreparationAssumption ==
  /\ Nobody \notin Preparers
  /\ Manifest \in [Preparers -> Seq(Nat)]
  /\ \A p \in Preparers : \A i, j \in DOMAIN Manifest[p] :
       i < j => Manifest[p][i] < Manifest[p][j]
  /\ Policy \in [Preparers -> {"apply", "inspect"}]
  /\ Stores \subseteq {"postgres", "pglite"}

VARIABLES
  kind,      \* the database
  history,   \* rows of the history table, by date
  format,    \* "current" or "legacy", the history table's
  tables,    \* whether tables of the schema exist
  installed, \* whether each program's SQL files are as released
  holder,    \* whose backend, or turn in the queue, holds the migration lock
  backend,   \* each connection's backend
  prep,      \* where each preparation is
  toApply,   \* the rows its migration inserts
  outcome    \* what it returned

prepVars == <<kind, history, format, tables, installed, holder, backend, prep,
              toApply, outcome>>

MigrationRow(m, intact) == [name |-> m, intact |-> intact]
Rows(manifest) == [i \in DOMAIN manifest |-> MigrationRow(manifest[i], TRUE)]

PrepInit ==
  /\ kind \in Stores
  /\ \E p \in Preparers : history \in Prefixes(Rows(Manifest[p]))
  /\ format \in {"current", "legacy"}
  /\ tables \in BOOLEAN
  /\ history # <<>> => tables
  /\ history = <<>> => format = "current"
  /\ installed = [p \in Preparers |-> TRUE]
  /\ holder = Nobody
  /\ backend = [p \in Preparers |-> "none"]
  /\ prep = [p \in Preparers |-> IF Policy[p] = "apply" /\ kind = "pglite"
                                  THEN "acquire" ELSE "verify"]
  /\ toApply = [p \in Preparers |-> <<>>]
  /\ outcome = [p \in Preparers |-> "none"]

-----------------------------------------------------------------------------
(* migration-state.ts                                                      *)

\* A legacy row has no name, but its date; the numbers stand for both.
Agrees(manifest, rows, i) == rows[i].name = manifest[i]

\* In the place the manifest gives it; what follows the manifest's last
\* migration is a newer release's.
Fits(manifest, rows, i) ==
  /\ i > 1 => rows[i].name > rows[i - 1].name
  /\ IF i \in DOMAIN manifest THEN Agrees(manifest, rows, i)
     ELSE Len(manifest) > 0 /\ rows[i].name > manifest[Len(manifest)]

\* The first row that does not fit or is not as released decides.
ClassifyMigrationHistory(manifest, rows, fmt) ==
  LET odd == {i \in DOMAIN rows :
                \/ ~Fits(manifest, rows, i)
                \/ i \in DOMAIN manifest /\ ~rows[i].intact}
      first == CHOOSE i \in odd : \A j \in odd : i <= j
  IN IF odd # {} THEN IF Fits(manifest, rows, first) THEN "modified" ELSE "diverged"
     ELSE IF Len(rows) > Len(manifest) THEN "newer"
     ELSE IF fmt = "legacy" THEN "upgrade-required"
     ELSE IF rows = <<>> THEN "uninitialized"
     ELSE IF Len(rows) = Len(manifest) THEN "ready"
     ELSE "pending"

InspectMigrationState(p) ==
  IF history = <<>> /\ tables THEN "untracked-schema"
  ELSE ClassifyMigrationHistory(Manifest[p], history, format)

Compatible == {"ready", "pending", "uninitialized", "upgrade-required"}

-----------------------------------------------------------------------------
(* migration-session.ts, pglite-preparation.ts                             *)

PrepGoes(p, point) == prep' = [prep EXCEPT ![p] = point]
PrepEnds(p, result) == outcome' = [outcome EXCEPT ![p] = result]

\* The result is decided; the session is still to be closed.
PrepCloses(p, result) == PrepGoes(p, "close") /\ PrepEnds(p, result)

\* The files are hashed: before anything is opened, or in a turn of the queue.
VerifyMigrationManifest(p) ==
  /\ prep[p] = "verify"
  /\ installed[p]
  /\ PrepGoes(p, IF Policy[p] = "inspect" THEN "inspect"
                 ELSE IF kind = "pglite" THEN "before" ELSE "acquire")
  /\ UNCHANGED <<kind, history, format, tables, installed, holder, backend,
                 toApply, outcome>>

\* The files are not those of the manifest, or the call is aborted.
VerificationFails(p) ==
  /\ prep[p] \in {"verify", "inspect"}
  /\ IF holder = p THEN PrepCloses(p, "failed")
     ELSE PrepGoes(p, "over") /\ PrepEnds(p, "failed")
  /\ UNCHANGED <<kind, history, format, tables, installed, holder, backend,
                 toApply>>

\* The inspection alone: its state is the caller's to judge.
InspectHistory(p) ==
  /\ prep[p] = "inspect"
  /\ PrepGoes(p, "over")
  /\ PrepEnds(p, IF InspectMigrationState(p) = "ready" THEN "ready" ELSE "failed")
  /\ UNCHANGED <<kind, history, format, tables, installed, holder, backend,
                 toApply>>

\* The lock is tried again and again; preparations of one PGlite client queue.
Acquire(p) ==
  /\ prep[p] = "acquire"
  /\ holder = Nobody
  /\ holder' = p
  /\ backend' = [backend EXCEPT ![p] = "idle"]
  /\ PrepGoes(p, IF kind = "pglite" THEN "verify" ELSE "before")
  /\ UNCHANGED <<kind, history, format, tables, installed, toApply, outcome>>

\* Mutant: any history that lacks a migration of the manifest is migrated.
InspectLoosely(p) ==
  /\ prep[p] = "before"
  /\ IF InspectMigrationState(p) = "ready"
     THEN PrepCloses(p, "ready")
     ELSE PrepGoes(p, "snapshot") /\ UNCHANGED outcome
  /\ UNCHANGED <<kind, history, format, tables, installed, holder, backend,
                 toApply>>

InspectBefore(p) ==
  /\ prep[p] = "before"
  /\ LET state == InspectMigrationState(p) IN
       IF state = "ready" THEN PrepCloses(p, "ready")
       ELSE IF state \notin Compatible THEN PrepCloses(p, "failed")
       ELSE PrepGoes(p, "snapshot") /\ UNCHANGED outcome
  /\ UNCHANGED <<kind, history, format, tables, installed, holder, backend,
                 toApply>>

\* withVerifiedMigrationSnapshot(): the bytes that are hashed again are those
\* that are copied.
VerifySnapshot(p) ==
  /\ prep[p] = "snapshot"
  /\ IF installed[p]
     THEN /\ toApply' = [toApply EXCEPT ![p] = Rows(Manifest[p])]
          /\ PrepGoes(p, "begin")
          /\ UNCHANGED outcome
     ELSE PrepCloses(p, "failed") /\ UNCHANGED toApply
  /\ UNCHANGED <<kind, history, format, tables, installed, holder, backend>>

Applied == {history[i].name : i \in DOMAIN history}

\* The others, in their order.
NotApplied(rows) ==
  LET rest == {i \in DOMAIN rows : rows[i].name \notin Applied}
  IN [n \in 1 .. Cardinality(rest) |->
        rows[CHOOSE i \in rest : Cardinality({j \in rest : j <= i}) = n]]

\* Drizzle upgrades the table's metadata and reads what is applied, then runs
\* the rest in one transaction.
BeginMigration(p) ==
  /\ prep[p] = "begin"
  /\ format' = "current"
  /\ toApply' = [toApply EXCEPT ![p] = NotApplied(@)]
  /\ backend' = [backend EXCEPT ![p] = "migrating"]
  /\ PrepGoes(p, "migrate")
  /\ UNCHANGED <<kind, history, tables, installed, holder, outcome>>

SendCommit(p) ==
  /\ prep[p] = "migrate"
  /\ backend[p] = "migrating"
  /\ backend' = [backend EXCEPT ![p] = "committing"]
  /\ UNCHANGED <<kind, history, format, tables, installed, holder, prep,
                 toApply, outcome>>

\* A commit under way is carried out, whatever became of its client.
CommitMigration(p) ==
  /\ backend[p] = "committing"
  /\ history' = history \o toApply[p]
  /\ tables' = (tables \/ toApply[p] # <<>>)
  /\ backend' = [backend EXCEPT ![p] = "idle"]
  /\ IF prep[p] = "migrate" THEN PrepGoes(p, "after") ELSE UNCHANGED prep
  /\ UNCHANGED <<kind, format, installed, holder, toApply, outcome>>

\* SQL that fails rolls the migrations back.
MigrationFails(p) ==
  /\ prep[p] = "migrate"
  /\ backend[p] = "migrating"
  /\ backend' = [backend EXCEPT ![p] = "idle"]
  /\ PrepCloses(p, "failed")
  /\ UNCHANGED <<kind, history, format, tables, installed, holder, toApply>>

InspectAfter(p) ==
  /\ prep[p] = "after"
  /\ PrepCloses(p, IF InspectMigrationState(p) = "ready" THEN "ready" ELSE "failed")
  /\ UNCHANGED <<kind, history, format, tables, installed, holder, backend,
                 toApply>>

\* Mutant: the preparation ends with the lock.
CloseUnlocked(p) ==
  /\ prep[p] = "close"
  /\ PrepGoes(p, "over")
  /\ UNCHANGED <<kind, history, format, tables, installed, holder, backend,
                 toApply, outcome>>

\* The lock is given up and the connection ended.
CloseSession(p) ==
  /\ prep[p] = "close"
  /\ holder' = Nobody
  /\ backend' = [backend EXCEPT ![p] = "none"]
  /\ PrepGoes(p, "over")
  /\ UNCHANGED <<kind, history, format, tables, installed, toApply, outcome>>

Boundaries == {"acquire", "before", "snapshot", "begin", "after"}

\* A deadline, an abort or a lost connection destroys the stream: the call
\* fails, and its backend finds out later.
Interrupt(p) ==
  /\ kind = "postgres"
  /\ prep[p] \in Boundaries \union {"migrate", "close"}
  /\ PrepGoes(p, "over")
  /\ PrepEnds(p, "failed")
  /\ UNCHANGED <<kind, history, format, tables, installed, holder, backend,
                 toApply>>

\* The backend of a connection that is gone rolls back, and unlocks.
BackendExits(p) ==
  /\ prep[p] = "over"
  /\ backend[p] # "none"
  /\ backend' = [backend EXCEPT ![p] = "none"]
  /\ holder' = IF holder = p THEN Nobody ELSE holder
  /\ UNCHANGED <<kind, history, format, tables, installed, prep, toApply,
                 outcome>>

\* On PGlite an abort waits for the SQL that runs.
AbortAtBoundary(p) ==
  /\ kind = "pglite"
  /\ prep[p] \in Boundaries \ {"acquire"}
  /\ PrepCloses(p, "failed")
  /\ UNCHANGED <<kind, history, format, tables, installed, holder, backend,
                 toApply>>

\* The installation is replaced while the program runs.
ReplaceInstallation(p) ==
  /\ installed[p]
  /\ installed' = [installed EXCEPT ![p] = FALSE]
  /\ UNCHANGED <<kind, history, format, tables, holder, backend, prep, toApply,
                 outcome>>

Prepare(p) ==
  \/ VerifyMigrationManifest(p) \/ InspectHistory(p) \/ Acquire(p)
  \/ InspectBefore(p) \/ VerifySnapshot(p) \/ BeginMigration(p) \/ SendCommit(p)
  \/ CommitMigration(p) \/ InspectAfter(p) \/ CloseSession(p)

PrepNext ==
  \E p \in Preparers :
    \/ Prepare(p)
    \/ VerificationFails(p) \/ MigrationFails(p)
    \/ Interrupt(p) \/ AbortAtBoundary(p)
    \/ BackendExits(p) \/ ReplaceInstallation(p)

\* A waiting preparation is ended by its deadline if nothing else does.
Deadline(p) == prep[p] = "acquire" /\ Interrupt(p)

PrepFairness ==
  \A p \in Preparers :
    /\ WF_prepVars(Prepare(p) \/ VerificationFails(p))
    /\ WF_prepVars(Deadline(p))

PrepSpec == PrepInit /\ [][PrepNext]_prepVars
PrepFairSpec == PrepSpec /\ PrepFairness

-----------------------------------------------------------------------------
(* Properties                                                              *)

PrepTypeOK ==
  /\ kind \in Stores
  /\ history \in Seq([name : Nat, intact : BOOLEAN])
  /\ format \in {"current", "legacy"}
  /\ tables \in BOOLEAN
  /\ installed \in [Preparers -> BOOLEAN]
  /\ holder \in Preparers \union {Nobody}
  /\ backend \in [Preparers -> {"none", "idle", "migrating", "committing"}]
  /\ prep \in [Preparers -> Boundaries \union
                 {"verify", "inspect", "migrate", "close", "over"}]
  /\ toApply \in [Preparers -> Seq([name : Nat, intact : BOOLEAN])]
  /\ outcome \in [Preparers -> {"none", "ready", "failed"}]

\* However programs of several releases race, are interrupted while their SQL
\* runs, or are replaced on disk, the history is always that of one release,
\* each migration applied once, in order and as released; and a program that
\* went on has all the migrations it was built for.
HistoryIsOneRelease ==
  /\ \E p \in Preparers : IsPrefix(history, Rows(Manifest[p]))
  /\ \A p \in Preparers :
       outcome[p] = "ready" /\ prep[p] = "over" =>
         IsPrefix(Rows(Manifest[p]), history)

\* Every program that opens the database is answered, also when the lock is never
\* given up.
PreparationEnds == <>(\A p \in Preparers : prep[p] = "over")
=============================================================================
