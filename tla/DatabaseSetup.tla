--------------------------- MODULE DatabaseSetup ---------------------------
(***************************************************************************)
(* What prepares the relay server's database: the migration runner that    *)
(* every process runs when it starts (relay-server/migrations/runner.go),  *)
(* and the import of EVE's static data as a new active build               *)
(* (internal/sdeimport/import.go over migration 023).  Both run in one     *)
(* transaction at READ COMMITTED.                                          *)
(***************************************************************************)
EXTENDS Integers, FiniteSets, Sequences, Functions

CONSTANTS Replicas,      \* processes that start, of possibly different releases
          Releases,      \* the releases: each the set of its migrations,
                         \* records of a version and a checksum
          Imports        \* import commands, each of a build with its own version

\* A release has one file of a version (NewFromFS refuses a second); "free" is
\* nobody's name.
ASSUME SetupAssumption ==
    /\ \A R \in Releases : \A m, n \in R :
          m.version \in Int /\ (m.version = n.version => m = n)
    /\ "free" \notin Replicas

VARIABLES schema,     \* committed: the migrations that have run, each with its
                      \* row of schema_migrations, in order
          lock,       \* who holds the advisory lock
          replica,    \* each starting process
          builds,     \* committed: the builds and their states
          import,     \* each import command's transaction
          everActive  \* some build has been activated

setupVars == <<schema, lock, replica, builds, import, everActive>>

Down == [at |-> "down"]
NotRun == [at |-> "not run"]
States == {"active", "retired"}

Migrations == UNION Releases

SetupTypeOK ==
    /\ schema \in Seq(Migrations)
    /\ lock \in Replicas \cup {"free"}
    /\ \A r \in Replicas : replica[r].at \in {"down", "begin", "locked", "run", "up"}
    /\ DOMAIN builds \subseteq Imports /\ \A b \in DOMAIN builds : builds[b] \in States
    /\ \A i \in Imports : import[i].at \in {"not run", "load", "retire", "activate",
                                            "commit", "ended"}
    /\ everActive \in BOOLEAN

SetupInit ==
    /\ schema = << >> /\ lock = "free"
    /\ replica = [r \in Replicas |-> Down]
    /\ builds = << >> /\ import = [i \in Imports |-> NotRun]
    /\ everActive = FALSE

-----------------------------------------------------------------------------
(* Migrations. *)

Becomes(r, p) == replica' = [replica EXCEPT ![r] = p]

StartReplica(r) ==
    /\ replica[r].at = "down"
    /\ \E release \in Releases : Becomes(r, [at |-> "begin", release |-> release])
    /\ UNCHANGED <<schema, lock, builds, import, everActive>>

\* A mutated form: no lock is taken.
NoLock(r) == UNCHANGED lock
TakeLock(r) == lock = "free" /\ lock' = r

LockMigrations(r) ==
    /\ replica[r].at = "begin" /\ TakeLock(r)
    /\ Becomes(r, [at |-> "locked", release |-> replica[r].release])
    /\ UNCHANGED <<schema, builds, import, everActive>>

Released(r) == IF lock = r THEN "free" ELSE lock

\* What the plan of a release refuses: a version it does not know, or one whose
\* checksum is not its file's.
Mismatch(release) == ~(Range(schema) \subseteq release)
Applied == {schema[i].version : i \in DOMAIN schema}
Unapplied(release) == {m \in release : m.version \notin Applied}

\* The plan is made from what is committed when the lock has been taken.
PlanMigrations(r) ==
    /\ replica[r].at = "locked"
    /\ IF Mismatch(replica[r].release)
       THEN Becomes(r, Down) /\ lock' = Released(r)
       ELSE /\ Becomes(r, [at |-> "run", release |-> replica[r].release, done |-> << >>,
                           pending |-> Unapplied(replica[r].release)])
            /\ lock' = lock
    /\ UNCHANGED <<schema, builds, import, everActive>>

\* DryRun makes the same plan in a read-only transaction and applies nothing.
DryRun(r) ==
    /\ replica[r].at = "begin"
    /\ Becomes(r, IF Mismatch(replica[r].release) THEN Down
                  ELSE [at |-> "up", release |-> {}])
    /\ UNCHANGED <<schema, lock, builds, import, everActive>>

\* One migration's SQL and its row, inside the transaction, in numeric order.
RunMigration(r) ==
    /\ replica[r].at = "run"
    /\ \E m \in replica[r].pending :
          /\ \A n \in replica[r].pending : m.version <= n.version
          /\ Becomes(r, [at |-> "run", release |-> replica[r].release,
                         done |-> Append(replica[r].done, m),
                         pending |-> replica[r].pending \ {m}])
    /\ UNCHANGED <<schema, lock, builds, import, everActive>>

CommitMigrations(r) ==
    /\ replica[r].at = "run" /\ replica[r].pending = {}
    /\ schema' = schema \o replica[r].done
    /\ Becomes(r, [at |-> "up", release |-> replica[r].release]) /\ lock' = Released(r)
    /\ UNCHANGED <<builds, import, everActive>>

\* A statement fails or the process ends: the transaction is rolled back.
ReplicaEnds(r) ==
    /\ replica[r].at # "down"
    /\ Becomes(r, Down) /\ lock' = Released(r)
    /\ UNCHANGED <<schema, builds, import, everActive>>

-----------------------------------------------------------------------------
(* The import of static data. *)

ImportAt(i, r) == import' = [import EXCEPT ![i] = r]
Active == {b \in DOMAIN builds : builds[b] = "active"}

\* The zip is checked and the build's row and tables are written, seen by nobody.
BeginImport(i) ==
    /\ import[i].at = "not run"
    /\ ImportAt(i, [at |-> "load"])
    /\ UNCHANGED <<schema, lock, replica, builds, everActive>>

\* The UPDATE that retires the active build starts with the builds that are
\* active then; an incomplete or inconsistent build was refused before.
RetireActive(i) ==
    /\ import[i].at = "load"
    /\ ImportAt(i, [at |-> "retire", seen |-> Active])
    /\ UNCHANGED <<schema, lock, replica, builds, everActive>>

Holds(j, b) == import[j].at \in {"activate", "commit"} /\ b \in import[j].retired

\* It waits for whoever has updated those rows, and skips those no longer active.
Retired(i) ==
    /\ import[i].at = "retire"
    /\ \A j \in Imports \ {i}, b \in import[i].seen : ~Holds(j, b)
    /\ ImportAt(i, [at |-> "activate", retired |-> import[i].seen \cap Active])
    /\ UNCHANGED <<schema, lock, replica, builds, everActive>>

\* The unique index on the active state: the transaction waits for another's
\* new active build, and fails when one is committed that it has not retired.
IndexFree(i) == Active \subseteq import[i].retired

ActivateBuild(i) ==
    /\ import[i].at = "activate"
    /\ \A j \in Imports \ {i} : import[j].at # "commit"
    /\ ImportAt(i, IF IndexFree(i) THEN [at |-> "commit", retired |-> import[i].retired]
                   ELSE [at |-> "ended"])
    /\ UNCHANGED <<schema, lock, replica, builds, everActive>>

CommitImport(i) ==
    /\ import[i].at = "commit"
    /\ builds' = [b \in DOMAIN builds \cup {i} |->
                    IF b = i THEN "active"
                    ELSE IF b \in import[i].retired THEN "retired" ELSE builds[b]]
    /\ everActive' = TRUE
    /\ ImportAt(i, [at |-> "ended"])
    /\ UNCHANGED <<schema, lock, replica>>

\* A missing entry, a bad row, a failed statement or a crash: rolled back, and
\* the command may be run again.
ImportFails(i) ==
    /\ import[i].at \in {"load", "retire", "activate", "commit"}
    /\ ImportAt(i, NotRun)
    /\ UNCHANGED <<schema, lock, replica, builds, everActive>>

SetupNext ==
    \/ \E r \in Replicas : \/ StartReplica(r) \/ LockMigrations(r) \/ PlanMigrations(r)
                           \/ DryRun(r) \/ RunMigration(r) \/ CommitMigrations(r)
                           \/ ReplicaEnds(r)
    \/ \E i \in Imports : \/ BeginImport(i) \/ RetireActive(i) \/ Retired(i)
                          \/ ActivateBuild(i) \/ CommitImport(i) \/ ImportFails(i)

SetupSpec == SetupInit /\ [][SetupNext]_setupVars

-----------------------------------------------------------------------------
\* However many processes start at once, of whatever releases, and wherever one
\* of them is cut off, every migration has run exactly once, after those of lower
\* numbers but for one that an older release did not have, and a process that
\* runs has all of its own (runner.go "A transaction-scoped PostgreSQL advisory
\* lock serializes concurrent runners").
MigrationsRunOnce ==
    /\ \A i, j \in DOMAIN schema : i < j =>
          /\ schema[i].version # schema[j].version
          /\ \/ schema[i].version < schema[j].version
             \/ \E R \in Releases : schema[i] \in R /\ schema[j] \notin R
    /\ \A r \in Replicas :
          replica[r].at = "up" => replica[r].release \subseteq Range(schema)

\* However imports overlap, once a build has been activated there is always
\* exactly one active build for the readers to find (migration 023 "atomically
\* promote that build to active").
OneActiveBuild == Cardinality(Active) = IF everActive THEN 1 ELSE 0

\* Type correctness; and processes that start at once run each migration once
\* and leave one active build.
SetupInvariant == SetupTypeOK /\ MigrationsRunOnce /\ OneActiveBuild
=============================================================================
