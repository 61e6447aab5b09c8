-------------------------- MODULE SettingsDatabase --------------------------
(***************************************************************************)
(* The SQLite database of the client                                       *)
(* (src/app/core/settingsdatabase.cpp): open() with its chain of schema    *)
(* migrations, snapshots and recovery, then the import of the Host records *)
(* of the old settings (ComputerManager's constructor) and the writes that *)
(* follow.  The process can be killed between any two steps, and builds of *)
(* several ages take turns with the same files.                            *)
(*                                                                         *)
(* The journal is a write-ahead log: what a reader sees is the main file   *)
(* with the log applied.  Both are followed, for a recovery removes the    *)
(* log before it replaces the file.  A schema is the set of the statements *)
(* that were run, and the records of the Hosts are a number, new for every *)
(* write.                                                                  *)
(***************************************************************************)
EXTENDS Integers, FiniteSets

CONSTANTS
    Builds,       \* the latest schema versions of the builds in use
    Statements,   \* bound: statements of a migration
    MaxRetained,  \* maxRetainedBackupSnapshots()
    MaxLaunches,  \* bound: times the program is started
    MaxEdits,     \* bound: times the Host records are written
    MaxFaults     \* bound: calls of SQLite or of the file system that fail

ASSUME SettingsDatabaseAssumption ==
    /\ Builds \subseteq Nat \ {0} /\ IsFiniteSet(Builds) /\ Builds # {}
    /\ Statements \in Nat \ {0}
    /\ {MaxRetained, MaxLaunches, MaxEdits, MaxFaults} \subseteq Nat

SchemaVersions == UNION {0..b : b \in Builds}
Legacy == 1   \* the records in the old settings
Edits == 0..(Legacy + MaxEdits)

NoSnapshot == [part |-> "none"]
Partial == [part |-> "some"]

VARIABLES
    file,        \* the content of the main file
    seen,        \* the content with the log applied
    tx,          \* the content inside the open transaction
    snapshots,   \* [SchemaVersions -> content, NoSnapshot or Partial]
    legacy,      \* the old settings hold Host records
    build,       \* latestKnownSchemaVersion() of the program that runs
    step,        \* where it is; "off" when it is not running
    target,      \* the version of the migration in progress
    stmt,        \* its next statement
    saved,       \* the last records whose write was acknowledged
    logLost,     \* history: a log that closing had not folded was removed
    reimported,  \* history: an import came after the user's edits; both
                 \* until the last acknowledged records are there again
    launches, faults  \* spent of the bounds

files == <<file, seen, snapshots>>
claims == <<saved, logLost, reimported>>
settingsVars == <<files, tx, legacy, build, step, target, stmt, claims,
                  launches, faults>>

Content == [version : SchemaVersions, schema : SUBSET (SchemaVersions \X (1..Statements)),
            hosts : Edits, imported : BOOLEAN]

Empty == [version |-> 0, schema |-> {}, hosts |-> 0, imported |-> FALSE]

SettingsDatabaseInit ==
    /\ file = Empty /\ seen = Empty /\ tx = Empty
    /\ snapshots = [v \in SchemaVersions |-> NoSnapshot]
    /\ legacy \in BOOLEAN
    /\ build \in Builds /\ step = "off" /\ target = 0 /\ stmt = 1
    /\ saved = 0 /\ logLost = FALSE /\ reimported = FALSE
    /\ launches = 0 /\ faults = 0

Goto(s) == step' = s

Fault == faults < MaxFaults /\ faults' = faults + 1

\* A loss lasts as long as the records differ from the acknowledged ones.
StillLost(was) == was /\ seen'.hosts # saved'

(***************************************************************************)
(* open()                                                                  *)
(***************************************************************************)

Launch ==
    /\ step = "off" /\ launches < MaxLaunches
    /\ launches' = launches + 1
    /\ build' \in Builds
    /\ Goto("version")
    /\ UNCHANGED <<files, tx, legacy, target, stmt, claims, faults>>

\* X_Mistake, here and below, is the definition X with a plausible mistake in
\* it.  No specification uses it: it shows that a property would catch it.
ChooseMigration_AnyNewer(v) ==
    \/ v >= build /\ Goto("prune") /\ UNCHANGED target
    \/ v < build /\ Goto("backup") /\ target' = v + 1

\* A migration is due after version v; a newer schema is refused.
ChooseMigration(v) ==
    \/ v > build /\ Goto("off") /\ UNCHANGED target
    \/ v = build /\ Goto("prune") /\ UNCHANGED target
    \/ v < build /\ Goto("backup") /\ target' = v + 1

\* currentSchemaVersion() answers 0 when its query fails.
ReadVersion ==
    /\ step = "version"
    /\ \/ ChooseMigration(seen.version) /\ UNCHANGED faults
       \/ Fault /\ ChooseMigration(0)
    /\ UNCHANGED <<files, tx, legacy, build, stmt, claims, launches>>

\* backupBeforeMigration() removes what an interrupted attempt left behind.
DropStaleSnapshot ==
    /\ step = "backup"
    /\ snapshots' = [snapshots EXCEPT ![target] = NoSnapshot]
    /\ Goto("vacuum")
    /\ UNCHANGED <<file, seen, tx, legacy, build, target, stmt, claims,
                   launches, faults>>

\* VACUUM INTO: it refuses to overwrite, and may leave a part of the file.
TakeSnapshot ==
    /\ step = "vacuum"
    /\ \/ /\ snapshots[target] = NoSnapshot
          /\ snapshots' = [snapshots EXCEPT ![target] = seen]
          /\ tx' = seen /\ stmt' = 1
          /\ Goto("apply")
          /\ UNCHANGED faults
       \/ /\ \/ Fault
             \/ snapshots[target] # NoSnapshot /\ UNCHANGED faults
          /\ snapshots' = [snapshots EXCEPT ![target] = Partial]
          /\ Goto("off")
          /\ UNCHANGED <<tx, stmt>>
    /\ UNCHANGED <<file, seen, legacy, build, target, claims, launches>>

\* applyMigration(): inside one transaction, statement by statement.  One
\* that was run before fails, since the table exists.
ExecStatement ==
    /\ step = "apply" /\ stmt <= Statements
    /\ <<target, stmt>> \notin tx.schema
    /\ tx' = [tx EXCEPT !.schema = @ \cup {<<target, stmt>>}]
    /\ stmt' = stmt + 1
    /\ UNCHANGED <<files, legacy, build, step, target, claims, launches, faults>>

CommitMigration_PastLast ==
    /\ step = "apply" /\ stmt > Statements /\ tx.version < target
    /\ seen' = [tx EXCEPT !.version = target]
    /\ IF target > build
       THEN Goto("prune") /\ UNCHANGED target
       ELSE Goto("backup") /\ target' = target + 1
    /\ UNCHANGED <<file, snapshots, tx, legacy, build, stmt, claims, launches,
                   faults>>

\* The version is recorded last; then the transaction is committed, to the
\* log.  The next migration follows, or the old snapshots are pruned.
CommitMigration ==
    /\ step = "apply" /\ stmt > Statements /\ tx.version < target
    /\ seen' = [tx EXCEPT !.version = target]
    /\ IF target = build
       THEN Goto("prune") /\ UNCHANGED target
       ELSE Goto("backup") /\ target' = target + 1
    /\ UNCHANGED <<file, snapshots, tx, legacy, build, stmt, claims, launches,
                   faults>>

\* Anything that fails rolls the transaction back; recovery begins.
MigrationFails ==
    /\ step = "apply"
    /\ \/ stmt <= Statements /\ <<target, stmt>> \in tx.schema
          /\ UNCHANGED faults
       \/ Fault
    /\ Goto("close")
    /\ UNCHANGED <<files, tx, legacy, build, target, stmt, claims, launches>>

(***************************************************************************)
(* restoreFromSnapshot()                                                   *)
(***************************************************************************)

\* Closing the last connection folds the log into the file, if it can.
CloseConnection ==
    /\ step = "close"
    /\ \/ file' = seen /\ UNCHANGED faults
       \/ Fault /\ UNCHANGED file
    /\ Goto("dropLog")
    /\ UNCHANGED <<seen, snapshots, tx, legacy, build, target, stmt, claims,
                   launches>>

DropLog ==
    /\ step = "dropLog"
    /\ seen' = file
    /\ logLost' = (logLost \/ file.hosts # seen.hosts)
    /\ Goto("replace")
    /\ UNCHANGED <<file, snapshots, tx, legacy, build, target, stmt, saved,
                   reimported, launches, faults>>

ReplaceFile_Oldest ==
    /\ step = "replace"
    /\ \E v \in SchemaVersions :
         /\ snapshots[v] \notin {NoSnapshot, Partial}
         /\ \A w \in SchemaVersions :
              w < v => snapshots[w] \in {NoSnapshot, Partial}
         /\ file' = snapshots[v] /\ seen' = snapshots[v]
    /\ Goto("off")
    /\ UNCHANGED <<snapshots, tx, legacy, build, target, stmt, saved, launches,
                   faults>>
    /\ logLost' = StillLost(logLost) /\ reimported' = StillLost(reimported)

\* The snapshot is copied beside the file and renamed over it, or the file
\* stays.  open() fails in either case.
ReplaceFile ==
    /\ step = "replace"
    /\ \/ /\ snapshots[target] \notin {NoSnapshot, Partial}
          /\ file' = snapshots[target] /\ seen' = snapshots[target]
          /\ UNCHANGED faults
       \/ Fault /\ UNCHANGED <<file, seen>>
    /\ Goto("off")
    /\ UNCHANGED <<snapshots, tx, legacy, build, target, stmt, saved, launches>>
    /\ logLost' = StillLost(logLost) /\ reimported' = StillLost(reimported)

Kept(v) == snapshots[v] # NoSnapshot

\* pruneBackupSnapshots() keeps the snapshots of the latest versions.
PruneBackupSnapshots ==
    /\ step = "prune"
    /\ snapshots' = [v \in SchemaVersions |->
         IF Cardinality({w \in SchemaVersions : Kept(w) /\ w > v}) >= MaxRetained
         THEN NoSnapshot ELSE snapshots[v]]
    /\ Goto("import")
    /\ UNCHANGED <<file, seen, tx, legacy, build, target, stmt, claims,
                   launches, faults>>

(***************************************************************************)
(* The open database.                                                      *)
(***************************************************************************)

\* importLegacyHostRecords(): the records and the marker in one transaction.
\* A marker that cannot be read is taken for absent.
ImportLegacyHostRecords ==
    /\ step = "import"
    /\ \/ ~seen.imported /\ UNCHANGED faults
       \/ Fault
    /\ seen' = [seen EXCEPT !.hosts = IF legacy THEN Legacy ELSE @,
                            !.imported = TRUE]
    /\ saved' = IF legacy /\ saved = 0 THEN Legacy ELSE saved
    /\ logLost' = StillLost(logLost)
    /\ reimported' = StillLost(reimported \/ (legacy /\ seen.hosts > Legacy))
    /\ Goto("running")
    /\ UNCHANGED <<file, snapshots, tx, legacy, build, target, stmt, launches>>

\* The marker is there; or the import fails, and the program goes on.
ImportNothing ==
    /\ step = "import"
    /\ \/ seen.imported /\ UNCHANGED faults
       \/ Fault
    /\ Goto("running")
    /\ UNCHANGED <<files, tx, legacy, build, target, stmt, claims, launches>>

\* replaceHostRecords(), one transaction; one that fails changes nothing.
NextEdit == (IF saved = 0 THEN Legacy ELSE saved) + 1

ReplaceHostRecords ==
    /\ step = "running" /\ NextEdit <= Legacy + MaxEdits
    /\ saved' = NextEdit
    /\ seen' = [seen EXCEPT !.hosts = NextEdit]
    /\ logLost' = FALSE /\ reimported' = FALSE
    /\ UNCHANGED <<file, snapshots, tx, legacy, build, step, target, stmt,
                   launches, faults>>

\* SQLite folds the log into the file when it has grown, or at the end.
Checkpoint ==
    /\ step = "running" /\ file # seen
    /\ file' = seen
    /\ step' \in {"running", "off"}
    /\ UNCHANGED <<seen, snapshots, tx, legacy, build, target, stmt, claims,
                   launches, faults>>

\* The process is killed.  A transaction that was not committed is gone;
\* a snapshot that was being written is left as it is.
Crash ==
    /\ step # "off" /\ Goto("off")
    /\ IF step = "vacuum" /\ snapshots[target] = NoSnapshot
       THEN \/ UNCHANGED snapshots
            \/ snapshots' = [snapshots EXCEPT ![target] = Partial]
       ELSE UNCHANGED snapshots
    /\ UNCHANGED <<file, seen, tx, legacy, build, target, stmt, claims,
                   launches, faults>>

SettingsDatabaseNext ==
    \/ Launch \/ ReadVersion \/ DropStaleSnapshot \/ TakeSnapshot
    \/ ExecStatement \/ CommitMigration \/ MigrationFails
    \/ CloseConnection \/ DropLog \/ ReplaceFile \/ PruneBackupSnapshots
    \/ ImportLegacyHostRecords \/ ImportNothing \/ ReplaceHostRecords
    \/ Checkpoint \/ Crash

SettingsDatabaseSpec ==
    SettingsDatabaseInit /\ [][SettingsDatabaseNext]_settingsVars

(***************************************************************************)
(* Properties.                                                             *)
(***************************************************************************)

\* Every variable keeps its type.
SettingsDatabaseTypeOK ==
    /\ {file, seen, tx} \subseteq Content
    /\ \A v \in SchemaVersions : snapshots[v] \in Content \cup {NoSnapshot, Partial}
    /\ {legacy, logLost, reimported} \subseteq BOOLEAN
    /\ build \in Builds /\ target \in SchemaVersions
    /\ step \in {"off", "version", "backup", "vacuum", "apply", "close",
                 "dropLog", "replace", "prune", "import", "running"}
    /\ stmt \in 1..(Statements + 1)
    /\ saved \in Edits
    /\ {launches, faults} \subseteq Nat

\* The schema of version v: every statement of every migration up to it.
SchemaOf(v) == (1..v) \X (1..Statements)

\* A database that open() accepted has the schema the build knows, whatever
\* interrupted, failed or newer launches came before: never a part of a
\* migration, and never a newer schema (settingsdatabase.cpp:106-147).
OpenedIsComplete ==
    step \in {"import", "running"} =>
        seen.version = build /\ seen.schema = SchemaOf(build)

\* The records a write acknowledged are there from then on, through failed
\* migrations, recoveries and crashes (settingsdatabase.cpp:274-330), but for
\* two cases in which the code loses them: a recovery that removes a log which
\* closing could not fold, and an import retried after the user's edits.  Each
\* lasts until the snapshot brings the records back or others are written.
AcknowledgedIsKept == logLost \/ reimported \/ seen.hosts = saved
=============================================================================
