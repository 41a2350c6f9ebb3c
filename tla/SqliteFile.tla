----------------------------- MODULE SqliteFile -----------------------------
(***************************************************************************)
(* Processes that share one SQLite database file: runtime stores (Open,    *)
(* snapshots, Close), and the maintenance commands PlanMigrations,         *)
(* ValidateSchema, ApplyMigrations, FullIntegrityCheck, PruneExpiredEvents *)
(* and ExportAuditBackup.  They exclude each other by the advisory lock of *)
(* locking_unix.go.  Processes crash, the machine loses power, any step of *)
(* a command may fail or find its context ended.                           *)
(* SQLite's transactions are atomic and durable (synchronous=FULL); the    *)
(* rows themselves are in SqliteStore and SqliteOffline, and are a version *)
(* number here.  A directory keeps what was last synced and, until then,   *)
(* a power loss may or may not undo a change.                              *)
(***************************************************************************)
EXTENDS Naturals, FiniteSets, Snapshot

CONSTANTS
  Procs,            \* processes
  Queries,          \* goroutines that read the snapshot of a process
  Workloads,        \* which commands each process runs
  Keys,             \* cursor keys rand.Read may return
  NoKey,
  EmbeddedMigrations, \* len(loadEmbeddedMigrations())
  MaxVersion,       \* bound on committed changes of the rows
  MaxCrashes        \* bound on crashes and power losses

Commands == {"open", "memory", "plan", "validate", "migrate", "check", "prune", "export"}

ASSUME FileAssumption ==
  /\ Workloads \subseteq [Procs -> SUBSET Commands]
  /\ IsFiniteSet(Queries)
  /\ EmbeddedMigrations \in Nat \ {0}
  /\ NoKey \notin Keys

VARIABLES
  workload,
  db,         \* the committed database file
  shared,     \* processes that hold the shared lock
  exclusive,  \* processes that hold the exclusive lock
  pc, op,
  tx,         \* the uncommitted database, or the backup image, a process works on
  pools,      \* processes whose connections to the file are open
  cursorKey,  \* the key a runtime store has loaded
  view, query, closer,  \* the snapshot of a process, its readers and its closer
  dir,        \* the backup directory as every process sees it
  synced,     \* the backup directory as a power loss may leave it
  exported,   \* the image of the last export that reported success
  kept,       \* what failed exports could not remove from it, as long as nobody crashed
  crashes

locks == <<shared, exclusive>>
snapshotVars == <<view, query, closer>>
backup == <<dir, synced, exported, kept>>
vars == <<workload, db, locks, pc, op, tx, pools, cursorKey, snapshotVars, backup, crashes>>

NoFile == [exists |-> FALSE, ledger |-> 0, schema |-> 0, key |-> NoKey, version |-> 0]

NoImage == [ledger |-> 0, key |-> NoKey, version |-> 0, synced |-> TRUE]

EmptyDirectory == [dest |-> NoImage, stages |-> {}]

Init ==
  /\ workload \in Workloads
  /\ db = NoFile
  /\ shared = {} /\ exclusive = {}
  /\ pc = [p \in Procs |-> "idle"]
  /\ op = [p \in Procs |-> "plan"]
  /\ tx = [p \in Procs |-> NoFile]
  /\ pools = {}
  /\ cursorKey = [p \in Procs |-> NoKey]
  /\ view = [p \in Procs |-> NoView]
  /\ query = [p \in Procs |-> [q \in Queries |-> "idle"]]
  /\ closer = [p \in Procs |-> "idle"]
  /\ dir = EmptyDirectory /\ synced = EmptyDirectory /\ kept = EmptyDirectory
  /\ exported = NoImage
  /\ crashes = 0

Go(p, label) == pc' = [pc EXCEPT ![p] = label]

-----------------------------------------------------------------------------
(* The lock and the way into a command.                                      *)

usesShared(c) == c \in {"open", "plan", "validate"}

\* A backup wants a clean destination and no stage of an interrupted export beside it.
exportAccepted == dir = EmptyDirectory

\* Commands that must not create what they do not find look for the file before
\* they touch the lock.
accepted(c) ==
  /\ c \in {"open", "validate", "check", "prune", "export"} => db.exists
  /\ c = "export" => exportAccepted

\* A plan for a file that is not there is "everything is pending": no lock.
Start(p) ==
  /\ pc[p] = "idle"
  /\ \E c \in workload[p] :
       /\ op' = [op EXCEPT ![p] = c]
       /\ accepted(c)
       /\ c = "plan" => db.exists
       /\ Go(p, IF c = "memory" THEN "serving" ELSE "lock")
  /\ UNCHANGED <<workload, db, locks, tx, pools, cursorKey, snapshotVars, backup, crashes>>

\* flock(LOCK_NB) in lock: granted when no other holder is incompatible.
compatible(p) ==
  /\ exclusive \ {p} = {}
  /\ ~ usesShared(op[p]) => shared \ {p} = {}

\* The first step of a command once it holds the lock.
firstStep(p) ==
  CASE op[p] = "migrate" -> "createFile"
    [] op[p] \in {"plan", "validate", "open"} -> "validate"
    [] OTHER -> "inspect"

Lock(p) ==
  /\ pc[p] = "lock"
  /\ compatible(p)
  /\ IF usesShared(op[p])
       THEN shared' = shared \cup {p} /\ UNCHANGED exclusive
       ELSE exclusive' = exclusive \cup {p} /\ UNCHANGED shared
  /\ Go(p, firstStep(p))
  /\ UNCHANGED <<workload, db, op, tx, pools, cursorKey, snapshotVars, backup, crashes>>

\* Mutant: the integrity check waits for the lock without a deadline.
LockTimeoutNotOfChecks(p) ==
  /\ pc[p] = "lock"
  /\ ~ compatible(p)
  /\ op[p] \in {"prune", "export"}
  /\ Go(p, "idle")
  /\ UNCHANGED <<workload, db, locks, op, tx, pools, cursorKey, snapshotVars, backup, crashes>>

\* lockIntegrityExclusive puts a deadline of its own, BusyTimeout, on the poll loop;
\* the other commands wait as long as their caller's context lets them (Fault).
LockTimeout(p) ==
  /\ pc[p] = "lock"
  /\ ~ compatible(p)
  /\ op[p] \in {"check", "prune", "export"}
  /\ Go(p, "idle")
  /\ UNCHANGED <<workload, db, locks, op, tx, pools, cursorKey, snapshotVars, backup, crashes>>

\* The deferred lock.Close, the last thing a command does.
Unlock(p) ==
  /\ pc[p] = "unlock"
  /\ shared' = shared \ {p} /\ exclusive' = exclusive \ {p}
  /\ pools' = pools \ {p}
  /\ tx' = [tx EXCEPT ![p] = NoFile]
  /\ Go(p, "idle")
  /\ UNCHANGED <<workload, db, op, cursorKey, snapshotVars, backup, crashes>>

-----------------------------------------------------------------------------
(* ApplyMigrations.                                                          *)

createFile(p) ==
  /\ pc[p] = "createFile"
  /\ db' = [db EXCEPT !.exists = TRUE]
  /\ pools' = pools \cup {p}
  /\ Go(p, "begin")
  /\ UNCHANGED <<workload, locks, op, tx, cursorKey, snapshotVars, backup, crashes>>

\* BEGIN EXCLUSIVE, and the ledger read inside it.
beginMigration(p) ==
  /\ pc[p] = "begin"
  /\ tx' = [tx EXCEPT ![p] = db]
  /\ Go(p, IF db.ledger = EmbeddedMigrations THEN "commit" ELSE "applySQL")
  /\ UNCHANGED <<workload, db, locks, op, pools, cursorKey, snapshotVars, backup, crashes>>

\* Mutant: the script of a migration commits on its own.
applySQLOutside(p) ==
  /\ pc[p] = "applySQL"
  /\ tx' = [tx EXCEPT ![p].schema = @ + 1]
  /\ db' = [db EXCEPT !.schema = @ + 1]
  /\ Go(p, "seed")
  /\ UNCHANGED <<workload, locks, op, pools, cursorKey, snapshotVars, backup, crashes>>

applySQL(p) ==
  /\ pc[p] = "applySQL"
  /\ tx' = [tx EXCEPT ![p].schema = @ + 1]
  /\ Go(p, "seed")
  /\ UNCHANGED <<workload, db, locks, op, pools, cursorKey, snapshotVars, backup, crashes>>

\* Only the first migration makes a key.
seedInitialCursorKey(p) ==
  /\ pc[p] = "seed"
  /\ IF tx[p].schema = 1
       THEN \E key \in Keys : tx' = [tx EXCEPT ![p].key = key]
       ELSE UNCHANGED tx
  /\ Go(p, "record")
  /\ UNCHANGED <<workload, db, locks, op, pools, cursorKey, snapshotVars, backup, crashes>>

recordMigration(p) ==
  /\ pc[p] = "record"
  /\ tx' = [tx EXCEPT ![p].ledger = @ + 1]
  /\ Go(p, IF tx[p].ledger + 1 = EmbeddedMigrations THEN "commit" ELSE "applySQL")
  /\ UNCHANGED <<workload, db, locks, op, pools, cursorKey, snapshotVars, backup, crashes>>

commitMigration(p) ==
  /\ pc[p] = "commit"
  /\ db' = tx[p]
  /\ Go(p, "unlock")
  /\ UNCHANGED <<workload, locks, op, tx, pools, cursorKey, snapshotVars, backup, crashes>>

-----------------------------------------------------------------------------
(* Readers of the schema, the integrity check and the prune.                 *)

\* The ledger, the schema and the key are those of the embedded migrations.
migrated == db.ledger = EmbeddedMigrations /\ db.schema = EmbeddedMigrations /\ db.key # NoKey

\* Reads the ledger, and is done.
PlanMigrations(p) ==
  /\ pc[p] = "validate" /\ op[p] = "plan"
  /\ pools' = pools \cup {p}
  /\ Go(p, "unlock")
  /\ UNCHANGED <<workload, db, locks, op, tx, cursorKey, snapshotVars, backup, crashes>>

\* ValidateSchema, and the first half of Open: a read-only connection that comes and
\* goes under the lock.
validateSchemaUnderSharedLock(p) ==
  /\ pc[p] = "validate" /\ op[p] \in {"validate", "open"}
  /\ Go(p, IF op[p] = "open" /\ db.exists /\ migrated THEN "openPools" ELSE "unlock")
  /\ UNCHANGED <<workload, db, locks, op, tx, pools, cursorKey, snapshotVars, backup, crashes>>

\* BEGIN EXCLUSIVE, the checks, ROLLBACK; a prune goes on in the transaction, an
\* export outside of it.
fullIntegrityCheck(p) ==
  /\ pc[p] = "inspect"
  /\ pools' = pools \cup {p}
  /\ Go(p, CASE ~ migrated \/ op[p] = "check" -> "unlock"
             [] migrated /\ op[p] = "prune" -> "pruneEvents"
             [] migrated /\ op[p] = "export" -> "stage")
  /\ UNCHANGED <<workload, db, locks, op, tx, cursorKey, snapshotVars, backup, crashes>>

pruneEvents(p) ==
  /\ pc[p] = "pruneEvents"
  /\ db' = [db EXCEPT !.version = IF @ < MaxVersion THEN @ + 1 ELSE @]
  /\ Go(p, "unlock")
  /\ UNCHANGED <<workload, locks, op, tx, pools, cursorKey, snapshotVars, backup, crashes>>

-----------------------------------------------------------------------------
(* The runtime store: Open's last steps, commits, one snapshot, and Close.    *)

\* openExistingDatabaseWithLock: the writer, the readers and the writer's goroutine.
openExistingDatabase(p) ==
  /\ pc[p] = "openPools"
  /\ pools' = pools \cup {p}
  /\ Go(p, IF db.exists THEN "loadKey" ELSE "unlock")
  /\ UNCHANGED <<workload, db, locks, op, tx, cursorKey, snapshotVars, backup, crashes>>

\* validateRuntimeState again, on a reader, and the key every cursor is sealed with.
newStoreFromDatabase(p) ==
  /\ pc[p] = "loadKey"
  /\ IF migrated
       THEN cursorKey' = [cursorKey EXCEPT ![p] = db.key] /\ Go(p, "serving")
       ELSE UNCHANGED cursorKey /\ Go(p, "unlock")
  /\ UNCHANGED <<workload, db, locks, op, tx, pools, snapshotVars, backup, crashes>>

Commit(p) ==
  /\ pc[p] = "serving" /\ op[p] = "open"
  /\ db.version < MaxVersion
  /\ db' = [db EXCEPT !.version = @ + 1]
  /\ UNCHANGED <<workload, locks, pc, op, tx, pools, cursorKey, snapshotVars, backup, crashes>>

OpenSnapshot(p) ==
  /\ pc[p] = "serving"
  /\ view[p] = NoView
  /\ view' = [view EXCEPT ![p] = OpenedView]
  /\ UNCHANGED <<workload, db, locks, pc, op, tx, pools, cursorKey, query, closer, backup, crashes>>

\* queryConnection: admitted first, then queued for queryMu.
AdmitQuery(p, q) ==
  /\ query[p][q] = "idle"
  /\ admits(view[p])
  /\ view' = [view EXCEPT ![p] = admit(@)]
  /\ query' = [query EXCEPT ![p][q] = "queued"]
  /\ UNCHANGED <<workload, db, locks, pc, op, tx, pools, cursorKey, closer, backup, crashes>>

\* Reads of one SQLite snapshot take turns; those of a memory snapshot do not.
ReadQuery(p, q) ==
  /\ query[p][q] = "queued"
  /\ op[p] = "open" => \A other \in Queries : query[p][other] # "reading"
  /\ query' = [query EXCEPT ![p][q] = "reading"]
  /\ UNCHANGED <<workload, db, locks, pc, op, tx, pools, cursorKey, view, closer, backup, crashes>>

\* A change of the view under its mutex, after which the goroutine that detached the
\* connection of a SQLite view still has to finish the close.
changed(p, after) ==
  view' = [view EXCEPT ![p] = IF op[p] = "memory" THEN settled(view[p], after) ELSE after]

mustFinish(p, after) == op[p] = "open" /\ detached(view[p], after)

ReleaseQuery(p, q) ==
  /\ query[p][q] = "reading"
  /\ changed(p, leave(view[p]))
  /\ query' = [query EXCEPT ![p][q] = IF mustFinish(p, leave(view[p])) THEN "finishing" ELSE "idle"]
  /\ UNCHANGED <<workload, db, locks, pc, op, tx, pools, cursorKey, closer, backup, crashes>>

FinishByQuery(p, q) ==
  /\ query[p][q] = "finishing"
  /\ view' = [view EXCEPT ![p] = finishClose(@)]
  /\ query' = [query EXCEPT ![p][q] = "idle"]
  /\ UNCHANGED <<workload, db, locks, pc, op, tx, pools, cursorKey, closer, backup, crashes>>

\* snapshot.Close by its user, which may race Store.Close: "finishing" until it has
\* rolled back, "waiting" for closeDone.
CloseSnapshot(p) ==
  \/ /\ closer[p] = "idle" /\ view[p].owned
     /\ changed(p, startClose(view[p]))
     /\ closer' = [closer EXCEPT ![p] =
          IF mustFinish(p, startClose(view[p])) THEN "finishing" ELSE "waiting"]
     /\ UNCHANGED <<workload, db, locks, pc, op, tx, pools, cursorKey, query, backup, crashes>>
  \/ /\ closer[p] = "finishing"
     /\ view' = [view EXCEPT ![p] = finishClose(@)]
     /\ closer' = [closer EXCEPT ![p] = "waiting"]
     /\ UNCHANGED <<workload, db, locks, pc, op, tx, pools, cursorKey, query, backup, crashes>>
  \/ /\ closer[p] = "waiting" /\ view[p].done
     /\ closer' = [closer EXCEPT ![p] = "idle"]
     /\ UNCHANGED <<workload, db, locks, pc, op, tx, pools, cursorKey, view, query, backup, crashes>>

\* closeOwnedSnapshots: close every view of the store and wait for it.  A process with
\* a memory store just ends once it has closed its snapshot.
CloseStore(p) ==
  /\ pc[p] = "serving"
  /\ op[p] = "memory" => view[p].done /\ closer[p] = "idle"
  /\ changed(p, startClose(view[p]))
  /\ Go(p, IF mustFinish(p, startClose(view[p])) THEN "finishView" ELSE "awaitView")
  /\ UNCHANGED <<workload, db, locks, op, tx, pools, cursorKey, query, closer, backup, crashes>>

FinishByStore(p) ==
  /\ pc[p] = "finishView"
  /\ view' = [view EXCEPT ![p] = finishClose(@)]
  /\ Go(p, "awaitView")
  /\ UNCHANGED <<workload, db, locks, op, tx, pools, cursorKey, query, closer, backup, crashes>>

\* closeDone is closed: database.Close closes the pools and only then the lock.
AwaitView(p) ==
  /\ pc[p] = "awaitView"
  /\ view[p].done
  /\ view' = [view EXCEPT ![p] = NoView]
  /\ cursorKey' = [cursorKey EXCEPT ![p] = NoKey]
  /\ Go(p, "unlock")
  /\ UNCHANGED <<workload, db, locks, op, tx, pools, query, closer, backup, crashes>>

-----------------------------------------------------------------------------
(* ExportAuditBackup, with the source locked and checked.                    *)

\* ensureNoStaleBackupStages once more, then MkdirTemp.
makeStage(p) ==
  /\ pc[p] = "stage"
  /\ IF dir.stages = {}
       THEN dir' = [dir EXCEPT !.stages = {p}] /\ Go(p, "copy")
       ELSE UNCHANGED dir /\ Go(p, "unlock")
  /\ UNCHANGED <<workload, db, locks, op, tx, pools, cursorKey, snapshotVars, synced, exported, kept,
                 crashes>>

\* A freshly migrated stage whose key and ledger are replaced by the source's, the
\* rows, VACUUM INTO, and the full check of the result.
copyBackupRows(p) ==
  /\ pc[p] = "copy"
  /\ tx' = [tx EXCEPT ![p] = [ledger |-> db.ledger, key |-> db.key, version |-> db.version,
                              synced |-> FALSE]]
  /\ Go(p, "recheck")
  /\ UNCHANGED <<workload, db, locks, op, pools, cursorKey, snapshotVars, backup, crashes>>

ensureCleanBackupDestination(p) ==
  /\ pc[p] = "recheck"
  /\ Go(p, IF dir.dest = NoImage THEN "syncImage" ELSE "unstage")
  /\ UNCHANGED <<workload, db, locks, op, tx, pools, cursorKey, snapshotVars, backup, crashes>>

\* publishBackupImage: the bytes first, then the name, then the directory.
syncImage(p) ==
  /\ pc[p] = "syncImage"
  /\ tx' = [tx EXCEPT ![p].synced = TRUE]
  /\ Go(p, "link")
  /\ UNCHANGED <<workload, db, locks, op, pools, cursorKey, snapshotVars, backup, crashes>>

linkImage(p) ==
  /\ pc[p] = "link"
  /\ IF dir.dest = NoImage
       THEN dir' = [dir EXCEPT !.dest = tx[p]] /\ Go(p, "syncLink")
       ELSE UNCHANGED dir /\ Go(p, "unstage")
  /\ UNCHANGED <<workload, db, locks, op, tx, pools, cursorKey, snapshotVars, synced, exported, kept,
                 crashes>>

\* Mutant: the directory is not synced after the link.
skipSync(p, from, to) ==
  /\ pc[p] = from
  /\ Go(p, to)
  /\ UNCHANGED <<workload, db, locks, op, tx, pools, cursorKey, snapshotVars, backup, crashes>>

syncDirectory(p, from, to) ==
  /\ pc[p] = from
  /\ synced' = dir
  /\ Go(p, to)
  /\ UNCHANGED <<workload, db, locks, op, tx, pools, cursorKey, snapshotVars, dir, exported, kept,
                 crashes>>

removeStage(p, from, to) ==
  /\ pc[p] = from
  /\ dir' = [dir EXCEPT !.stages = @ \ {p}]
  /\ Go(p, to)
  /\ UNCHANGED <<workload, db, locks, op, tx, pools, cursorKey, snapshotVars, synced, exported, kept,
                 crashes>>

\* The last look at the context; then the caller is told of success.
reportSuccess(p) ==
  /\ pc[p] = "report"
  /\ exported' = tx[p]
  /\ Go(p, "unlock")
  /\ UNCHANGED <<workload, db, locks, op, tx, pools, cursorKey, snapshotVars, dir, synced, kept,
                 crashes>>

\* discardBackupLink and removePublishedBackup: take the name away and sync that.
discardLink(p) ==
  /\ pc[p] = "discard"
  /\ dir' = [dir EXCEPT !.dest = NoImage]
  /\ Go(p, "syncDiscard")
  /\ UNCHANGED <<workload, db, locks, op, tx, pools, cursorKey, snapshotVars, synced, exported, kept,
                 crashes>>

Export(p) ==
  \/ makeStage(p) \/ copyBackupRows(p) \/ ensureCleanBackupDestination(p)
  \/ syncImage(p) \/ linkImage(p)
  \/ syncDirectory(p, "syncLink", "removeStage")
  \/ removeStage(p, "removeStage", "syncRemoval")
  \/ syncDirectory(p, "syncRemoval", "report")
  \/ reportSuccess(p)
  \/ discardLink(p)
  \/ syncDirectory(p, "syncDiscard", "unstage")
  \/ removeStage(p, "unstage", "unlock")

-----------------------------------------------------------------------------
(* Failures.                                                                 *)

\* Where the error return of each step goes on: the deferred calls that are pending.
onError(label) ==
  CASE label \in {"createFile", "begin", "applySQL", "seed", "record", "commit", "validate",
                  "inspect", "pruneEvents", "openPools", "loadKey", "stage"} -> "unlock"
    [] label \in {"copy", "recheck", "syncImage", "link", "syncDiscard"} -> "unstage"
    [] label \in {"syncLink", "removeStage", "syncRemoval", "report"} -> "discard"
    [] OTHER -> "idle"

\* The removals of an export fail in a way of their own (RemovalFails).
canFail(p) ==
  \/ pc[p] = "lock"
  \/ pc[p] \notin {"idle", "serving", "finishView", "awaitView", "unstage", "discard", "unlock"}

\* A step returns an error or finds its context ended.
Fault(p) ==
  /\ canFail(p)
  /\ Go(p, onError(pc[p]))
  /\ UNCHANGED <<workload, db, locks, op, tx, pools, cursorKey, snapshotVars, backup, crashes>>

\* os.Remove of the name fails in discardBackupLink or removePublishedBackup, or
\* os.RemoveAll of the stage in the deferred call: both stay, for the operator.
RemovalFails(p) ==
  /\ \/ /\ pc[p] = "discard"
        /\ kept' = [kept EXCEPT !.dest = dir.dest]
        /\ Go(p, "unstage")
     \/ /\ pc[p] = "unstage"
        /\ kept' = [kept EXCEPT !.stages = dir.stages]
        /\ Go(p, "unlock")
  /\ UNCHANGED <<workload, db, locks, op, tx, pools, cursorKey, snapshotVars, dir, synced, exported,
                 crashes>>

\* What the operating system takes back from processes that are gone.
Reclaim(gone) ==
  /\ shared' = shared \ gone /\ exclusive' = exclusive \ gone
  /\ pools' = pools \ gone
  /\ pc' = [p \in Procs |-> IF p \in gone THEN "idle" ELSE pc[p]]
  /\ tx' = [p \in Procs |-> IF p \in gone THEN NoFile ELSE tx[p]]
  /\ cursorKey' = [p \in Procs |-> IF p \in gone THEN NoKey ELSE cursorKey[p]]
  /\ view' = [p \in Procs |-> IF p \in gone THEN NoView ELSE view[p]]
  /\ query' = [p \in Procs |-> IF p \in gone THEN [q \in Queries |-> "idle"] ELSE query[p]]
  /\ closer' = [p \in Procs |-> IF p \in gone THEN "idle" ELSE closer[p]]
  /\ kept' = EmptyDirectory

Crash(p) ==
  /\ pc[p] # "idle"
  /\ crashes < MaxCrashes
  /\ crashes' = crashes + 1
  /\ Reclaim({p})
  /\ UNCHANGED <<workload, db, op, dir, synced, exported>>

\* Each unsynced change of the directory survives, or it does not.
PowerLoss ==
  /\ crashes < MaxCrashes
  /\ crashes' = crashes + 1
  /\ Reclaim(Procs)
  /\ \E dest \in {dir.dest, synced.dest}, stages \in SUBSET (dir.stages \cup synced.stages) :
       /\ dir.stages \cap synced.stages \subseteq stages
       /\ dir' = [dest |-> dest, stages |-> stages]
       /\ synced' = dir'
  /\ UNCHANGED <<workload, db, op, exported>>

exporting(p) ==
  pc[p] \in {"copy", "recheck", "syncImage", "link", "syncLink", "removeStage", "syncRemoval",
             "report", "discard", "syncDiscard", "unstage"}

\* The README tells the operator to remove what an interrupted export left behind.
OperatorCleans ==
  /\ dir.stages # {} /\ \A p \in Procs : ~ exporting(p)
  /\ dir' = [dir EXCEPT !.stages = {}] /\ kept' = [kept EXCEPT !.stages = {}]
  /\ UNCHANGED <<workload, db, locks, pc, op, tx, pools, cursorKey, snapshotVars, synced, exported,
                 crashes>>

Migrate(p) ==
  createFile(p) \/ beginMigration(p) \/ applySQL(p) \/ seedInitialCursorKey(p)
  \/ recordMigration(p) \/ commitMigration(p)

\* What a process does without being asked again, and so does not put off forever.
Step(p) ==
  \/ Lock(p) \/ LockTimeout(p) \/ Unlock(p)
  \/ Migrate(p) \/ Export(p)
  \/ PlanMigrations(p) \/ validateSchemaUnderSharedLock(p) \/ fullIntegrityCheck(p) \/ pruneEvents(p)
  \/ openExistingDatabase(p) \/ newStoreFromDatabase(p) \/ FinishByStore(p) \/ AwaitView(p)

QueryStep(p, q) == ReadQuery(p, q) \/ ReleaseQuery(p, q) \/ FinishByQuery(p, q)

Next ==
  \/ \E p \in Procs :
       \/ Start(p) \/ Step(p) \/ Fault(p) \/ RemovalFails(p) \/ Crash(p)
       \/ Commit(p) \/ OpenSnapshot(p) \/ CloseSnapshot(p) \/ CloseStore(p)
       \/ \E q \in Queries : AdmitQuery(p, q) \/ QueryStep(p, q)
  \/ PowerLoss
  \/ OperatorCleans

\* A goroutine that can go on does: the kernel grants a free lock to the next poll, a
\* query of a snapshot ends.
Spec ==
  /\ Init /\ [][Next]_vars
  /\ \A p \in Procs :
       /\ WF_vars(Step(p))
       /\ WF_vars(closer[p] # "idle" /\ CloseSnapshot(p))
       /\ \A q \in Queries : WF_vars(QueryStep(p, q))

-----------------------------------------------------------------------------
(* Properties.                                                               *)

reading(p) == \E q \in Queries : query[p][q] = "reading"

\* A maintenance command that holds the exclusive lock shares the file with no
\* connection of another process, and a read of a snapshot runs only on a connection
\* that is not yet detached, of a store whose pools are open: Close of the snapshot and
\* of the store, racing each other and the reads, wait for them before anything is let go.
MaintenanceIsAlone ==
  /\ \A p \in exclusive : pools \subseteq {p}
  /\ \A p \in Procs :
       reading(p) => view[p].pinned /\ ~ view[p].done /\ (op[p] = "open" => p \in pools \cap shared)

\* The committed file always has the schema of its ledger and a cursor key from its
\* first migration on, wherever ApplyMigrations was cut off, and a running store seals
\* its cursors with the key of the file it has open.
MigrationIsAtomic ==
  /\ db.ledger = db.schema
  /\ (db.key # NoKey) = (db.ledger > 0)
  /\ \A p \in Procs : pc[p] = "serving" /\ op[p] = "open" => migrated /\ cursorKey[p] = db.key

\* The destination of an export names nothing or an image whose bytes are on disk, with
\* the key and ledger of the source, at every moment and after any power loss; the image
\* is the source's present state for as long as the export runs; a reported success is
\* durable; and without a crash the directory holds, between exports, the one that was
\* reported and nothing else but what a failed export tried to remove and could not.
ExportsAreWhole ==
  /\ \A image \in {dir.dest, synced.dest} \ {NoImage} :
       image.synced /\ image.key = db.key /\ image.ledger = db.ledger
  /\ \A p \in Procs :
       pc[p] \in {"recheck", "syncImage", "link", "syncLink", "removeStage", "syncRemoval", "report"}
       => tx[p].version = db.version
  /\ exported # NoImage => dir.dest = exported /\ synced.dest = exported
  /\ crashes = 0 /\ (\A p \in Procs : ~ exporting(p)) =>
       dir.stages \subseteq kept.stages /\ dir.dest \in {exported, kept.dest}

\* A store that is being closed gets closed, whatever its snapshot's readers and users
\* do, and a command with the BusyTimeout returns even when the file stays locked.
CallsEnd ==
  \A p \in Procs :
    (\/ pc[p] \in {"finishView", "awaitView"}
     \/ pc[p] # "idle" /\ op[p] \in {"check", "prune", "export"})
    ~> (pc[p] = "idle")

=============================================================================
