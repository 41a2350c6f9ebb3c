------------------------- MODULE SqliteFile_proofs --------------------------
(***************************************************************************)
(* Proofs about the processes that share a database file, for any number   *)
(* of processes, of readers of a snapshot and of embedded migrations: who  *)
(* holds the advisory lock of locking_unix.go, that a migration is atomic, *)
(* that maintenance is alone with the file, that a snapshot is let go of   *)
(* only once it is unread, and that a backup is whole and a reported one   *)
(* durable.                                                                *)
(***************************************************************************)
EXTENDS SqliteFile, Counting, TLAPS

-----------------------------------------------------------------------------
(* Who is where, and who holds the lock.                                     *)

migrateLabels == {"createFile", "begin", "applySQL", "seed", "record", "commit"}

offlineLabels ==
  {"inspect", "pruneEvents", "stage", "copy", "recheck", "syncImage", "link", "syncLink",
   "removeStage", "syncRemoval", "report", "discard", "syncDiscard", "unstage"}

servingLabels == {"serving", "finishView", "awaitView"}

Labels ==
  {"idle", "lock", "unlock", "validate", "openPools", "loadKey"}
  \cup migrateLabels \cup offlineLabels \cup servingLabels

LockTypes ==
  /\ workload \in [Procs -> SUBSET Commands]
  /\ pc \in [Procs -> Labels]
  /\ op \in [Procs -> Commands]
  /\ shared \subseteq Procs /\ exclusive \subseteq Procs /\ pools \subseteq Procs

\* A label is reached only by the commands that have it.
commandAt(c, label) ==
  /\ label = "lock" => c # "memory"
  /\ label \in migrateLabels => c = "migrate"
  /\ label \in offlineLabels => c \in {"check", "prune", "export"}
  /\ label = "validate" => c \in {"plan", "validate", "open"}
  /\ label \in {"openPools", "loadKey", "finishView"} => c = "open"
  /\ label \in {"serving", "awaitView"} => c \in {"open", "memory"}

holding(p) == pc[p] \notin {"idle", "lock"}

usesExclusive(c) == c \in {"migrate", "check", "prune", "export"}

\* The lock is held by exactly the commands between Lock and Unlock, an exclusive holder
\* is alone, and whoever has connections holds the lock.
LockInv ==
  /\ LockTypes
  /\ \A p \in Procs :
       /\ commandAt(op[p], pc[p])
       /\ p \in shared <=> holding(p) /\ usesShared(op[p])
       /\ p \in exclusive <=> holding(p) /\ usesExclusive(op[p])
       /\ op[p] = "open" /\ pc[p] \in servingLabels \cup {"loadKey"} => p \in pools
  /\ \A p \in exclusive : exclusive \subseteq {p} /\ shared = {}
  /\ pools \subseteq shared \cup exclusive

\* Nobody holds anything at first.
LEMMA LockInit == Init => LockInv
BY FileAssumption, SMTT(60)
   DEF Init, LockInv, LockTypes, Commands, Labels, commandAt, holding, usesShared, usesExclusive,
       migrateLabels, offlineLabels, servingLabels

\* A process that holds the lock goes on within its command, opening connections or not.
LEMMA LockMove ==
  ASSUME LockInv, NEW p \in Procs, NEW label \in Labels \ {"idle", "lock"},
         holding(p), commandAt(op[p], label),
         UNCHANGED <<workload, op, shared, exclusive>>,
         pc' = [pc EXCEPT ![p] = label],
         pools' = pools \/ (pools' = pools \cup {p} /\ op[p] # "memory"),
         label \in servingLabels \cup {"loadKey"} /\ op[p] = "open" => p \in pools'
  PROVE  LockInv'
<1>1. LockTypes'
  BY DEF LockInv, LockTypes
<1>2. ASSUME NEW q \in Procs
      PROVE  /\ commandAt(op[q], pc[q])'
             /\ (q \in shared <=> holding(q) /\ usesShared(op[q]))'
             /\ (q \in exclusive <=> holding(q) /\ usesExclusive(op[q]))'
             /\ (op[q] = "open" /\ pc[q] \in servingLabels \cup {"loadKey"} => q \in pools)'
  <2>1. CASE q = p
    BY <2>1 DEF LockInv, LockTypes, holding, usesShared, usesExclusive, commandAt
  <2>2. CASE q # p
    BY <2>2 DEF LockInv, LockTypes, holding, usesShared, usesExclusive, commandAt
  <2> QED
    BY <2>1, <2>2
<1>3. p \in shared \cup exclusive \/ op[p] = "memory"
  BY DEF LockInv, LockTypes, Commands, usesShared, usesExclusive
<1> QED
  BY <1>1, <1>2, <1>3 DEF LockInv

\* A step that moves nobody and leaves the lock alone.
LEMMA LockStutter ==
  ASSUME LockInv, UNCHANGED <<workload, op, shared, exclusive, pc, pools>>
  PROVE  LockInv'
BY DEF LockInv, LockTypes, holding, usesShared, usesExclusive, commandAt

\* A command starts without the lock; a memory store needs none.
LEMMA LockStart ==
  ASSUME LockInv, NEW p \in Procs, Start(p)
  PROVE  LockInv'
<1>1. PICK c \in workload[p] :
        /\ op' = [op EXCEPT ![p] = c]
        /\ pc' = [pc EXCEPT ![p] = IF c = "memory" THEN "serving" ELSE "lock"]
  BY Zenon DEF Start, Go
<1>2. c \in Commands /\ ~ holding(p)
  BY DEF LockInv, LockTypes, Start, holding
<1>3. UNCHANGED <<workload, shared, exclusive, pools>>
  BY DEF Start, locks
<1>4. LockTypes'
  BY <1>1, <1>2, <1>3 DEF LockInv, LockTypes, Labels, servingLabels
<1>5. p \notin shared /\ p \notin exclusive
  BY <1>2 DEF LockInv
<1>6. ASSUME NEW q \in Procs
      PROVE  /\ commandAt(op[q], pc[q])'
             /\ (q \in shared <=> holding(q) /\ usesShared(op[q]))'
             /\ (q \in exclusive <=> holding(q) /\ usesExclusive(op[q]))'
             /\ (op[q] = "open" /\ pc[q] \in servingLabels \cup {"loadKey"} => q \in pools)'
  <2>1. CASE q = p
    BY <2>1, <1>1, <1>2, <1>3, <1>5
       DEF LockInv, LockTypes, holding, usesShared, usesExclusive, commandAt, migrateLabels,
           offlineLabels, servingLabels
  <2>2. CASE q # p
    BY <2>2, <1>1, <1>3 DEF LockInv, LockTypes, holding, usesShared, usesExclusive, commandAt
  <2> QED
    BY <2>1, <2>2
<1> QED
  BY <1>3, <1>4, <1>6 DEF LockInv

\* flock grants the lock when no incompatible holder is left.
LEMMA LockTaken ==
  ASSUME LockInv, NEW p \in Procs, Lock(p)
  PROVE  LockInv'
<1>1. /\ pc[p] = "lock" /\ pc' = [pc EXCEPT ![p] = firstStep(p)]
      /\ UNCHANGED <<workload, op, pools>>
      /\ exclusive \ {p} = {} /\ (~ usesShared(op[p]) => shared \ {p} = {})
      /\ IF usesShared(op[p])
           THEN shared' = shared \cup {p} /\ exclusive' = exclusive
           ELSE exclusive' = exclusive \cup {p} /\ shared' = shared
  BY DEF Lock, Go, compatible
<1>2. op[p] \in Commands \ {"memory"} /\ p \notin shared /\ p \notin exclusive
  BY <1>1 DEF LockInv, LockTypes, commandAt, holding
<1>3. /\ firstStep(p) \in Labels \ {"idle", "lock"}
      /\ commandAt(op[p], firstStep(p))
      /\ firstStep(p) \notin servingLabels \cup {"loadKey"}
      /\ usesShared(op[p]) # usesExclusive(op[p])
  BY <1>2
     DEF Commands, firstStep, Labels, commandAt, migrateLabels, offlineLabels, servingLabels,
         usesShared, usesExclusive
<1>4. LockTypes'
  BY <1>1, <1>3 DEF LockInv, LockTypes
<1>5. ASSUME NEW q \in Procs
      PROVE  /\ commandAt(op[q], pc[q])'
             /\ (q \in shared <=> holding(q) /\ usesShared(op[q]))'
             /\ (q \in exclusive <=> holding(q) /\ usesExclusive(op[q]))'
             /\ (op[q] = "open" /\ pc[q] \in servingLabels \cup {"loadKey"} => q \in pools)'
  <2>1. CASE q = p
    BY <2>1, <1>1, <1>2, <1>3
       DEF LockInv, LockTypes, holding, commandAt, usesShared, usesExclusive
  <2>2. CASE q # p
    BY <2>2, <1>1 DEF LockInv, LockTypes, holding, commandAt, usesShared, usesExclusive
  <2> QED
    BY <2>1, <2>2
<1>6. \A q \in exclusive' : exclusive' \subseteq {q} /\ shared' = {}
  BY <1>1, <1>2 DEF LockInv
<1>7. pools' \subseteq shared' \cup exclusive'
  BY <1>1 DEF LockInv
<1> QED
  BY <1>4, <1>5, <1>6, <1>7 DEF LockInv

\* Processes that leave their commands take their locks and connections with them.
LEMMA LockLeft ==
  ASSUME LockInv, NEW gone \in SUBSET Procs,
         UNCHANGED <<workload, op>>,
         pc' = [p \in Procs |-> IF p \in gone THEN "idle" ELSE pc[p]],
         shared' = shared \ gone, exclusive' = exclusive \ gone, pools' = pools \ gone
  PROVE  LockInv'
<1>1. LockTypes'
  BY DEF LockInv, LockTypes, Labels
<1>2. ASSUME NEW q \in Procs
      PROVE  /\ commandAt(op[q], pc[q])'
             /\ (q \in shared <=> holding(q) /\ usesShared(op[q]))'
             /\ (q \in exclusive <=> holding(q) /\ usesExclusive(op[q]))'
             /\ (op[q] = "open" /\ pc[q] \in servingLabels \cup {"loadKey"} => q \in pools)'
  BY DEF LockInv, LockTypes, holding, commandAt, usesShared, usesExclusive, migrateLabels,
         offlineLabels, servingLabels
<1> QED
  BY <1>1, <1>2 DEF LockInv

\* ApplyMigrations between its lock and its unlock.
LEMMA LockMigrate ==
  ASSUME LockInv, NEW p \in Procs, Migrate(p)
  PROVE  LockInv'
<1> USE DEF LockTypes, Labels, migrateLabels, offlineLabels, servingLabels, holding, commandAt
<1>1. PICK label \in Labels \ {"idle", "lock"} :
        /\ pc' = [pc EXCEPT ![p] = label] /\ commandAt(op[p], label)
        /\ label \in servingLabels \cup {"loadKey"} /\ op[p] = "open" => p \in pools'
  BY DEF Migrate, createFile, beginMigration, applySQL, seedInitialCursorKey, recordMigration,
         commitMigration, Go, LockInv
<1>2. /\ holding(p) /\ UNCHANGED <<workload, op, shared, exclusive>>
      /\ pools' = pools \/ (pools' = pools \cup {p} /\ op[p] # "memory")
  BY Zenon DEF Migrate, createFile, beginMigration, applySQL, seedInitialCursorKey, recordMigration,
         commitMigration, Go, locks, LockInv
<1> QED
  BY <1>1, <1>2, LockMove, Zenon

\* ExportAuditBackup once the source was checked.
LEMMA LockExport ==
  ASSUME LockInv, NEW p \in Procs, Export(p)
  PROVE  LockInv'
<1> USE DEF LockTypes, Labels, migrateLabels, offlineLabels, servingLabels, holding, commandAt
<1>1. PICK label \in Labels \ {"idle", "lock"} :
        /\ pc' = [pc EXCEPT ![p] = label] /\ commandAt(op[p], label)
        /\ label \in servingLabels \cup {"loadKey"} /\ op[p] = "open" => p \in pools'
  BY Zenon DEF Export, makeStage, copyBackupRows, ensureCleanBackupDestination, syncImage, linkImage,
         syncDirectory, removeStage, reportSuccess, discardLink, Go, LockInv
<1>2. /\ holding(p) /\ UNCHANGED <<workload, op, shared, exclusive>>
      /\ pools' = pools \/ (pools' = pools \cup {p} /\ op[p] # "memory")
  BY DEF Export, makeStage, copyBackupRows, ensureCleanBackupDestination, syncImage, linkImage,
         syncDirectory, removeStage, reportSuccess, discardLink, Go, locks, LockInv
<1> QED
  BY <1>1, <1>2, LockMove, Zenon

\* The checks of an exclusive command, the prune, and the plan.
LEMMA LockInspect ==
  ASSUME LockInv, NEW p \in Procs, fullIntegrityCheck(p) \/ pruneEvents(p) \/ PlanMigrations(p)
  PROVE  LockInv'
<1> USE DEF LockTypes, Labels, migrateLabels, offlineLabels, servingLabels, holding, commandAt
<1>1. PICK label \in Labels \ {"idle", "lock"} :
        /\ pc' = [pc EXCEPT ![p] = label] /\ commandAt(op[p], label)
        /\ label \in servingLabels \cup {"loadKey"} /\ op[p] = "open" => p \in pools'
  BY DEF fullIntegrityCheck, pruneEvents, PlanMigrations, Go, LockInv
<1>2. /\ holding(p) /\ UNCHANGED <<workload, op, shared, exclusive>>
      /\ pools' = pools \/ (pools' = pools \cup {p} /\ op[p] # "memory")
  BY DEF fullIntegrityCheck, pruneEvents, PlanMigrations, Go, locks, LockInv
<1> QED
  BY <1>1, <1>2, LockMove, Zenon

\* Open after the schema was validated.
LEMMA LockOpen ==
  ASSUME LockInv, NEW p \in Procs, openExistingDatabase(p) \/ newStoreFromDatabase(p)
  PROVE  LockInv'
<1> USE DEF LockTypes, Labels, migrateLabels, offlineLabels, servingLabels, holding, commandAt
<1>1. PICK label \in Labels \ {"idle", "lock"} :
        /\ pc' = [pc EXCEPT ![p] = label] /\ commandAt(op[p], label)
        /\ label \in servingLabels \cup {"loadKey"} /\ op[p] = "open" => p \in pools'
  BY DEF openExistingDatabase, newStoreFromDatabase, Go, LockInv
<1>2. /\ holding(p) /\ UNCHANGED <<workload, op, shared, exclusive>>
      /\ pools' = pools \/ (pools' = pools \cup {p} /\ op[p] # "memory")
  BY DEF openExistingDatabase, newStoreFromDatabase, Go, locks, LockInv
<1> QED
  BY <1>1, <1>2, LockMove, Zenon

\* Store.Close up to the release of the lock.
LEMMA LockClose ==
  ASSUME LockInv, NEW p \in Procs, CloseStore(p) \/ FinishByStore(p) \/ AwaitView(p)
  PROVE  LockInv'
<1> USE DEF LockTypes, Labels, migrateLabels, offlineLabels, servingLabels, holding, commandAt
<1>1. PICK label \in Labels \ {"idle", "lock"} :
        /\ pc' = [pc EXCEPT ![p] = label] /\ commandAt(op[p], label)
        /\ label \in servingLabels \cup {"loadKey"} /\ op[p] = "open" => p \in pools'
  BY DEF CloseStore, FinishByStore, AwaitView, mustFinish, Go, LockInv
<1>2. /\ holding(p) /\ UNCHANGED <<workload, op, shared, exclusive>>
      /\ pools' = pools \/ (pools' = pools \cup {p} /\ op[p] # "memory")
  BY Zenon DEF CloseStore, FinishByStore, AwaitView, mustFinish, Go, locks, LockInv
<1> QED
  BY <1>1, <1>2, LockMove, Zenon

\* ValidateSchema, and the validation in Open, which decides whether Open goes on.
LEMMA LockValidate ==
  ASSUME LockInv, NEW p \in Procs, validateSchemaUnderSharedLock(p)
  PROVE  LockInv'
<1> USE DEF LockTypes, Labels, migrateLabels, offlineLabels, servingLabels, holding, commandAt
<1>1. \/ op[p] = "open" /\ pc' = [pc EXCEPT ![p] = "openPools"]
      \/ pc' = [pc EXCEPT ![p] = "unlock"]
  <2>1. CASE op[p] = "open" /\ db.exists /\ migrated
    BY <2>1 DEF validateSchemaUnderSharedLock, Go
  <2>2. CASE ~ (op[p] = "open" /\ db.exists /\ migrated)
    BY <2>2, Zenon DEF validateSchemaUnderSharedLock, Go
  <2> QED
    BY <2>1, <2>2
<1>2. /\ holding(p) /\ UNCHANGED <<workload, op, shared, exclusive>>
      /\ pools' = pools
  BY DEF validateSchemaUnderSharedLock, locks
<1> QED
  BY <1>1, <1>2, LockMove

\* A failed step goes to the deferred calls that are pending.
LEMMA LockFault ==
  ASSUME LockInv, NEW p \in Procs, Fault(p)
  PROVE  LockInv'
<1> USE DEF LockTypes, Labels, migrateLabels, offlineLabels, servingLabels, holding, commandAt
<1>1. /\ pc' = [pc EXCEPT ![p] = onError(pc[p])]
      /\ UNCHANGED <<workload, op, shared, exclusive, pools>>
  BY DEF Fault, Go, locks
<1>2. CASE pc[p] = "lock"
  <2>1. p \notin shared /\ p \notin exclusive /\ p \notin pools
    BY <1>2 DEF LockInv
  <2>2. pc' = [q \in Procs |-> IF q \in {p} THEN "idle" ELSE pc[q]]
    BY <1>1, <1>2, Zenon DEF LockInv, onError
  <2>3. shared' = shared \ {p} /\ exclusive' = exclusive \ {p} /\ pools' = pools \ {p}
    BY <1>1, <2>1
  <2> QED
    BY <1>1, <2>2, <2>3, LockLeft, Zenon
<1>3. CASE pc[p] # "lock"
  <2>1. /\ holding(p) /\ onError(pc[p]) \in {"unlock", "unstage", "discard"}
        /\ onError(pc[p]) # "unlock" => pc[p] \in offlineLabels
    BY <1>3 DEF Fault, canFail, LockInv, onError
  <2>2. commandAt(op[p], onError(pc[p]))
    BY <2>1 DEF LockInv
  <2> QED
    BY <1>1, <2>1, <2>2, LockMove, Zenon
<1> QED
  BY <1>2, <1>3

\* A removal that fails is given up.
LEMMA LockKept ==
  ASSUME LockInv, NEW p \in Procs, RemovalFails(p)
  PROVE  LockInv'
<1> USE DEF LockTypes, Labels, migrateLabels, offlineLabels, servingLabels, holding, commandAt
<1>1. PICK label \in {"unstage", "unlock"} :
        pc' = [pc EXCEPT ![p] = label] /\ UNCHANGED <<workload, op, shared, exclusive, pools>>
  BY Zenon DEF RemovalFails, Go, locks
<1>2. holding(p) /\ commandAt(op[p], label)
  BY DEF RemovalFails, LockInv
<1> QED
  BY <1>1, <1>2, LockMove, Zenon

\* Every step keeps the lock with those who are entitled to it.
LEMMA LockStep == LockInv /\ [Next]_vars => LockInv'
<1> SUFFICES ASSUME LockInv, [Next]_vars PROVE LockInv'
  OBVIOUS
<1>1. ASSUME NEW p \in Procs, Start(p) PROVE LockInv'
  BY <1>1, LockStart
<1>2. ASSUME NEW p \in Procs, Lock(p) PROVE LockInv'
  BY <1>2, LockTaken
<1>3. ASSUME NEW p \in Procs, LockTimeout(p) PROVE LockInv'
  <2>1. p \notin shared /\ p \notin exclusive /\ p \notin pools
    BY <1>3 DEF LockTimeout, LockInv, holding
  <2>2. /\ pc' = [q \in Procs |-> IF q \in {p} THEN "idle" ELSE pc[q]]
        /\ UNCHANGED <<workload, op, shared, exclusive, pools>>
    BY <1>3, Zenon DEF LockTimeout, Go, locks, LockInv, LockTypes
  <2>3. shared' = shared \ {p} /\ exclusive' = exclusive \ {p} /\ pools' = pools \ {p}
    BY <2>1, <2>2
  <2> QED
    BY <2>2, <2>3, LockLeft, Zenon
<1>4. ASSUME NEW p \in Procs, Unlock(p) PROVE LockInv'
  <2>1. /\ pc' = [q \in Procs |-> IF q \in {p} THEN "idle" ELSE pc[q]]
        /\ UNCHANGED <<workload, op>>
        /\ shared' = shared \ {p} /\ exclusive' = exclusive \ {p} /\ pools' = pools \ {p}
    BY <1>4, Zenon DEF Unlock, Go, LockInv, LockTypes
  <2> QED
    BY <2>1, LockLeft, Zenon
<1>5. ASSUME NEW p \in Procs, Crash(p) PROVE LockInv'
  <2>1. /\ pc' = [q \in Procs |-> IF q \in {p} THEN "idle" ELSE pc[q]]
        /\ UNCHANGED <<workload, op>>
        /\ shared' = shared \ {p} /\ exclusive' = exclusive \ {p} /\ pools' = pools \ {p}
    BY <1>5 DEF Crash, Reclaim
  <2> QED
    BY <2>1, LockLeft, Zenon
<1>6. ASSUME PowerLoss PROVE LockInv'
  <2>1. /\ pc' = [q \in Procs |-> IF q \in Procs THEN "idle" ELSE pc[q]]
        /\ UNCHANGED <<workload, op>>
        /\ shared' = shared \ Procs /\ exclusive' = exclusive \ Procs /\ pools' = pools \ Procs
    BY <1>6 DEF PowerLoss, Reclaim
  <2> QED
    BY <2>1, LockLeft, Zenon
<1>7. ASSUME NEW p \in Procs, Migrate(p) \/ Export(p) \/ fullIntegrityCheck(p) \/ pruneEvents(p)
                              \/ PlanMigrations(p)
      PROVE  LockInv'
  BY <1>7, LockMigrate, LockExport, LockInspect
<1>8. ASSUME NEW p \in Procs, validateSchemaUnderSharedLock(p) \/ openExistingDatabase(p)
                              \/ newStoreFromDatabase(p) \/ Fault(p) \/ RemovalFails(p)
      PROVE  LockInv'
  BY <1>8, LockValidate, LockOpen, LockFault, LockKept
<1>9. ASSUME NEW p \in Procs, CloseStore(p) \/ FinishByStore(p) \/ AwaitView(p)
      PROVE  LockInv'
  BY <1>9, LockClose
<1>10. ASSUME NEW p \in Procs, Commit(p) \/ OpenSnapshot(p) \/ CloseSnapshot(p)
       PROVE  LockInv'
  BY <1>10, LockStutter, Zenon DEF Commit, OpenSnapshot, CloseSnapshot, locks
<1>11. ASSUME NEW p \in Procs, NEW q \in Queries, AdmitQuery(p, q) \/ QueryStep(p, q)
       PROVE  LockInv'
  BY <1>11, LockStutter DEF AdmitQuery, QueryStep, ReadQuery, ReleaseQuery, FinishByQuery, locks
<1>12. CASE OperatorCleans \/ UNCHANGED vars
  BY <1>12, LockStutter DEF OperatorCleans, vars, locks
<1> QED
  BY <1>1, <1>2, <1>3, <1>4, <1>5, <1>6, <1>7, <1>8, <1>9, <1>10, <1>11, <1>12 DEF Next, Step

\* The lock discipline of locking_unix.go, as every later proof uses it.
THEOREM LocksHeldExactly == Spec => []LockInv
<1>1. Init => LockInv
  BY LockInit
<1>2. LockInv /\ [Next]_vars => LockInv'
  BY LockStep, Zenon
<1> QED
  BY <1>1, <1>2, PTL DEF Spec

-----------------------------------------------------------------------------
(* Migrations.                                                               *)

File ==
  [exists : BOOLEAN, ledger : Nat, schema : Nat, key : Keys \cup {NoKey}, version : Nat]

consistent(f) == f.ledger = f.schema /\ (f.key # NoKey <=> f.ledger > 0)

inTransaction == {"applySQL", "seed", "record", "commit"}

\* The file is consistent, and so is what an open transaction will have made of it when
\* its migration is recorded; a serving store has the key of the file.
MigrationInv ==
  /\ db \in File /\ consistent(db)
  /\ tx = [p \in Procs |-> tx[p]]
  /\ cursorKey \in [Procs -> Keys \cup {NoKey}]
  /\ \A p \in Procs :
       /\ pc[p] \in inTransaction => tx[p] \in File
       /\ pc[p] \in {"applySQL", "commit"} => consistent(tx[p])
       /\ pc[p] = "seed" => /\ tx[p].schema = tx[p].ledger + 1
                            /\ tx[p].key # NoKey <=> tx[p].ledger > 0
       /\ pc[p] = "record" => tx[p].schema = tx[p].ledger + 1 /\ tx[p].key # NoKey
       /\ pc[p] = "serving" /\ op[p] = "open" => migrated /\ cursorKey[p] = db.key

\* The file does not exist yet.
LEMMA MigrationInit == Init => MigrationInv
<1> SUFFICES ASSUME Init PROVE MigrationInv
  OBVIOUS
<1>1. NoFile \in File /\ consistent(NoFile)
  BY DEF NoFile, File, consistent
<1> QED
  BY <1>1 DEF Init, MigrationInv, inTransaction

\* Nobody enters or goes on with a transaction or starts to serve, and the schema, ledger
\* and key of the file are left alone.
LEMMA MigrationFrame ==
  ASSUME MigrationInv,
         db' \in File, db'.ledger = db.ledger, db'.schema = db.schema, db'.key = db.key,
         tx' = [p \in Procs |-> tx'[p]], cursorKey' \in [Procs -> Keys \cup {NoKey}],
         \A p \in Procs : pc'[p] \in inTransaction => pc'[p] = pc[p] /\ tx'[p] = tx[p],
         \A p \in Procs : pc'[p] = "serving" /\ op'[p] = "open" =>
           pc[p] = "serving" /\ op[p] = "open" /\ cursorKey'[p] = cursorKey[p]
  PROVE  MigrationInv'
<1>1. consistent(db)' /\ (migrated => migrated')
  BY Zenon DEF MigrationInv, consistent, migrated
<1>2. ASSUME NEW p \in Procs
      PROVE  /\ (pc[p] \in inTransaction => tx[p] \in File)'
             /\ (pc[p] \in {"applySQL", "commit"} => consistent(tx[p]))'
             /\ (pc[p] = "seed" => /\ tx[p].schema = tx[p].ledger + 1
                                   /\ tx[p].key # NoKey <=> tx[p].ledger > 0)'
             /\ (pc[p] = "record" => tx[p].schema = tx[p].ledger + 1 /\ tx[p].key # NoKey)'
    BY DEF MigrationInv, consistent, inTransaction
<1>3. ASSUME NEW p \in Procs, pc'[p] = "serving", op'[p] = "open"
      PROVE  (migrated /\ cursorKey[p] = db.key)'
    BY <1>1, <1>3, Zenon DEF MigrationInv
<1> QED
  BY <1>1, <1>2, <1>3 DEF MigrationInv

\* The transaction starts from the committed file.
LEMMA MigrationBegins ==
  ASSUME LockInv, MigrationInv, NEW p \in Procs, beginMigration(p)
  PROVE  MigrationInv'
<1>1. /\ UNCHANGED <<db, op, cursorKey>> /\ tx' = [tx EXCEPT ![p] = db]
      /\ pc' = [pc EXCEPT ![p] = IF db.ledger = EmbeddedMigrations THEN "commit" ELSE "applySQL"]
  BY DEF beginMigration, Go
<1>2. tx' = [q \in Procs |-> tx'[q]] /\ tx'[p] = db /\ \A q \in Procs \ {p} : tx'[q] = tx[q]
  BY <1>1 DEF MigrationInv
<1>3. pc'[p] \in {"applySQL", "commit"} /\ \A q \in Procs \ {p} : pc'[q] = pc[q]
  BY <1>1 DEF LockInv, LockTypes
<1> QED
  BY <1>1, <1>2, <1>3 DEF MigrationInv, consistent, migrated, inTransaction

\* The script of the next migration runs in the transaction.
LEMMA MigrationApplies ==
  ASSUME LockInv, MigrationInv, NEW p \in Procs, applySQL(p)
  PROVE  MigrationInv'
<1>1. /\ pc[p] = "applySQL" /\ UNCHANGED <<db, op, cursorKey>>
      /\ tx' = [tx EXCEPT ![p] = [tx[p] EXCEPT !.schema = tx[p].schema + 1]]
      /\ pc' = [pc EXCEPT ![p] = "seed"]
  BY DEF applySQL, Go
<1>2. tx[p] \in File /\ consistent(tx[p])
  BY <1>1 DEF MigrationInv, inTransaction
<1>3. /\ tx' = [q \in Procs |-> tx'[q]] /\ \A q \in Procs \ {p} : tx'[q] = tx[q]
      /\ tx'[p] = [tx[p] EXCEPT !.schema = tx[p].schema + 1]
  BY <1>1 DEF MigrationInv
<1>4. /\ tx'[p] \in File /\ tx'[p].schema = tx'[p].ledger + 1
      /\ tx'[p].key # NoKey <=> tx'[p].ledger > 0
  BY <1>2, <1>3 DEF File, consistent
<1>5. pc'[p] = "seed" /\ \A q \in Procs \ {p} : pc'[q] = pc[q]
  BY <1>1 DEF LockInv, LockTypes
<1> QED
  BY <1>1, <1>3, <1>4, <1>5 DEF MigrationInv, consistent, migrated, inTransaction

\* The first migration makes the key, the later ones keep it.
LEMMA MigrationSeeds ==
  ASSUME LockInv, MigrationInv, NEW p \in Procs, seedInitialCursorKey(p)
  PROVE  MigrationInv'
<1>1. /\ pc[p] = "seed" /\ UNCHANGED <<db, op, cursorKey>>
      /\ pc' = [pc EXCEPT ![p] = "record"]
  BY DEF seedInitialCursorKey, Go
<1>2. /\ tx[p] \in File /\ tx[p].schema = tx[p].ledger + 1
      /\ tx[p].key # NoKey <=> tx[p].ledger > 0
  BY <1>1 DEF MigrationInv, inTransaction
<1>3. /\ tx' = [q \in Procs |-> tx'[q]] /\ \A q \in Procs \ {p} : tx'[q] = tx[q]
      /\ tx'[p] \in File /\ tx'[p].schema = tx'[p].ledger + 1 /\ tx'[p].key # NoKey
  <2>1. CASE tx[p].schema = 1
    <3>1. PICK key \in Keys : tx' = [tx EXCEPT ![p] = [tx[p] EXCEPT !.key = key]]
      BY <2>1 DEF seedInitialCursorKey
    <3>2. key # NoKey
      BY FileAssumption
    <3>3. tx'[p] = [tx[p] EXCEPT !.key = key]
      BY <3>1, Zenon DEF MigrationInv
    <3> QED
      BY <1>2, <3>1, <3>2, <3>3 DEF MigrationInv, File
  <2>2. CASE tx[p].schema # 1
    <3>1. tx' = tx
      BY <2>2 DEF seedInitialCursorKey
    <3>2. tx[p].ledger \in Nat /\ tx[p].ledger # 0
      BY <1>2, <2>2 DEF File
    <3> QED
      BY <1>2, <3>1, <3>2 DEF MigrationInv
  <2> QED
    BY <2>1, <2>2
<1>4. pc'[p] = "record" /\ \A q \in Procs \ {p} : pc'[q] = pc[q]
  BY <1>1 DEF LockInv, LockTypes
<1> QED
  BY <1>1, <1>3, <1>4 DEF MigrationInv, consistent, migrated, inTransaction

\* The ledger follows the schema, and the transaction is consistent again.
LEMMA MigrationRecords ==
  ASSUME LockInv, MigrationInv, NEW p \in Procs, recordMigration(p)
  PROVE  MigrationInv'
<1>1. /\ pc[p] = "record" /\ UNCHANGED <<db, op, cursorKey>>
      /\ tx' = [tx EXCEPT ![p] = [tx[p] EXCEPT !.ledger = tx[p].ledger + 1]]
      /\ pc' = [pc EXCEPT ![p] = IF tx[p].ledger + 1 = EmbeddedMigrations
                                   THEN "commit" ELSE "applySQL"]
  BY DEF recordMigration, Go
<1>2. tx[p] \in File /\ tx[p].schema = tx[p].ledger + 1 /\ tx[p].key # NoKey
  BY <1>1 DEF MigrationInv, inTransaction
<1>3. /\ tx' = [q \in Procs |-> tx'[q]] /\ \A q \in Procs \ {p} : tx'[q] = tx[q]
      /\ tx'[p] = [tx[p] EXCEPT !.ledger = tx[p].ledger + 1]
  BY <1>1 DEF MigrationInv
<1>4. tx'[p] \in File /\ consistent(tx'[p])
  BY <1>2, <1>3 DEF File, consistent
<1>5. pc'[p] \in {"applySQL", "commit"} /\ \A q \in Procs \ {p} : pc'[q] = pc[q]
  BY <1>1 DEF LockInv, LockTypes
<1>6. /\ UNCHANGED <<db, op, cursorKey>> /\ tx' = [q \in Procs |-> tx'[q]]
      /\ \A q \in Procs \ {p} : tx'[q] = tx[q]
  BY <1>1, <1>3, Zenon
<1> QED
  BY <1>4, <1>5, <1>6 DEF MigrationInv, consistent, migrated, inTransaction

\* The committer is alone with the file, so no store serves with another key.
LEMMA MigrationCommits ==
  ASSUME LockInv, MigrationInv, NEW p \in Procs, commitMigration(p)
  PROVE  MigrationInv'
<1>1. /\ pc[p] = "commit" /\ UNCHANGED <<tx, op, cursorKey>> /\ db' = tx[p]
      /\ pc' = [pc EXCEPT ![p] = "unlock"]
  BY DEF commitMigration, Go
<1>2. tx[p] \in File /\ consistent(tx[p])
  BY <1>1, Zenon DEF MigrationInv, inTransaction
<1>3. p \in exclusive
  BY <1>1 DEF LockInv, commandAt, migrateLabels, holding, usesExclusive
<1>4. shared = {}
  BY <1>3, Zenon DEF LockInv
<1>5. \A q \in Procs : ~ (pc[q] = "serving" /\ op[q] = "open")
  BY <1>4 DEF LockInv, holding, usesShared
<1>6. pc'[p] = "unlock" /\ \A q \in Procs \ {p} : pc'[q] = pc[q]
  BY <1>1 DEF LockInv, LockTypes
<1> QED
  BY <1>1, <1>2, <1>5, <1>6 DEF MigrationInv, consistent, inTransaction

\* Open serves a file it found migrated, with the key it found.
LEMMA MigrationServes ==
  ASSUME LockInv, MigrationInv, NEW p \in Procs, newStoreFromDatabase(p)
  PROVE  MigrationInv'
<1>1. UNCHANGED <<db, tx, op>>
  BY Zenon DEF newStoreFromDatabase
<1>2. CASE migrated
  <2>1. cursorKey' = [cursorKey EXCEPT ![p] = db.key] /\ pc' = [pc EXCEPT ![p] = "serving"]
    BY <1>2 DEF newStoreFromDatabase, Go
  <2>2. db.key \in Keys \cup {NoKey}
    BY DEF MigrationInv, File
  <2>3. /\ cursorKey' \in [Procs -> Keys \cup {NoKey}] /\ cursorKey'[p] = db.key
        /\ \A q \in Procs \ {p} : cursorKey'[q] = cursorKey[q]
    BY <2>1, <2>2 DEF MigrationInv
  <2>4. pc'[p] = "serving" /\ \A q \in Procs \ {p} : pc'[q] = pc[q]
    BY <2>1 DEF LockInv, LockTypes
  <2> QED
    BY <1>1, <1>2, <2>3, <2>4 DEF MigrationInv, consistent, migrated, inTransaction
<1>3. CASE ~ migrated
  <2>1. cursorKey' = cursorKey /\ pc' = [pc EXCEPT ![p] = "unlock"]
    BY <1>3 DEF newStoreFromDatabase, Go
  <2>2. pc'[p] = "unlock" /\ \A q \in Procs \ {p} : pc'[q] = pc[q]
    BY <2>1 DEF LockInv, LockTypes
  <2> QED
    BY <1>1, <2>1, <2>2 DEF MigrationInv, consistent, migrated, inTransaction
<1> QED
  BY <1>2, <1>3

\* One process moves, to a label outside transactions and serving.
LEMMA MigrationMove ==
  ASSUME LockInv, MigrationInv, NEW p \in Procs, NEW label,
         label \notin inTransaction \cup {"serving"},
         pc' = [pc EXCEPT ![p] = label],
         \A q \in Procs \ {p} : op'[q] = op[q],
         db' \in File, db'.ledger = db.ledger, db'.schema = db.schema, db'.key = db.key,
         tx' = [q \in Procs |-> tx'[q]], \A q \in Procs \ {p} : tx'[q] = tx[q],
         cursorKey' \in [Procs -> Keys \cup {NoKey}],
         \A q \in Procs \ {p} : cursorKey'[q] = cursorKey[q]
  PROVE  MigrationInv'
<1>1. pc'[p] = label /\ \A q \in Procs \ {p} : pc'[q] = pc[q]
  BY DEF LockInv, LockTypes
<1>2. \A q \in Procs : pc'[q] \in inTransaction => pc'[q] = pc[q] /\ tx'[q] = tx[q]
  BY <1>1
<1>3. \A q \in Procs : pc'[q] = "serving" /\ op'[q] = "open" =>
        pc[q] = "serving" /\ op[q] = "open" /\ cursorKey'[q] = cursorKey[q]
  BY <1>1, Zenon
<1> QED
  BY <1>2, <1>3, MigrationFrame

\* Steps that move nobody, or only the processes that are gone.
LEMMA MigrationLeft ==
  ASSUME LockInv, MigrationInv, NEW gone \in SUBSET Procs, UNCHANGED <<db, op>>,
         pc' = [p \in Procs |-> IF p \in gone THEN "idle" ELSE pc[p]],
         tx' = [p \in Procs |-> IF p \in gone THEN NoFile ELSE tx[p]],
         cursorKey' = [p \in Procs |-> IF p \in gone THEN NoKey ELSE cursorKey[p]]
  PROVE  MigrationInv'
<1>1. db' \in File /\ cursorKey' \in [Procs -> Keys \cup {NoKey}]
  BY DEF MigrationInv
<1>2. tx' = [p \in Procs |-> tx'[p]]
  OBVIOUS
<1>3. \A p \in Procs : pc'[p] \in inTransaction => pc'[p] = pc[p] /\ tx'[p] = tx[p]
  BY DEF inTransaction
<1>4. \A p \in Procs : pc'[p] = "serving" /\ op'[p] = "open" =>
        pc[p] = "serving" /\ op[p] = "open" /\ cursorKey'[p] = cursorKey[p]
  OBVIOUS
<1> QED
  BY <1>1, <1>2, <1>3, <1>4, MigrationFrame

\* A step that moves nobody and at most makes a new version of the rows.
LEMMA MigrationStutter ==
  ASSUME LockInv, MigrationInv, UNCHANGED <<pc, op, tx, cursorKey>>,
         db' = db \/ db' = [db EXCEPT !.version = db.version + 1]
  PROVE  MigrationInv'
<1>1. db' \in File /\ db'.ledger = db.ledger /\ db'.schema = db.schema /\ db'.key = db.key
  BY DEF MigrationInv, File
<1>2. tx' = [p \in Procs |-> tx'[p]] /\ cursorKey' \in [Procs -> Keys \cup {NoKey}]
  BY DEF MigrationInv
<1> QED
  BY <1>1, <1>2, MigrationFrame

\* A command starts outside of any transaction.
LEMMA MigrationStart ==
  ASSUME LockInv, MigrationInv, NEW p \in Procs, Start(p)
  PROVE  MigrationInv'
<1>1. PICK c \in workload[p] :
        /\ op' = [op EXCEPT ![p] = c]
        /\ pc' = [pc EXCEPT ![p] = IF c = "memory" THEN "serving" ELSE "lock"]
  BY Zenon DEF Start, Go
<1>2. UNCHANGED <<db, tx, cursorKey>>
  BY DEF Start
<1>3. /\ op'[p] = c /\ pc'[p] = IF c = "memory" THEN "serving" ELSE "lock"
      /\ \A q \in Procs \ {p} : op'[q] = op[q] /\ pc'[q] = pc[q]
  BY <1>1 DEF LockInv, LockTypes
<1>4. /\ \A q \in Procs : pc'[q] \in inTransaction => pc'[q] = pc[q]
      /\ \A q \in Procs : pc'[q] = "serving" /\ op'[q] = "open" =>
           pc[q] = "serving" /\ op[q] = "open"
  BY <1>3 DEF inTransaction
<1>5. db' \in File /\ tx' = [q \in Procs |-> tx'[q]] /\ cursorKey' \in [Procs -> Keys \cup {NoKey}]
  BY <1>2 DEF MigrationInv
<1> QED
  BY <1>2, <1>4, <1>5, MigrationFrame

\* Every other step of a process that neither starts a transaction nor serves.
LEMMA MigrationElsewhere ==
  ASSUME LockInv, MigrationInv, NEW p \in Procs, NEW label,
         label \notin inTransaction \cup {"serving"}, pc' = [pc EXCEPT ![p] = label],
         UNCHANGED <<op, cursorKey>>,
         \/ db' = db
         \/ \E version \in Nat : db' = [db EXCEPT !.version = version]
         \/ db' = [db EXCEPT !.exists = TRUE],
         tx' = tx \/ \E f : tx' = [tx EXCEPT ![p] = f]
  PROVE  MigrationInv'
<1>1. db' \in File /\ db'.ledger = db.ledger /\ db'.schema = db.schema /\ db'.key = db.key
  BY Zenon DEF MigrationInv, File
<1>2. tx' = [q \in Procs |-> tx'[q]] /\ \A q \in Procs \ {p} : tx'[q] = tx[q]
  BY DEF MigrationInv
<1>3. cursorKey' \in [Procs -> Keys \cup {NoKey}] /\ \A q \in Procs \ {p} : cursorKey'[q] = cursorKey[q]
  BY DEF MigrationInv
<1> QED
  BY <1>1, <1>2, <1>3, MigrationMove, Zenon

\* Every step keeps the file and the open transactions consistent.
LEMMA MigrationStep == LockInv /\ MigrationInv /\ [Next]_vars => MigrationInv'
<1> SUFFICES ASSUME LockInv, MigrationInv, [Next]_vars PROVE MigrationInv'
  OBVIOUS
<1> USE DEF Go
<1>1. ASSUME NEW p \in Procs, Start(p) PROVE MigrationInv'
  BY <1>1, MigrationStart
<1>2. ASSUME NEW p \in Procs, Lock(p) \/ LockTimeout(p) \/ Fault(p) \/ RemovalFails(p)
      PROVE  MigrationInv'
  <2>1. firstStep(p) \notin inTransaction \cup {"serving"}
    BY DEF firstStep, inTransaction
  <2>2. onError(pc[p]) \notin inTransaction \cup {"serving"}
    BY DEF onError, inTransaction
  <2>3. \A label \in {"idle", "unstage", "unlock"} : label \notin inTransaction \cup {"serving"}
    BY Zenon DEF inTransaction
  <2>4. UNCHANGED <<db, op, tx, cursorKey>>
    BY <1>2, ZenonT(40) DEF Lock, LockTimeout, Fault, RemovalFails
  <2>5. \/ pc' = [pc EXCEPT ![p] = firstStep(p)] \/ pc' = [pc EXCEPT ![p] = onError(pc[p])]
        \/ \E label \in {"idle", "unstage", "unlock"} : pc' = [pc EXCEPT ![p] = label]
    BY <1>2 DEF Lock, LockTimeout, Fault, RemovalFails
  <2> QED
    BY <2>1, <2>2, <2>3, <2>4, <2>5, MigrationElsewhere
<1>3. ASSUME NEW p \in Procs, Unlock(p) \/ createFile(p) \/ PlanMigrations(p)
                              \/ openExistingDatabase(p) \/ FinishByStore(p) \/ CloseStore(p)
      PROVE  MigrationInv'
  <2>1. PICK label \in {"idle", "begin", "unlock", "loadKey", "finishView", "awaitView"} :
          pc' = [pc EXCEPT ![p] = label]
    BY <1>3 DEF Unlock, createFile, PlanMigrations, openExistingDatabase, FinishByStore, CloseStore
  <2>2. /\ UNCHANGED <<op, cursorKey>>
        /\ db' = db \/ db' = [db EXCEPT !.exists = TRUE]
        /\ tx' = tx \/ \E f : tx' = [tx EXCEPT ![p] = f]
    BY <1>3 DEF Unlock, createFile, PlanMigrations, openExistingDatabase, FinishByStore, CloseStore
  <2>3. label \notin inTransaction \cup {"serving"}
    BY DEF inTransaction
  <2> QED
    BY <2>1, <2>2, <2>3, MigrationElsewhere, Zenon
<1>4. ASSUME NEW p \in Procs, validateSchemaUnderSharedLock(p) PROVE MigrationInv'
  <2>1. pc' = [pc EXCEPT ![p] = "openPools"] \/ pc' = [pc EXCEPT ![p] = "unlock"]
    <3>1. CASE op[p] = "open" /\ db.exists /\ migrated
      BY <1>4, <3>1 DEF validateSchemaUnderSharedLock
    <3>2. CASE ~ (op[p] = "open" /\ db.exists /\ migrated)
      BY <1>4, <3>2, Zenon DEF validateSchemaUnderSharedLock
    <3> QED
      BY <3>1, <3>2
  <2>2. UNCHANGED <<db, op, tx, cursorKey>>
    BY <1>4 DEF validateSchemaUnderSharedLock
  <2>3. /\ "openPools" \notin inTransaction \cup {"serving"}
        /\ "unlock" \notin inTransaction \cup {"serving"}
    BY DEF inTransaction
  <2> QED
    BY <2>1, <2>2, <2>3, MigrationElsewhere
<1>5. ASSUME NEW p \in Procs, fullIntegrityCheck(p) PROVE MigrationInv'
  <2>1. op[p] \in {"check", "prune", "export"}
    BY <1>5 DEF fullIntegrityCheck, LockInv, commandAt, offlineLabels
  <2>2. PICK label \in {"unlock", "pruneEvents", "stage"} : pc' = [pc EXCEPT ![p] = label]
    BY <1>5, <2>1, Zenon DEF fullIntegrityCheck
  <2>3. UNCHANGED <<db, op, tx, cursorKey>>
    BY <1>5 DEF fullIntegrityCheck
  <2>4. label \notin inTransaction \cup {"serving"}
    BY DEF inTransaction
  <2> QED
    BY <2>2, <2>3, <2>4, MigrationElsewhere, Zenon
<1>6. ASSUME NEW p \in Procs, pruneEvents(p) PROVE MigrationInv'
  <2>1. db.version \in Nat /\ db.version + 1 \in Nat
    BY DEF MigrationInv, File
  <2>2. \E version \in Nat : db' = [db EXCEPT !.version = version]
    BY <1>6, <2>1 DEF pruneEvents
  <2>3. pc' = [pc EXCEPT ![p] = "unlock"] /\ UNCHANGED <<op, tx, cursorKey>>
    BY <1>6 DEF pruneEvents
  <2>4. "unlock" \notin inTransaction \cup {"serving"}
    BY DEF inTransaction
  <2> QED
    BY <2>2, <2>3, <2>4, MigrationElsewhere, Zenon
<1>7. ASSUME NEW p \in Procs, AwaitView(p) PROVE MigrationInv'
  <2>1. /\ pc' = [pc EXCEPT ![p] = "unlock"] /\ UNCHANGED <<db, op, tx>>
        /\ cursorKey' = [cursorKey EXCEPT ![p] = NoKey]
    BY <1>7, Zenon DEF AwaitView
  <2>2. /\ cursorKey' \in [Procs -> Keys \cup {NoKey}]
        /\ \A q \in Procs \ {p} : cursorKey'[q] = cursorKey[q]
    BY <2>1, Zenon DEF MigrationInv
  <2>3. db' \in File /\ tx' = [q \in Procs |-> tx'[q]]
    BY <2>1 DEF MigrationInv
  <2>4. "unlock" \notin inTransaction \cup {"serving"}
    BY DEF inTransaction
  <2> QED
    BY <2>1, <2>2, <2>3, <2>4, MigrationMove, Zenon
<1>8. ASSUME NEW p \in Procs, Export(p) PROVE MigrationInv'
  <2> USE DEF Export, makeStage, copyBackupRows, ensureCleanBackupDestination, syncImage, linkImage,
              syncDirectory, removeStage, reportSuccess, discardLink
  <2>1. PICK label \in offlineLabels \cup {"unlock"} : pc' = [pc EXCEPT ![p] = label]
    BY <1>8, Zenon DEF offlineLabels
  <2>2. UNCHANGED <<db, op, cursorKey>> /\ (tx' = tx \/ \E f : tx' = [tx EXCEPT ![p] = f])
    BY <1>8
  <2>3. label \notin inTransaction \cup {"serving"}
    BY Zenon DEF inTransaction, offlineLabels
  <2> QED
    BY <2>1, <2>2, <2>3, MigrationElsewhere, Zenon
<1>9. ASSUME NEW p \in Procs, Migrate(p), ~ createFile(p) PROVE MigrationInv'
  BY <1>9, MigrationBegins, MigrationApplies, MigrationSeeds, MigrationRecords, MigrationCommits
     DEF Migrate
<1>10. ASSUME NEW p \in Procs, newStoreFromDatabase(p) PROVE MigrationInv'
  BY <1>10, MigrationServes
<1>11. ASSUME NEW p \in Procs, Crash(p) PROVE MigrationInv'
  BY <1>11, MigrationLeft, ZenonT(40) DEF Crash, Reclaim
<1>12. ASSUME PowerLoss PROVE MigrationInv'
  BY <1>12, MigrationLeft DEF PowerLoss, Reclaim
<1>13. ASSUME NEW p \in Procs, Commit(p) \/ OpenSnapshot(p) \/ CloseSnapshot(p)
       PROVE  MigrationInv'
  BY <1>13, MigrationStutter DEF Commit, OpenSnapshot, CloseSnapshot
<1>14. ASSUME NEW p \in Procs, NEW q \in Queries, AdmitQuery(p, q) \/ QueryStep(p, q)
       PROVE  MigrationInv'
  BY <1>14, MigrationStutter DEF AdmitQuery, QueryStep, ReadQuery, ReleaseQuery, FinishByQuery
<1>15. CASE OperatorCleans \/ UNCHANGED vars
  BY <1>15, MigrationStutter DEF OperatorCleans, vars
<1> QED
  BY <1>1, <1>2, <1>3, <1>4, <1>5, <1>6, <1>7, <1>8, <1>9, <1>10, <1>11, <1>12, <1>13, <1>14, <1>15
     DEF Next, Step, Migrate

\* Wherever ApplyMigrations is cut off, by errors, crashes or a power loss, and however
\* many processes migrate, open and maintain the file, its schema is that of its ledger,
\* it has a key from its first migration on, and every serving store has that key.
THEOREM MigrationsAreAtomic == Spec => []MigrationIsAtomic
<1>1. Init => LockInv /\ MigrationInv
  BY LockInit, MigrationInit
<1>2. LockInv /\ MigrationInv /\ [Next]_vars => LockInv' /\ MigrationInv'
  BY LockStep, MigrationStep, Zenon
<1>3. MigrationInv => MigrationIsAtomic
  BY DEF MigrationInv, consistent, MigrationIsAtomic
<1> QED
  BY <1>1, <1>2, <1>3, PTL DEF Spec

-----------------------------------------------------------------------------
(* The snapshot of a process, its readers and the goroutines that close it.   *)

QueryStates == {"idle", "queued", "reading", "finishing"}
CloserStates == {"idle", "finishing", "waiting"}

admitted(states) == {q \in Queries : states[q] \in {"queued", "reading"}}

\* The view v of a process at label, its queries and its closer.  The reads it counts
\* are the admitted ones; it is detached only when it is closing and unread, and done
\* only when it is detached; and of the goroutines that may find themselves in charge
\* of finishing the close there is at most one, before it is done.
coherent(v, states, c, label) ==
  /\ v \in View /\ states \in [Queries -> QueryStates] /\ c \in CloserStates
  /\ v.active = Cardinality(admitted(states))
  /\ ~ v.pinned => v.closing /\ v.active = 0
  /\ v.done => ~ v.pinned
  /\ v # NoView => label \in servingLabels
  /\ (c = "finishing" \/ label = "finishView" \/ \E q \in Queries : states[q] = "finishing")
     => ~ v.pinned /\ ~ v.done
  /\ ~ (c = "finishing" /\ label = "finishView")
  /\ \A q \in Queries :
       states[q] = "finishing" =>
         /\ c # "finishing" /\ label # "finishView"
         /\ \A other \in Queries : states[other] = "finishing" => other = q

\* A read joins the view.
LEMMA AdmitFields ==
  ASSUME NEW v \in View
  PROVE  /\ admit(v) \in View /\ admit(v).active = v.active + 1
         /\ admit(v).pinned <=> v.pinned
         /\ admit(v).done <=> v.done
<1>1. admit(v) \in View
  BY DEF admit, View
<1>2. admit(v).active = v.active + 1
  BY DEF admit, View
<1>3. (admit(v).pinned <=> v.pinned) /\ (admit(v).done <=> v.done)
  BY DEF admit, View
<1> QED
  BY <1>1, <1>2, <1>3

\* Close of a view that is not closing yet.
LEMMA StartCloseFields ==
  ASSUME NEW v \in View, ~ v.closing
  PROVE  /\ startClose(v) \in View /\ startClose(v).closing /\ startClose(v).active = v.active
         /\ startClose(v).pinned <=> v.active # 0
         /\ startClose(v).done <=> v.done
<1>1. startClose(v) \in View
  BY Zenon DEF startClose, View
<1> QED
  BY <1>1, Zenon DEF startClose, View

\* The close of a detached view is reported.
LEMMA FinishCloseFields ==
  ASSUME NEW v \in View
  PROVE  /\ finishClose(v) \in View /\ finishClose(v).done /\ finishClose(v).active = v.active
         /\ finishClose(v).pinned <=> v.pinned
         /\ finishClose(v).closing <=> v.closing
<1>1. finishClose(v) \in View
  BY Zenon DEF finishClose, View
<1> QED
  BY <1>1 DEF finishClose, View

\* A read leaves the view.
LEMMA LeaveFields ==
  ASSUME NEW v \in View, v.active > 0
  PROVE  /\ leave(v) \in View /\ leave(v).active = v.active - 1
         /\ leave(v).pinned <=> ~ (v.closing /\ v.active = 1)
         /\ leave(v).closing <=> v.closing
         /\ leave(v).done <=> v.done
<1>1. v.active - 1 \in Nat /\ (~ (v.closing /\ v.active = 1)) \in BOOLEAN
  BY DEF View
<1>2. leave(v) \in View
  BY <1>1, Zenon DEF View, leave
<1> QED
  BY <1>2, Zenon DEF View, leave

\* A query may become or stop being one of the admitted reads, and the count follows.
LEMMA AdmittedCounted ==
  ASSUME Counts(Queries), NEW states \in [Queries -> QueryStates], NEW q \in Queries, NEW s \in QueryStates
  PROVE  LET after == [states EXCEPT ![q] = s]
         IN /\ after \in [Queries -> QueryStates]
            /\ Cardinality(admitted(states)) \in Nat
            /\ q \in admitted(states) => Cardinality(admitted(states)) > 0
            /\ q \in admitted(states) /\ q \in admitted(after) =>
                 Cardinality(admitted(after)) = Cardinality(admitted(states))
            /\ q \notin admitted(states) /\ q \notin admitted(after) =>
                 Cardinality(admitted(after)) = Cardinality(admitted(states))
            /\ q \notin admitted(states) /\ q \in admitted(after) =>
                 Cardinality(admitted(after)) = Cardinality(admitted(states)) + 1
            /\ q \in admitted(states) /\ q \notin admitted(after) =>
                 Cardinality(admitted(after)) = Cardinality(admitted(states)) - 1
<1> DEFINE after == [states EXCEPT ![q] = s]
<1>1. admitted(states) \in SUBSET Queries /\ admitted(after) \in SUBSET Queries
  BY DEF admitted
<1>2. after \in [Queries -> QueryStates] /\ \A other \in Queries \ {q} : after[other] = states[other]
  OBVIOUS
<1>3. Cardinality(admitted(states)) \in Nat
  BY <1>1, Zenon DEF Counts
<1>4. q \in admitted(states) => Cardinality(admitted(states)) > 0
  BY <1>1, <1>3 DEF Counts
<1>5. (q \in admitted(states) <=> q \in admitted(after)) => admitted(after) = admitted(states)
  BY <1>2 DEF admitted
<1>6. ASSUME q \notin admitted(states), q \in admitted(after)
      PROVE  Cardinality(admitted(after)) = Cardinality(admitted(states)) + 1
  <2>1. admitted(after) = admitted(states) \cup {q} /\ q \in Queries \ admitted(states)
    BY <1>2, <1>6 DEF admitted
  <2> QED
    BY <1>1, <2>1, Zenon DEF Counts
<1>7. ASSUME q \in admitted(states), q \notin admitted(after)
      PROVE  Cardinality(admitted(after)) = Cardinality(admitted(states)) - 1
  <2>1. admitted(after) = admitted(states) \ {q}
    BY <1>2, <1>7 DEF admitted
  <2> QED
    BY <1>1, <1>7, <2>1, Zenon DEF Counts
<1> QED
  BY <1>2, <1>3, <1>4, <1>5, <1>6, <1>7

\* A closed view without readers or closers suits every label but finishView.
LEMMA NoViewCoherent ==
  ASSUME Counts(Queries), NEW label, label # "finishView"
  PROVE  coherent(NoView, [q \in Queries |-> "idle"], "idle", label)
<1>1. admitted([q \in Queries |-> "idle"]) = {}
  BY DEF admitted
<1>2. Cardinality(admitted([q \in Queries |-> "idle"])) = 0
  BY <1>1, Zenon DEF Counts
<1> QED
  BY <1>2 DEF coherent, NoView, View, QueryStates, CloserStates

\* OpenSnapshot: nothing of the view before it is left over.
LEMMA OpenedCoherent ==
  ASSUME NEW states, NEW c, coherent(NoView, states, c, "serving")
  PROVE  coherent(OpenedView, states, c, "serving")
BY Zenon DEF coherent, NoView, OpenedView, View, servingLabels

\* queryConnection admits a read.
LEMMA AdmitCoherent ==
  ASSUME Counts(Queries), NEW v, NEW states, NEW c, NEW label, coherent(v, states, c, label),
         NEW q \in Queries, states[q] = "idle", admits(v)
  PROVE  coherent(admit(v), [states EXCEPT ![q] = "queued"], c, label)
<1> DEFINE after == [states EXCEPT ![q] = "queued"]
<1>1. /\ after \in [Queries -> QueryStates]
      /\ Cardinality(admitted(after)) = Cardinality(admitted(states)) + 1
  BY AdmittedCounted DEF admitted, coherent, QueryStates
<1>2. v \in View /\ v # NoView /\ v.pinned /\ ~ v.done
  BY DEF admits, coherent, NoView
<1>3. admit(v) \in View /\ admit(v).active = v.active + 1 /\ admit(v).pinned /\ ~ admit(v).done
  BY <1>2, AdmitFields, Zenon
<1>4. \A other \in Queries : after[other] # "finishing"
  BY <1>2, Zenon DEF coherent
<1> QED
  BY <1>1, <1>2, <1>3, <1>4, Zenon DEF coherent

\* A queued read starts.
LEMMA ReadCoherent ==
  ASSUME Counts(Queries), NEW v, NEW states, NEW c, NEW label, coherent(v, states, c, label),
         NEW q \in Queries, states[q] = "queued"
  PROVE  coherent(v, [states EXCEPT ![q] = "reading"], c, label)
<1> DEFINE after == [states EXCEPT ![q] = "reading"]
<1>1. after \in [Queries -> QueryStates] /\ Cardinality(admitted(after)) = Cardinality(admitted(states))
  BY AdmittedCounted, Zenon DEF admitted, coherent, QueryStates
<1>2. \A other \in Queries : after[other] = "finishing" <=> states[other] = "finishing"
  BY Zenon DEF coherent
<1> QED
  BY <1>1, <1>2 DEF coherent

\* release: the read leaves, and the last one of a closing view detaches it.  A memory
\* view is then done at once, of a SQLite view the reader is in charge.
LEMMA LeaveCoherent ==
  ASSUME Counts(Queries), NEW v, NEW states, NEW c, NEW label, coherent(v, states, c, label),
         NEW q \in Queries, states[q] = "reading",
         NEW w, w = leave(v) \/ (w = finishClose(leave(v)) /\ detached(v, leave(v))),
         NEW s, s = "idle" \/ (s = "finishing" /\ w = leave(v) /\ detached(v, leave(v)))
  PROVE  coherent(w, [states EXCEPT ![q] = s], c, label)
<1> DEFINE after == [states EXCEPT ![q] = s]
<1>1. v \in View /\ v.active > 0 /\ v.pinned /\ ~ v.done /\ v # NoView
  <2>1. q \in admitted(states) /\ states \in [Queries -> QueryStates]
    BY DEF admitted, coherent
  <2>2. \E t : t \in QueryStates
    BY Zenon DEF QueryStates
  <2>3. Cardinality(admitted(states)) > 0
    BY <2>1, <2>2, AdmittedCounted, Zenon
  <2>4. v \in View /\ v.active > 0
    BY <2>3, ZenonT(40) DEF coherent
  <2> QED
    BY <2>3, <2>4 DEF coherent, NoView
<1>2. /\ after \in [Queries -> QueryStates]
      /\ Cardinality(admitted(after)) = v.active - 1
  BY AdmittedCounted DEF admitted, coherent, QueryStates
<1>3. /\ w \in View /\ w.active = v.active - 1
      /\ w.pinned <=> ~ (v.closing /\ v.active = 1)
      /\ w.closing <=> v.closing
      /\ w.done => detached(v, leave(v)) /\ w # leave(v)
  BY <1>1, LeaveFields, FinishCloseFields
<1>4. c # "finishing" /\ label # "finishView" /\ \A other \in Queries : states[other] # "finishing"
  BY <1>1, Zenon DEF coherent
<1>5. detached(v, leave(v)) <=> ~ w.pinned
  BY <1>1, <1>3, LeaveFields, Zenon DEF detached
<1>6. \A other \in Queries : after[other] = "finishing" => other = q /\ s = "finishing"
  BY <1>2, <1>4, Zenon DEF coherent
<1>7. label \in servingLabels /\ c \in CloserStates
  BY <1>1, Zenon DEF coherent
<1>8. ~ w.pinned => w.closing /\ w.active = 0
  BY <1>1, <1>3 DEF View
<1>9. s = "finishing" => ~ w.pinned /\ ~ w.done
  BY <1>3, <1>5, Zenon
<1>10. w.done => ~ w.pinned
  BY <1>3, <1>5, Zenon
<1> QED
  BY <1>2, <1>3, <1>4, <1>6, <1>7, <1>8, <1>9, <1>10, Zenon DEF coherent

\* Close of the snapshot or of the store, under the mutex of the view.  Whoever detaches
\* an unread SQLite view is in charge: the closer c, or the store at finishView.
LEMMA StartCloseCoherent ==
  ASSUME NEW v, NEW states, NEW c, NEW label, coherent(v, states, c, label),
         NEW w, \/ w = startClose(v)
                \/ w = finishClose(startClose(v)) /\ detached(v, startClose(v)),
         NEW d, NEW after, d \in CloserStates, label \in servingLabels => after \in servingLabels,
         w # NoView => label \in servingLabels,
         \/ (d = "finishing" => c = "finishing") /\ (after = "finishView" => label = "finishView")
         \/ /\ detached(v, startClose(v)) /\ w = startClose(v)
            /\ \/ d = "finishing" /\ after = label
               \/ d = c /\ after = "finishView"
  PROVE  coherent(w, states, d, after)
<1>1. CASE v.closing
  <2>1. w = v /\ ~ detached(v, startClose(v))
    BY <1>1, FinishCloseFields, Zenon DEF startClose, detached
  <2> QED
    BY <2>1 DEF coherent
<1>2. CASE ~ v.closing
  <2>1. v \in View /\ v.pinned /\ ~ v.done
    BY <1>2, Zenon DEF coherent
  <2>2. c # "finishing" /\ label # "finishView" /\ \A q \in Queries : states[q] # "finishing"
    BY <2>1, Zenon DEF coherent
  <2>3. /\ w \in View /\ w.closing /\ w.active = v.active
        /\ w.pinned <=> v.active # 0
        /\ w.done => detached(v, startClose(v)) /\ w # startClose(v)
    BY <1>2, <2>1, StartCloseFields, FinishCloseFields
  <2>4. detached(v, startClose(v)) <=> ~ w.pinned
    BY <1>2, <2>1, <2>3, StartCloseFields, Zenon DEF detached
  <2>5. /\ ~ w.pinned => w.closing /\ w.active = 0
        /\ w.done => ~ w.pinned
        /\ (d = "finishing" \/ after = "finishView") => ~ w.pinned /\ ~ w.done
        /\ ~ (d = "finishing" /\ after = "finishView")
    BY <2>2, <2>3, <2>4, Zenon DEF View
  <2>6. /\ states \in [Queries -> QueryStates] /\ w.active = Cardinality(admitted(states))
        /\ w # NoView => after \in servingLabels
    BY <2>3, Zenon DEF coherent
  <2> QED
    BY <2>2, <2>3, <2>5, <2>6, Zenon DEF coherent
<1> QED
  BY <1>1, <1>2, Zenon

\* Whoever is in charge finishes the close, and nobody else is.
LEMMA FinishCoherent ==
  ASSUME Counts(Queries), NEW v, NEW states, NEW c, NEW label, coherent(v, states, c, label),
         NEW d \in CloserStates, NEW after, label \in servingLabels => after \in servingLabels,
         NEW others,
         \/ c = "finishing" /\ d = "waiting" /\ after = label /\ others = states
         \/ label = "finishView" /\ after = "awaitView" /\ d = c /\ others = states
         \/ /\ d = c /\ after = label
            /\ \E q \in Queries : states[q] = "finishing" /\ others = [states EXCEPT ![q] = "idle"]
  PROVE  coherent(finishClose(v), others, d, after)
<1>1. v \in View /\ ~ v.pinned /\ ~ v.done /\ v.closing /\ v.active = 0 /\ v # NoView
  BY DEF coherent, NoView
<1>2. /\ finishClose(v) \in View /\ finishClose(v).done /\ finishClose(v).active = v.active
      /\ ~ finishClose(v).pinned /\ finishClose(v).closing
  BY <1>1, FinishCloseFields, Zenon
<1>3. label \in servingLabels /\ after \in servingLabels
  BY <1>1 DEF coherent
<1>4. others \in [Queries -> QueryStates] /\ Cardinality(admitted(others)) = v.active
  BY AdmittedCounted DEF coherent, admitted, QueryStates
<1>5. /\ d # "finishing" /\ after # "finishView"
      /\ \A q \in Queries : others[q] # "finishing"
  BY Zenon DEF coherent
<1> QED
  BY <1>1, <1>2, <1>3, <1>4, <1>5, Zenon DEF coherent

\* Every process has a coherent snapshot.
SnapshotInv ==
  /\ view \in [Procs -> View]
  /\ query \in [Procs -> [Queries -> QueryStates]]
  /\ closer \in [Procs -> CloserStates]
  /\ \A p \in Procs : coherent(view[p], query[p], closer[p], pc[p])

\* No process has a snapshot at first.
LEMMA SnapshotInit == Counts(Queries) /\ Init => SnapshotInv
<1> SUFFICES ASSUME Counts(Queries), Init PROVE SnapshotInv
  OBVIOUS
<1>1. "idle" # "finishView" /\ NoView \in View
  BY DEF NoView, View
<1>2. \A p \in Procs : coherent(view[p], query[p], closer[p], pc[p])
  BY <1>1, NoViewCoherent, Zenon DEF Init
<1> QED
  BY <1>1, <1>2, Zenon DEF Init, SnapshotInv, QueryStates, CloserStates

\* A step that touches the snapshot of one process only.
LEMMA SnapshotMove ==
  ASSUME LockInv, SnapshotInv, NEW p \in Procs, NEW v, NEW states, NEW c, NEW label,
         view' = [view EXCEPT ![p] = v], query' = [query EXCEPT ![p] = states],
         closer' = [closer EXCEPT ![p] = c], pc' = [pc EXCEPT ![p] = label],
         coherent(v, states, c, label)
  PROVE  SnapshotInv'
<1>1. v \in View /\ states \in [Queries -> QueryStates] /\ c \in CloserStates
  BY Zenon DEF coherent
<1>2. ASSUME NEW q \in Procs PROVE coherent(view'[q], query'[q], closer'[q], pc'[q])
  <2>1. CASE q = p
    BY <2>1, Zenon DEF SnapshotInv, LockInv, LockTypes
  <2>2. CASE q # p
    BY <2>2 DEF SnapshotInv, LockInv, LockTypes
  <2> QED
    BY <2>1, <2>2, Zenon
<1> QED
  BY <1>1, <1>2, Zenon DEF SnapshotInv

\* A step of a process that serves nothing and so has no snapshot.
LEMMA SnapshotElsewhere ==
  ASSUME LockInv, SnapshotInv, NEW p \in Procs, NEW label, label # "finishView",
         pc[p] \notin servingLabels, UNCHANGED snapshotVars, pc' = [pc EXCEPT ![p] = label]
  PROVE  SnapshotInv'
<1>1. coherent(view[p], query[p], closer[p], label)
  BY DEF SnapshotInv, coherent, servingLabels
<1>2. /\ view' = [view EXCEPT ![p] = view[p]] /\ query' = [query EXCEPT ![p] = query[p]]
      /\ closer' = [closer EXCEPT ![p] = closer[p]]
  BY Zenon DEF SnapshotInv, snapshotVars
<1> QED
  BY <1>1, <1>2, SnapshotMove, Zenon

\* A step that leaves the snapshots and the labels alone.
LEMMA SnapshotStutter ==
  ASSUME SnapshotInv, UNCHANGED <<view, query, closer, pc>>
  PROVE  SnapshotInv'
BY Zenon DEF SnapshotInv

\* Processes that are gone leave no snapshot behind.
LEMMA SnapshotLeft ==
  ASSUME Counts(Queries), LockInv, SnapshotInv, NEW gone \in SUBSET Procs, Reclaim(gone)
  PROVE  SnapshotInv'
<1>1. "idle" # "finishView" /\ NoView \in View
  BY Zenon DEF NoView, View
<1>2. ASSUME NEW q \in Procs PROVE coherent(view'[q], query'[q], closer'[q], pc'[q])
  <2>1. CASE q \in gone
    BY <2>1, <1>1, NoViewCoherent, Zenon DEF Reclaim
  <2>2. CASE q \notin gone
    BY <2>2, Zenon DEF Reclaim, SnapshotInv
  <2> QED
    BY <2>1, <2>2, Zenon
<1>3. view' \in [Procs -> View]
  BY <1>1, Zenon DEF Reclaim, SnapshotInv
<1>4. query' \in [Procs -> [Queries -> QueryStates]] /\ closer' \in [Procs -> CloserStates]
  BY Zenon DEF Reclaim, SnapshotInv, QueryStates, CloserStates
<1> QED
  BY <1>2, <1>3, <1>4, Zenon DEF SnapshotInv

\* The queries of a snapshot.
LEMMA SnapshotQueries ==
  ASSUME Counts(Queries), LockInv, SnapshotInv, NEW p \in Procs, NEW q \in Queries,
         AdmitQuery(p, q) \/ QueryStep(p, q)
  PROVE  SnapshotInv'
<1>1. /\ coherent(view[p], query[p], closer[p], pc[p])
      /\ view = [view EXCEPT ![p] = view[p]]
      /\ closer' = [closer EXCEPT ![p] = closer[p]] /\ pc' = [pc EXCEPT ![p] = pc[p]]
  BY DEF SnapshotInv, LockInv, LockTypes, AdmitQuery, QueryStep, ReadQuery, ReleaseQuery, FinishByQuery
<1>2. CASE AdmitQuery(p, q)
  <2>1. coherent(admit(view[p]), [query[p] EXCEPT ![q] = "queued"], closer[p], pc[p])
    BY <1>1, <1>2, AdmitCoherent, Zenon DEF AdmitQuery
  <2>2. /\ view' = [view EXCEPT ![p] = admit(view[p])]
        /\ query' = [query EXCEPT ![p] = [query[p] EXCEPT ![q] = "queued"]]
    BY <1>2 DEF AdmitQuery
  <2> QED
    BY <1>1, <2>1, <2>2, SnapshotMove, Zenon
<1>3. CASE ReadQuery(p, q)
  <2>1. coherent(view[p], [query[p] EXCEPT ![q] = "reading"], closer[p], pc[p])
    BY <1>1, <1>3, ReadCoherent, Zenon DEF ReadQuery
  <2>2. /\ view' = [view EXCEPT ![p] = view[p]]
        /\ query' = [query EXCEPT ![p] = [query[p] EXCEPT ![q] = "reading"]]
    BY <1>1, <1>3 DEF ReadQuery
  <2> QED
    BY <1>1, <2>1, <2>2, SnapshotMove, Zenon
<1>4. CASE ReleaseQuery(p, q)
  <2> DEFINE w == IF op[p] = "memory" THEN settled(view[p], leave(view[p])) ELSE leave(view[p])
             s == IF mustFinish(p, leave(view[p])) THEN "finishing" ELSE "idle"
  <2>1. /\ view' = [view EXCEPT ![p] = w] /\ query[p][q] = "reading"
        /\ query' = [query EXCEPT ![p] = [query[p] EXCEPT ![q] = s]]
    BY <1>4 DEF ReleaseQuery, changed
  <2>2. /\ \/ w = leave(view[p])
           \/ w = finishClose(leave(view[p])) /\ detached(view[p], leave(view[p]))
        /\ \/ s = "idle"
           \/ s = "finishing" /\ w = leave(view[p]) /\ detached(view[p], leave(view[p]))
    <3>1. CASE detached(view[p], leave(view[p]))
      BY <3>1, Zenon DEF settled, mustFinish
    <3>2. CASE ~ detached(view[p], leave(view[p]))
      BY <3>2, Zenon DEF settled, mustFinish
    <3> QED
      BY <3>1, <3>2, Zenon
  <2>3. coherent(w, [query[p] EXCEPT ![q] = s], closer[p], pc[p])
    <3> HIDE DEF w, s
    <3> QED
      BY <1>1, <2>1, <2>2, LeaveCoherent, Zenon
  <2> HIDE DEF w, s
  <2> QED
    BY <1>1, <2>1, <2>3, SnapshotMove, Zenon
<1>5. CASE FinishByQuery(p, q)
  <2>1. /\ view' = [view EXCEPT ![p] = finishClose(view[p])] /\ query[p][q] = "finishing"
        /\ query' = [query EXCEPT ![p] = [query[p] EXCEPT ![q] = "idle"]]
    BY <1>5, Zenon DEF FinishByQuery
  <2>2. closer[p] \in CloserStates
    BY Zenon DEF SnapshotInv
  <2>3. coherent(finishClose(view[p]), [query[p] EXCEPT ![q] = "idle"], closer[p], pc[p])
    BY <1>1, <2>1, <2>2, FinishCoherent
  <2> QED
    BY <1>1, <2>1, <2>3, SnapshotMove, Zenon
<1> QED
  BY <1>2, <1>3, <1>4, <1>5, ZenonT(40) DEF QueryStep

\* Close of the snapshot by its user, and the three steps of Store.Close.
LEMMA SnapshotClose ==
  ASSUME Counts(Queries), LockInv, SnapshotInv, NEW p \in Procs,
         CloseSnapshot(p) \/ CloseStore(p) \/ FinishByStore(p) \/ AwaitView(p)
  PROVE  SnapshotInv'
<1> DEFINE begun == startClose(view[p])
           w == IF op[p] = "memory" THEN settled(view[p], begun) ELSE begun
<1>1. /\ coherent(view[p], query[p], closer[p], pc[p])
      /\ view = [view EXCEPT ![p] = view[p]]
      /\ closer = [closer EXCEPT ![p] = closer[p]] /\ pc = [pc EXCEPT ![p] = pc[p]]
      /\ query' = [query EXCEPT ![p] = query[p]]
      /\ "waiting" \in CloserStates /\ "finishing" \in CloserStates /\ closer[p] \in CloserStates
  BY DEF SnapshotInv, LockInv, LockTypes, CloseSnapshot, CloseStore, FinishByStore, AwaitView,
         CloserStates
<1>2. /\ \/ w = begun
         \/ w = finishClose(begun) /\ detached(view[p], begun)
      /\ mustFinish(p, begun) => detached(view[p], begun) /\ w = begun
  <2>1. CASE detached(view[p], begun)
    BY <2>1 DEF settled, mustFinish
  <2>2. CASE ~ detached(view[p], begun)
    BY <2>2, Zenon DEF settled, mustFinish
  <2> QED
    BY <2>1, <2>2, ZenonT(40)
<1>3. CASE closer[p] = "idle" /\ view[p].owned /\ CloseSnapshot(p)
  <2>1. /\ view' = [view EXCEPT ![p] = w] /\ UNCHANGED pc
        /\ \/ mustFinish(p, begun) /\ closer' = [closer EXCEPT ![p] = "finishing"]
           \/ closer' = [closer EXCEPT ![p] = "waiting"]
    <3>1. CASE mustFinish(p, begun)
      BY <1>3, <3>1, Zenon DEF CloseSnapshot, changed
    <3>2. CASE ~ mustFinish(p, begun)
      BY <1>3, <3>2, ZenonT(40) DEF CloseSnapshot, changed
    <3> QED
      BY <3>1, <3>2
  <2>2. pc[p] \in servingLabels
    BY <1>1, <1>3 DEF coherent, NoView
  <2> HIDE DEF begun, w
  <2>3. CASE mustFinish(p, begun) /\ closer' = [closer EXCEPT ![p] = "finishing"]
    <3>1. coherent(w, query[p], "finishing", pc[p])
      BY <1>1, <1>2, <2>1, <2>2, <2>3, StartCloseCoherent DEF begun
    <3> QED
      BY <1>1, <2>1, <2>3, <3>1, SnapshotMove, Zenon
  <2>4. CASE closer' = [closer EXCEPT ![p] = "waiting"]
    <3>1. coherent(w, query[p], "waiting", pc[p])
      BY <1>1, <1>2, <2>2, StartCloseCoherent DEF begun
    <3> QED
      BY <1>1, <2>1, <2>4, <3>1, SnapshotMove, Zenon
  <2> QED
    BY <2>1, <2>3, <2>4, Zenon
<1>4. CASE closer[p] = "finishing" /\ CloseSnapshot(p)
  <2>1. /\ view' = [view EXCEPT ![p] = finishClose(view[p])] /\ UNCHANGED pc
        /\ closer' = [closer EXCEPT ![p] = "waiting"]
    BY <1>4, Zenon DEF CloseSnapshot
  <2>2. coherent(finishClose(view[p]), query[p], "waiting", pc[p])
    BY <1>1, <1>4, FinishCoherent
  <2> QED
    BY <1>1, <2>1, <2>2, SnapshotMove, Zenon
<1>5. CASE closer[p] = "waiting" /\ CloseSnapshot(p)
  <2>1. UNCHANGED <<view, pc>> /\ closer' = [closer EXCEPT ![p] = "idle"]
    BY <1>5, Zenon DEF CloseSnapshot
  <2>2. coherent(view[p], query[p], "idle", pc[p])
    BY <1>1, <1>5, Zenon DEF coherent, CloserStates
  <2> QED
    BY <1>1, <2>1, <2>2, SnapshotMove, Zenon
<1>6. CASE CloseStore(p)
  <2>1. /\ view' = [view EXCEPT ![p] = w] /\ UNCHANGED closer /\ pc[p] = "serving"
        /\ \/ mustFinish(p, begun) /\ pc' = [pc EXCEPT ![p] = "finishView"]
           \/ pc' = [pc EXCEPT ![p] = "awaitView"]
    <3>1. CASE mustFinish(p, begun)
      BY <1>6, <3>1, Zenon DEF CloseStore, changed, Go
    <3>2. CASE ~ mustFinish(p, begun)
      BY <1>6, <3>2, Zenon DEF CloseStore, changed, Go
    <3> QED
      BY <3>1, <3>2
  <2>2. {pc[p], "finishView", "awaitView"} \subseteq servingLabels
    BY <2>1 DEF servingLabels
  <2> HIDE DEF begun, w
  <2>3. CASE mustFinish(p, begun) /\ pc' = [pc EXCEPT ![p] = "finishView"]
    <3>1. coherent(w, query[p], closer[p], "finishView")
      BY <1>1, <1>2, <2>1, <2>2, <2>3, StartCloseCoherent DEF begun
    <3> QED
      BY <1>1, <2>1, <2>3, <3>1, SnapshotMove, Zenon
  <2>4. CASE pc' = [pc EXCEPT ![p] = "awaitView"]
    <3>1. coherent(w, query[p], closer[p], "awaitView")
      BY <1>1, <1>2, <2>2, StartCloseCoherent DEF begun
    <3> QED
      BY <1>1, <2>1, <2>4, <3>1, SnapshotMove, Zenon
  <2> QED
    BY <2>1, <2>3, <2>4, Zenon
<1>7. CASE FinishByStore(p)
  <2>1. /\ view' = [view EXCEPT ![p] = finishClose(view[p])] /\ UNCHANGED closer
        /\ pc[p] = "finishView" /\ pc' = [pc EXCEPT ![p] = "awaitView"]
    BY <1>7 DEF FinishByStore, Go
  <2>2. "awaitView" \in servingLabels
    BY Zenon DEF servingLabels
  <2>3. coherent(finishClose(view[p]), query[p], closer[p], "awaitView")
    BY <1>1, <2>1, <2>2, FinishCoherent
  <2> QED
    BY <1>1, <2>1, <2>3, SnapshotMove, Zenon
<1>8. CASE AwaitView(p)
  <2>1. /\ view' = [view EXCEPT ![p] = NoView] /\ view[p].done /\ UNCHANGED closer
        /\ pc' = [pc EXCEPT ![p] = "unlock"]
    BY <1>8, Zenon DEF AwaitView, Go
  <2>2. view[p].active = 0 /\ closer[p] # "finishing" /\ \A q \in Queries : query[p][q] # "finishing"
    BY <1>1, <2>1, Zenon DEF coherent
  <2>3. coherent(NoView, query[p], closer[p], "unlock")
    BY <1>1, <2>2, Zenon DEF coherent, NoView, View
  <2> QED
    BY <1>1, <2>1, <2>3, SnapshotMove, Zenon
<1> QED
  BY <1>3, <1>4, <1>5, <1>6, <1>7, <1>8, ZenonT(40) DEF CloseSnapshot

\* Every step keeps every snapshot coherent.
LEMMA SnapshotStep == Counts(Queries) /\ LockInv /\ SnapshotInv /\ [Next]_vars => SnapshotInv'
<1> SUFFICES ASSUME Counts(Queries), LockInv, SnapshotInv, [Next]_vars PROVE SnapshotInv'
  OBVIOUS
<1> USE DEF Go
<1>1. ASSUME NEW p \in Procs, Start(p) PROVE SnapshotInv'
  BY <1>1, SnapshotElsewhere, Zenon DEF Start, servingLabels
<1>2. ASSUME NEW p \in Procs, Lock(p) \/ LockTimeout(p) \/ Unlock(p) PROVE SnapshotInv'
  BY <1>2, SnapshotElsewhere DEF Lock, LockTimeout, Unlock, firstStep, servingLabels
<1>3. ASSUME NEW p \in Procs, Fault(p) \/ RemovalFails(p) PROVE SnapshotInv'
  BY <1>3, SnapshotElsewhere, Zenon DEF Fault, RemovalFails, canFail, onError, servingLabels
<1>4. ASSUME NEW p \in Procs, Migrate(p) PROVE SnapshotInv'
  BY <1>4, SnapshotElsewhere
     DEF Migrate, createFile, beginMigration, applySQL, seedInitialCursorKey, recordMigration,
         commitMigration, servingLabels
<1>5. ASSUME NEW p \in Procs, Export(p) PROVE SnapshotInv'
  <2>1. PICK label : label # "finishView" /\ pc' = [pc EXCEPT ![p] = label]
    BY <1>5
       DEF Export, makeStage, copyBackupRows, ensureCleanBackupDestination, syncImage, linkImage,
           syncDirectory, removeStage, reportSuccess, discardLink
  <2>2. pc[p] \notin servingLabels /\ UNCHANGED snapshotVars
    BY <1>5
       DEF Export, makeStage, copyBackupRows, ensureCleanBackupDestination, syncImage, linkImage,
           syncDirectory, removeStage, reportSuccess, discardLink, servingLabels
  <2> QED
    BY <2>1, <2>2, SnapshotElsewhere, Zenon
<1>6. ASSUME NEW p \in Procs, PlanMigrations(p) \/ pruneEvents(p) \/ openExistingDatabase(p)
      PROVE  SnapshotInv'
  BY <1>6, SnapshotElsewhere DEF PlanMigrations, pruneEvents, openExistingDatabase, servingLabels
<1>7. ASSUME NEW p \in Procs, fullIntegrityCheck(p) PROVE SnapshotInv'
  <2>1. op[p] \in {"check", "prune", "export"}
    BY <1>7 DEF fullIntegrityCheck, LockInv, commandAt, offlineLabels
  <2>2. PICK label \in {"unlock", "pruneEvents", "stage"} : pc' = [pc EXCEPT ![p] = label]
    BY <1>7, <2>1, Zenon DEF fullIntegrityCheck
  <2>3. pc[p] \notin servingLabels /\ UNCHANGED snapshotVars
    BY <1>7 DEF fullIntegrityCheck, servingLabels
  <2> QED
    BY <2>2, <2>3, SnapshotElsewhere, Zenon
<1>8. ASSUME NEW p \in Procs, validateSchemaUnderSharedLock(p) \/ newStoreFromDatabase(p)
      PROVE  SnapshotInv'
  <2>1. PICK label \in {"openPools", "unlock", "serving"} : pc' = [pc EXCEPT ![p] = label]
    <3>1. CASE migrated
      BY <1>8, <3>1, Zenon DEF validateSchemaUnderSharedLock, newStoreFromDatabase
    <3>2. CASE ~ migrated
      BY <1>8, <3>2, Zenon DEF validateSchemaUnderSharedLock, newStoreFromDatabase
    <3> QED
      BY <3>1, <3>2
  <2>2. pc[p] \notin servingLabels /\ UNCHANGED snapshotVars
    BY <1>8 DEF validateSchemaUnderSharedLock, newStoreFromDatabase, servingLabels
  <2> QED
    BY <2>1, <2>2, SnapshotElsewhere, Zenon
<1>9. ASSUME NEW p \in Procs, CloseSnapshot(p) \/ CloseStore(p) \/ FinishByStore(p) \/ AwaitView(p)
      PROVE  SnapshotInv'
  BY <1>9, SnapshotClose
<1>10. ASSUME NEW p \in Procs, OpenSnapshot(p) PROVE SnapshotInv'
  <2>1. /\ pc[p] = "serving" /\ view[p] = NoView /\ pc' = [pc EXCEPT ![p] = "serving"]
        /\ view' = [view EXCEPT ![p] = OpenedView] /\ query' = [query EXCEPT ![p] = query[p]]
        /\ closer' = [closer EXCEPT ![p] = closer[p]]
    BY <1>10, Zenon DEF OpenSnapshot, SnapshotInv, LockInv, LockTypes
  <2>2. coherent(OpenedView, query[p], closer[p], "serving")
    BY <2>1, OpenedCoherent DEF SnapshotInv
  <2> QED
    BY <2>1, <2>2, SnapshotMove, Zenon
<1>11. ASSUME NEW p \in Procs, NEW q \in Queries, AdmitQuery(p, q) \/ QueryStep(p, q)
       PROVE  SnapshotInv'
  BY <1>11, SnapshotQueries
<1>12. ASSUME NEW p \in Procs, Crash(p) PROVE SnapshotInv'
  BY <1>12, SnapshotLeft, Zenon DEF Crash
<1>13. ASSUME PowerLoss PROVE SnapshotInv'
  BY <1>13, SnapshotLeft DEF PowerLoss
<1>14. ASSUME NEW p \in Procs, Commit(p) PROVE SnapshotInv'
  BY <1>14, SnapshotStutter DEF Commit, snapshotVars
<1>15. CASE OperatorCleans \/ UNCHANGED vars
  BY <1>15, SnapshotStutter, Zenon DEF OperatorCleans, vars, snapshotVars
<1> QED
  BY <1>1, <1>2, <1>3, <1>4, <1>5, <1>6, <1>7, <1>8, <1>9, <1>10, <1>11, <1>12, <1>13, <1>14, <1>15
     DEF Next, Step

-----------------------------------------------------------------------------
(* Exports.                                                                  *)

copiedLabels == {"recheck", "syncImage", "link", "syncLink", "removeStage", "syncRemoval", "report"}
linkedLabels == {"syncLink", "removeStage", "syncRemoval", "report"}
stagedLabels == copiedLabels \cup {"copy", "discard", "syncDiscard", "unstage"}

\* migrated, of any file.
complete(file) ==
  file.ledger = EmbeddedMigrations /\ file.schema = EmbeddedMigrations /\ file.key # NoKey

\* What an image must be to be the backup of a file.
wholeImage(image, file) ==
  complete(file) /\ image.synced = TRUE /\ image.key = file.key /\ image.ledger = file.ledger

\* A directory names such an image or nothing.
destinationOK(image, file) == image # NoImage => wholeImage(image, file)

\* What a process at a label has made so far: a transaction that changes nothing of a file
\* that is migrated already, a copy of the file, the name of the destination.
exportOK(label, image, file, dest, durable, told) ==
  /\ label \in {"applySQL", "seed", "record"} => ~ complete(file)
  /\ label = "commit" /\ complete(file) => image = file
  /\ label \in {"stage", "copy"} \cup copiedLabels => complete(file)
  /\ label \in copiedLabels =>
       image = [ledger |-> file.ledger, key |-> file.key, version |-> file.version,
                synced |-> image.synced]
  /\ label = "link" => image.synced = TRUE
  /\ label \in linkedLabels => dest = image
  /\ label \in linkedLabels \ {"syncLink"} => durable = image
  /\ label \in linkedLabels \cup {"discard"} => told = NoImage

\* Without a crash a stage that could be removed belongs to an export under way, and so
\* does a destination that was not reported and could be removed.
CleanUp ==
  /\ \A p \in dir.stages \ kept.stages : pc[p] \in stagedLabels
  /\ dir.dest \in {exported, kept.dest} \/ \E p \in Procs : pc[p] \in linkedLabels \cup {"discard"}

Directory(d) == d = [dest |-> d.dest, stages |-> d.stages] /\ d.stages \subseteq Procs

\* The destination is whole in the directory and on disk, a reported export is in both,
\* and every process has made what its label says.
ExportInv ==
  /\ Directory(dir) /\ Directory(synced) /\ Directory(kept) /\ crashes \in Nat
  /\ destinationOK(dir.dest, db) /\ destinationOK(synced.dest, db)
  /\ exported # NoImage => dir.dest = exported /\ synced.dest = exported
  /\ \A p \in Procs :
       /\ exportOK(pc[p], tx[p], db, dir.dest, synced.dest, exported)
       /\ pc[p] \in {"syncRemoval", "report"} => p \notin dir.stages
  /\ crashes = 0 => CleanUp

\* Nothing is exported at first.
LEMMA ExportInit == Init => ExportInv
<1> SUFFICES ASSUME Init PROVE ExportInv
  OBVIOUS
<1>1. /\ dir.dest = NoImage /\ dir.stages = {} /\ synced.dest = NoImage /\ synced.stages = {}
      /\ Directory(dir) /\ Directory(synced) /\ Directory(kept)
  BY Zenon DEF Init, EmptyDirectory, Directory
<1>2. \A p \in Procs : exportOK(pc[p], tx[p], db, dir.dest, synced.dest, exported)
  BY Zenon DEF Init, exportOK, copiedLabels, linkedLabels
<1> QED
  BY <1>1, <1>2, Zenon DEF Init, ExportInv, destinationOK, CleanUp

\* The labels of a migration's transaction and of an export.
busyLabels == inTransaction \cup {"stage", "copy", "discard"} \cup copiedLabels

\* Any other label says nothing of images.
LEMMA QuietLabel ==
  ASSUME NEW label, label \notin busyLabels,
         NEW image, NEW file, NEW dest, NEW durable, NEW told
  PROVE  exportOK(label, image, file, dest, durable, told)
BY Zenon DEF exportOK, busyLabels, inTransaction, copiedLabels, linkedLabels

\* Nobody else migrates, prunes or exports while the exclusive lock is held.
LEMMA OthersQuiet ==
  ASSUME LockInv, NEW p \in exclusive, NEW q \in Procs \ {p}
  PROVE  pc[q] \notin migrateLabels \cup offlineLabels /\ pc[q] \notin busyLabels
<1>1. q \notin exclusive
  BY Zenon DEF LockInv
<1>2. commandAt(op[q], pc[q]) /\ (q \in exclusive <=> holding(q) /\ usesExclusive(op[q]))
  BY DEF LockInv
<1> QED
  BY <1>1, <1>2
     DEF commandAt, holding, usesExclusive, migrateLabels, offlineLabels, busyLabels, inTransaction,
         copiedLabels

\* One process moves; files and directories stay.
LEMMA ExportMove ==
  ASSUME LockInv, ExportInv, NEW p \in Procs, NEW label,
         pc' = [pc EXCEPT ![p] = label], \A q \in Procs \ {p} : tx'[q] = tx[q],
         UNCHANGED <<db, dir, synced, exported, kept, crashes>>,
         exportOK(label, tx'[p], db, dir.dest, synced.dest, exported),
         label \in {"syncRemoval", "report"} => p \notin dir.stages,
         p \in dir.stages /\ pc[p] \in stagedLabels => label \in stagedLabels,
         pc[p] \in linkedLabels \cup {"discard"} => label \in linkedLabels \cup {"discard"}
  PROVE  ExportInv'
<1>1. pc'[p] = label /\ \A q \in Procs \ {p} : pc'[q] = pc[q]
  BY DEF LockInv, LockTypes
<1>2. ASSUME NEW q \in Procs
      PROVE  /\ exportOK(pc'[q], tx'[q], db, dir.dest, synced.dest, exported)
             /\ pc'[q] \in {"syncRemoval", "report"} => q \notin dir.stages
  <2>1. CASE q = p
    BY <1>1, <2>1
  <2>2. CASE q # p
    BY <1>1, <2>2, Zenon DEF ExportInv
  <2> QED
    BY <2>1, <2>2, ZenonT(40)
<1>3. ASSUME CleanUp PROVE CleanUp'
  <2>1. ASSUME NEW q \in dir.stages \ kept.stages PROVE pc'[q] \in stagedLabels
    BY <1>1, <1>3, <2>1, Zenon DEF CleanUp, ExportInv, Directory
  <2>2. ASSUME NEW q \in Procs, pc[q] \in linkedLabels \cup {"discard"}
        PROVE  pc'[q] \in linkedLabels \cup {"discard"}
    BY <1>1, <2>2, Zenon
  <2> QED
    BY <1>3, <2>1, <2>2, Zenon DEF CleanUp
<1> QED
  BY <1>2, <1>3, ZenonT(40) DEF ExportInv

\* The holder of the exclusive lock moves, whatever it changes.
LEMMA ExportAlone ==
  ASSUME LockInv, NEW p \in exclusive, NEW label,
         pc' = [pc EXCEPT ![p] = label],
         exportOK(label, tx'[p], db', dir'.dest, synced'.dest, exported')
  PROVE  /\ pc'[p] = label /\ p \in Procs /\ \A q \in Procs \ {p} : pc'[q] = pc[q]
         /\ \A q \in Procs : exportOK(pc'[q], tx'[q], db', dir'.dest, synced'.dest, exported')
         /\ \A q \in Procs \ {p} : pc[q] \notin migrateLabels \cup offlineLabels
<1>1. pc'[p] = label /\ p \in Procs /\ \A q \in Procs \ {p} : pc'[q] = pc[q]
  BY Zenon DEF LockInv, LockTypes
<1>2. \A q \in Procs \ {p} : pc[q] \notin migrateLabels \cup offlineLabels
  BY OthersQuiet, Zenon
<1>3. ASSUME NEW q \in Procs
      PROVE  exportOK(pc'[q], tx'[q], db', dir'.dest, synced'.dest, exported')
  <2>1. CASE q = p
    BY <1>1, <2>1, Zenon
  <2>2. CASE q # p
    <3>1. pc'[q] \notin busyLabels
      BY <1>1, <2>2, OthersQuiet
    <3> QED
      BY <3>1, QuietLabel, Zenon
  <2> QED
    BY <2>1, <2>2, Zenon
<1> QED
  BY <1>1, <1>2, <1>3, Zenon

\* A process that exports nothing moves to where it exports nothing.
LEMMA ExportQuiet ==
  ASSUME LockInv, ExportInv, NEW p \in Procs, NEW label,
         label \notin busyLabels, pc[p] \notin stagedLabels,
         pc' = [pc EXCEPT ![p] = label], \A q \in Procs \ {p} : tx'[q] = tx[q],
         UNCHANGED <<db, dir, synced, exported, kept, crashes>>
  PROVE  ExportInv'
<1>1. exportOK(label, tx'[p], db, dir.dest, synced.dest, exported)
  BY QuietLabel, Zenon
<1>2. label \notin {"syncRemoval", "report"} /\ pc[p] \notin linkedLabels \cup {"discard"}
  BY ZenonT(40) DEF busyLabels, copiedLabels, stagedLabels, linkedLabels
<1> QED
  BY <1>1, <1>2, ExportMove, Zenon

\* Nobody moves and neither files nor directories change.
LEMMA ExportStutter ==
  ASSUME ExportInv, UNCHANGED <<pc, tx, db, dir, synced, exported, kept, crashes>>
  PROVE  ExportInv'
BY DEF ExportInv, CleanUp

\* The steps of the commands that neither migrate nor export.
LEMMA ExportElsewhere ==
  ASSUME LockInv, ExportInv, MigrationInv, NEW p \in Procs,
         \/ Start(p) \/ Lock(p) \/ LockTimeout(p) \/ Unlock(p) \/ PlanMigrations(p)
         \/ openExistingDatabase(p) \/ newStoreFromDatabase(p) \/ CloseStore(p)
         \/ FinishByStore(p) \/ AwaitView(p)
  PROVE  ExportInv'
<1>1. PICK label \in {"serving", "lock", "idle", "unlock", "createFile", "validate", "inspect",
                      "loadKey", "finishView", "awaitView"} :
        pc' = [pc EXCEPT ![p] = label]
  BY Zenon DEF Start, Lock, LockTimeout, Unlock, PlanMigrations, openExistingDatabase,
     newStoreFromDatabase, CloseStore, FinishByStore, AwaitView, Go, firstStep
<1>2. /\ UNCHANGED <<db, dir, synced, exported, kept, crashes>>
      /\ tx' = tx \/ tx' = [tx EXCEPT ![p] = NoFile]
  BY Zenon DEF Start, Lock, LockTimeout, Unlock, PlanMigrations, openExistingDatabase,
     newStoreFromDatabase, CloseStore, FinishByStore, AwaitView, backup
<1>3. pc[p] \notin stagedLabels
  BY Zenon DEF Start, Lock, LockTimeout, Unlock, PlanMigrations, openExistingDatabase,
     newStoreFromDatabase, CloseStore, FinishByStore, AwaitView, stagedLabels, copiedLabels
<1>4. label \notin busyLabels
  BY ZenonT(40) DEF busyLabels, inTransaction, copiedLabels
<1>5. \A q \in Procs \ {p} : tx'[q] = tx[q]
  BY <1>2 DEF MigrationInv
<1> QED
  BY <1>1, <1>2, <1>3, <1>4, <1>5, ExportQuiet, Zenon

\* ValidateSchema, and the validation in Open.
LEMMA ExportValidate ==
  ASSUME LockInv, ExportInv, NEW p \in Procs, validateSchemaUnderSharedLock(p)
  PROVE  ExportInv'
<1>1. pc' = [pc EXCEPT ![p] = "openPools"] \/ pc' = [pc EXCEPT ![p] = "unlock"]
  <2>1. CASE op[p] = "open" /\ db.exists /\ migrated
    BY <2>1 DEF validateSchemaUnderSharedLock, Go
  <2>2. CASE ~ (op[p] = "open" /\ db.exists /\ migrated)
    BY <2>2, Zenon DEF validateSchemaUnderSharedLock, Go
  <2> QED
    BY <2>1, <2>2, Zenon
<1>2. UNCHANGED <<db, tx, dir, synced, exported, kept, crashes>> /\ pc[p] \notin stagedLabels
  BY DEF validateSchemaUnderSharedLock, backup, stagedLabels, copiedLabels
<1>3. "openPools" \notin busyLabels /\ "unlock" \notin busyLabels
  BY DEF busyLabels, inTransaction, copiedLabels
<1> QED
  BY <1>1, <1>2, <1>3, ExportQuiet, Zenon

\* The check of an export lets only a migrated file through.
LEMMA ExportChecked ==
  ASSUME LockInv, ExportInv, NEW p \in Procs, fullIntegrityCheck(p)
  PROVE  ExportInv'
<1>1. op[p] \in {"check", "prune", "export"}
  BY DEF fullIntegrityCheck, LockInv, commandAt, offlineLabels
<1>2. UNCHANGED <<db, tx, dir, synced, exported, kept, crashes>> /\ pc[p] \notin stagedLabels
  BY DEF fullIntegrityCheck, backup, stagedLabels, copiedLabels
<1>3. CASE migrated /\ op[p] = "export"
  <2>1. pc' = [pc EXCEPT ![p] = "stage"]
    BY <1>3, Zenon DEF fullIntegrityCheck, Go
  <2>2. exportOK("stage", tx'[p], db, dir.dest, synced.dest, exported)
    BY <1>3, Zenon DEF exportOK, complete, migrated, copiedLabels, linkedLabels
  <2>3. pc[p] \notin linkedLabels \cup {"discard"}
    BY <1>2 DEF linkedLabels, stagedLabels, copiedLabels
  <2> QED
    BY <1>2, <2>1, <2>2, <2>3, ExportMove, Zenon
<1>4. CASE ~ (migrated /\ op[p] = "export")
  <2>1. pc' = [pc EXCEPT ![p] = "unlock"] \/ pc' = [pc EXCEPT ![p] = "pruneEvents"]
    BY <1>1, <1>4, Zenon DEF fullIntegrityCheck, Go
  <2>2. "unlock" \notin busyLabels /\ "pruneEvents" \notin busyLabels
    BY DEF busyLabels, inTransaction, copiedLabels
  <2> QED
    BY <1>2, <2>1, <2>2, ExportQuiet, Zenon
<1> QED
  BY <1>3, <1>4

\* A migration has something to do only while the file is not migrated.
LEMMA ExportMigrates ==
  ASSUME LockInv, MigrationInv, ExportInv, NEW p \in Procs,
         beginMigration(p) \/ applySQL(p) \/ seedInitialCursorKey(p) \/ recordMigration(p)
  PROVE  ExportInv'
<1>1. /\ UNCHANGED <<db, dir, synced, exported, kept, crashes>>
      /\ pc[p] \in {"begin", "applySQL", "seed", "record"}
      /\ tx' = tx \/ \E file : tx' = [tx EXCEPT ![p] = file]
  BY DEF beginMigration, applySQL, seedInitialCursorKey, recordMigration, backup
<1>2. PICK label \in inTransaction : pc' = [pc EXCEPT ![p] = label]
  BY Zenon DEF beginMigration, applySQL, seedInitialCursorKey, recordMigration, Go, inTransaction
<1>3. \A q \in Procs \ {p} : tx'[q] = tx[q]
  BY <1>1, ZenonT(40) DEF MigrationInv
<1>4. exportOK(pc[p], tx[p], db, dir.dest, synced.dest, exported)
  BY DEF ExportInv
<1>5. ~ complete(db) \/ (label = "commit" /\ tx'[p] = db)
  <2>1. CASE beginMigration(p)
    <3>1. /\ tx' = [tx EXCEPT ![p] = db]
          /\ pc' = [pc EXCEPT ![p] =
                      IF db.ledger = EmbeddedMigrations THEN "commit" ELSE "applySQL"]
      BY <2>1, Zenon DEF beginMigration, Go
    <3>2. tx'[p] = db
      BY <3>1, Zenon DEF MigrationInv
    <3>3. label = IF db.ledger = EmbeddedMigrations THEN "commit" ELSE "applySQL"
      BY <1>2, <3>1 DEF LockInv, LockTypes
    <3> QED
      BY <3>2, <3>3, Zenon DEF complete
  <2>2. CASE pc[p] \in {"applySQL", "seed", "record"}
    BY <1>4, <2>2, Zenon DEF exportOK
  <2> QED
    BY <2>1, <2>2, Zenon DEF applySQL, seedInitialCursorKey, recordMigration
<1>6. exportOK(label, tx'[p], db, dir.dest, synced.dest, exported)
  BY <1>5, Zenon DEF exportOK, inTransaction, copiedLabels, linkedLabels
<1>7. /\ label \notin {"syncRemoval", "report"} /\ pc[p] \notin stagedLabels
      /\ pc[p] \notin linkedLabels \cup {"discard"}
  BY <1>1 DEF inTransaction, stagedLabels, copiedLabels, linkedLabels
<1> QED
  BY <1>1, <1>2, <1>3, <1>6, <1>7, ExportMove, Zenon

\* The holder of the exclusive lock changes the file and leaves a migrated one migrated.
LEMMA ExportFile ==
  ASSUME LockInv, ExportInv, NEW p \in exclusive, NEW label,
         label \notin busyLabels, pc[p] \notin stagedLabels,
         pc' = [pc EXCEPT ![p] = label], UNCHANGED <<tx, dir, synced, exported, kept, crashes>>,
         complete(db) => db'.ledger = db.ledger /\ db'.schema = db.schema /\ db'.key = db.key
  PROVE  ExportInv'
<1>1. exportOK(label, tx'[p], db', dir'.dest, synced'.dest, exported')
  BY QuietLabel, Zenon
<1>2. /\ pc'[p] = label /\ p \in Procs /\ \A q \in Procs \ {p} : pc'[q] = pc[q]
      /\ \A q \in Procs : exportOK(pc'[q], tx'[q], db', dir'.dest, synced'.dest, exported')
      /\ \A q \in Procs \ {p} : pc[q] \notin migrateLabels \cup offlineLabels
  BY <1>1, ExportAlone, ZenonT(40)
<1>3. \A q \in Procs : pc'[q] \notin {"syncRemoval", "report"}
  BY <1>2 DEF offlineLabels, busyLabels, copiedLabels
<1>4. destinationOK(dir.dest, db') /\ destinationOK(synced.dest, db')
  BY Zenon DEF ExportInv, destinationOK, wholeImage, complete
<1>5. ASSUME CleanUp PROVE CleanUp'
  <2>1. \A q \in dir.stages \ kept.stages : q # p /\ pc'[q] = pc[q]
    BY <1>2, <1>5, ZenonT(40) DEF CleanUp, ExportInv, Directory
  <2>2. ~ \E q \in Procs : pc[q] \in linkedLabels \cup {"discard"}
    BY <1>2 DEF linkedLabels, offlineLabels, stagedLabels, copiedLabels
  <2> QED
    BY <1>5, <2>1, <2>2, Zenon DEF CleanUp
<1> QED
  BY <1>2, <1>3, <1>4, <1>5, Zenon DEF ExportInv

\* ApplyMigrations makes the file, commits, and a prune makes a new version of its rows.
LEMMA ExportFileChanged ==
  ASSUME LockInv, MigrationInv, ExportInv, NEW p \in Procs,
         createFile(p) \/ commitMigration(p) \/ pruneEvents(p)
  PROVE  ExportInv'
<1>1. /\ UNCHANGED <<tx, dir, synced, exported, kept, crashes>>
      /\ pc[p] \in {"createFile", "commit", "pruneEvents"}
  BY DEF createFile, commitMigration, pruneEvents, backup
<1>2. PICK label \in {"begin", "unlock"} : pc' = [pc EXCEPT ![p] = label]
  BY Zenon DEF createFile, commitMigration, pruneEvents, Go
<1>3. p \in exclusive
  BY <1>1, Zenon DEF LockInv, commandAt, migrateLabels, offlineLabels, holding, usesExclusive
<1>4. label \notin busyLabels /\ pc[p] \notin stagedLabels
  BY <1>1, Zenon DEF busyLabels, inTransaction, stagedLabels, copiedLabels
<1>5. complete(db) => db'.ledger = db.ledger /\ db'.schema = db.schema /\ db'.key = db.key
  <2>1. CASE createFile(p) \/ pruneEvents(p)
    BY <2>1, ZenonT(40) DEF createFile, pruneEvents, MigrationInv, File
  <2>2. CASE commitMigration(p)
    <3>1. exportOK("commit", tx[p], db, dir.dest, synced.dest, exported) /\ db' = tx[p]
      BY <2>2, Zenon DEF commitMigration, ExportInv
    <3> QED
      BY <3>1 DEF exportOK
  <2> QED
    BY <2>1, <2>2, Zenon
<1> QED
  BY <1>1, <1>2, <1>3, <1>4, <1>5, ExportFile, Zenon

\* A store commits only while nobody migrates or exports.
LEMMA ExportCommit ==
  ASSUME LockInv, MigrationInv, ExportInv, NEW p \in Procs, Commit(p)
  PROVE  ExportInv'
<1>1. p \in shared
  BY Zenon DEF Commit, LockInv, holding, usesShared
<1>2. exclusive = {}
  BY <1>1, ZenonT(40) DEF LockInv
<1>3. ASSUME NEW q \in Procs PROVE pc[q] \notin busyLabels
  BY <1>2
     DEF LockInv, commandAt, holding, usesExclusive, migrateLabels, offlineLabels, busyLabels,
         inTransaction, copiedLabels
<1>4. /\ UNCHANGED <<pc, tx, dir, synced, exported, kept, crashes>>
      /\ db'.ledger = db.ledger /\ db'.schema = db.schema /\ db'.key = db.key
  BY ZenonT(40) DEF Commit, backup, MigrationInv, File
<1>5. ASSUME NEW q \in Procs
      PROVE  exportOK(pc'[q], tx'[q], db', dir'.dest, synced'.dest, exported')
  BY <1>3, <1>4, QuietLabel
<1>6. destinationOK(dir.dest, db') /\ destinationOK(synced.dest, db')
  BY <1>4, Zenon DEF ExportInv, destinationOK, wholeImage, complete
<1> QED
  BY <1>4, <1>5, <1>6, Zenon DEF ExportInv, CleanUp

\* The exporter changes the directory, or what is synced or reported of it.
LEMMA ExportDirectory ==
  ASSUME LockInv, ExportInv, NEW p \in exclusive, NEW label, pc[p] \in offlineLabels,
         pc' = [pc EXCEPT ![p] = label], UNCHANGED <<tx, db, kept, crashes>>,
         Directory(dir'), Directory(synced'),
         destinationOK(dir'.dest, db), destinationOK(synced'.dest, db),
         exported' # NoImage => dir'.dest = exported' /\ synced'.dest = exported',
         exportOK(label, tx[p], db, dir'.dest, synced'.dest, exported'),
         label \in {"syncRemoval", "report"} => p \notin dir'.stages,
         dir'.stages \subseteq dir.stages \cup {p},
         p \in dir'.stages => label \in stagedLabels \/ (p \in dir.stages /\ pc[p] \notin stagedLabels),
         \/ dir'.dest = exported' \/ label \in linkedLabels \cup {"discard"}
         \/ /\ dir'.dest = dir.dest /\ exported' = exported
            /\ pc[p] \notin linkedLabels \cup {"discard"}
  PROVE  ExportInv'
<1>1. /\ pc'[p] = label /\ p \in Procs /\ \A q \in Procs \ {p} : pc'[q] = pc[q]
      /\ \A q \in Procs : exportOK(pc'[q], tx'[q], db', dir'.dest, synced'.dest, exported')
      /\ \A q \in Procs \ {p} : pc[q] \notin migrateLabels \cup offlineLabels
  BY ExportAlone, Zenon
<1>2. \A q \in Procs : pc'[q] \in {"syncRemoval", "report"} => q \notin dir'.stages
  BY <1>1, Zenon DEF offlineLabels
<1>3. ASSUME CleanUp PROVE CleanUp'
  <2>1. ASSUME NEW q \in dir'.stages \ kept.stages PROVE pc'[q] \in stagedLabels
    <3>1. CASE q = p
      BY <1>1, <1>3, <2>1, <3>1, ZenonT(40) DEF CleanUp
    <3>2. CASE q # p
      BY <1>1, <1>3, <2>1, <3>2 DEF CleanUp, ExportInv, Directory
    <3> QED
      BY <3>1, <3>2, Zenon
  <2>2. \A q \in Procs \ {p} : pc[q] \notin linkedLabels \cup {"discard"}
    BY <1>1, Zenon DEF linkedLabels, offlineLabels
  <2>3. dir'.dest \in {exported', kept.dest} \/ \E q \in Procs : pc'[q] \in linkedLabels \cup {"discard"}
    BY <1>1, <1>3, <2>2, Zenon DEF CleanUp
  <2> QED
    BY <2>1, <2>3, Zenon DEF CleanUp
<1> QED
  BY <1>1, <1>2, <1>3, Zenon DEF ExportInv

\* Whoever is at a step of the export holds the exclusive lock.
LEMMA ExporterAlone ==
  ASSUME LockInv, NEW p \in Procs, pc[p] \in offlineLabels PROVE p \in exclusive
BY Zenon DEF LockInv, commandAt, holding, usesExclusive, offlineLabels

\* The stage is made, in a directory that has none.
LEMMA ExportStage ==
  ASSUME LockInv, ExportInv, NEW p \in Procs, makeStage(p)
  PROVE  ExportInv'
<1>1. /\ pc[p] = "stage" /\ UNCHANGED <<tx, db, synced, exported, kept, crashes>>
      /\ pc[p] \in offlineLabels /\ pc[p] \notin linkedLabels \cup {"discard"}
      /\ pc[p] \notin stagedLabels
  BY DEF makeStage, offlineLabels, linkedLabels, stagedLabels, copiedLabels
<1>2. exportOK("stage", tx[p], db, dir.dest, synced.dest, exported)
  BY <1>1, Zenon DEF ExportInv
<1>3. CASE dir.stages = {}
  <2>1. dir' = [dir EXCEPT !.stages = {p}] /\ pc' = [pc EXCEPT ![p] = "copy"]
    BY <1>3 DEF makeStage, Go
  <2>2. dir'.dest = dir.dest /\ dir'.stages = {p} /\ Directory(dir')
    BY <2>1 DEF ExportInv, Directory
  <2>3. exportOK("copy", tx[p], db, dir'.dest, synced'.dest, exported')
    BY <1>2, Zenon DEF exportOK, copiedLabels, linkedLabels
  <2>4. "copy" \in stagedLabels
    BY DEF stagedLabels
  <2> QED
    BY <1>1, <2>1, <2>2, <2>3, <2>4, ExportDirectory, ExporterAlone, Zenon DEF ExportInv
<1>4. CASE dir.stages # {}
  <2>1. dir' = dir /\ pc' = [pc EXCEPT ![p] = "unlock"] /\ "unlock" \notin busyLabels
    BY <1>4 DEF makeStage, Go, busyLabels, inTransaction, copiedLabels
  <2> QED
    BY <1>1, <2>1, ExportQuiet, Zenon
<1> QED
  BY <1>3, <1>4

\* What fsync makes of an image.
LEMMA SyncedImage ==
  ASSUME NEW image, NEW ledger, NEW key, NEW version, NEW onDisk,
         image = [ledger |-> ledger, key |-> key, version |-> version, synced |-> onDisk]
  PROVE  [image EXCEPT !.synced = TRUE] =
           [ledger |-> ledger, key |-> key, version |-> version, synced |-> TRUE]
<1>1. ASSUME NEW done
      PROVE  [image EXCEPT !.synced = done] =
               [ledger |-> ledger, key |-> key, version |-> version, synced |-> done]
  <2>1. [[ledger |-> ledger, key |-> key, version |-> version, synced |-> onDisk]
           EXCEPT !.synced = done] =
          [ledger |-> ledger, key |-> key, version |-> version, synced |-> done]
    OBVIOUS
  <2> QED
    BY <2>1
<1> QED
  BY <1>1, Zenon

\* The rows are copied and the image checked; the name must still be free.
LEMMA ExportCopied ==
  ASSUME LockInv, MigrationInv, ExportInv, NEW p \in Procs,
         copyBackupRows(p) \/ ensureCleanBackupDestination(p) \/ syncImage(p)
  PROVE  ExportInv'
<1>1. /\ pc[p] \in {"copy", "recheck", "syncImage"}
      /\ UNCHANGED <<db, dir, synced, exported, kept, crashes>>
  BY DEF copyBackupRows, ensureCleanBackupDestination, syncImage, backup
<1>2. exportOK(pc[p], tx[p], db, dir.dest, synced.dest, exported)
  BY Zenon DEF ExportInv
<1>3. PICK label \in {"recheck", "syncImage", "link", "unstage"} :
        /\ pc' = [pc EXCEPT ![p] = label]
        /\ label = "recheck" => copyBackupRows(p)
        /\ label = "syncImage" => ensureCleanBackupDestination(p)
        /\ label = "link" => syncImage(p)
  BY DEF copyBackupRows, ensureCleanBackupDestination, syncImage, Go
<1>4. tx' = tx \/ \E image : tx' = [tx EXCEPT ![p] = image]
  BY Zenon DEF copyBackupRows, ensureCleanBackupDestination, syncImage
<1>5. \A q \in Procs \ {p} : tx'[q] = tx[q]
  BY <1>4, Zenon DEF MigrationInv
<1>6. exportOK(label, tx'[p], db, dir.dest, synced.dest, exported)
  <2>1. CASE label = "recheck"
    <3>1. tx'[p] = [ledger |-> db.ledger, key |-> db.key, version |-> db.version,
                    synced |-> FALSE]
      BY <1>3, <2>1 DEF copyBackupRows, MigrationInv
    <3> QED
      BY <1>2, <1>3, <2>1, <3>1 DEF copyBackupRows, exportOK, copiedLabels, linkedLabels
  <2>2. CASE label = "syncImage"
    BY <1>2, <1>3, <2>2, Zenon DEF ensureCleanBackupDestination, exportOK, copiedLabels, linkedLabels
  <2>3. CASE label = "link"
    <3>1. tx'[p] = [tx[p] EXCEPT !.synced = TRUE]
      BY <1>3, <2>3 DEF syncImage, MigrationInv
    <3>2. /\ complete(db)
          /\ tx[p] = [ledger |-> db.ledger, key |-> db.key, version |-> db.version,
                      synced |-> tx[p].synced]
      BY <1>2, <1>3, <2>3 DEF syncImage, exportOK, copiedLabels
    <3>3. tx'[p] = [ledger |-> db.ledger, key |-> db.key, version |-> db.version, synced |-> TRUE]
      BY <3>1, <3>2, SyncedImage
    <3>4. tx'[p].synced = TRUE
      BY <3>3
    <3> QED
      BY <2>3, <3>2, <3>3, <3>4, Zenon DEF exportOK, copiedLabels, linkedLabels
  <2>4. CASE label = "unstage"
    BY <2>4, QuietLabel, Zenon DEF busyLabels, inTransaction, copiedLabels
  <2> QED
    BY <2>1, <2>2, <2>3, <2>4, ZenonT(40)
<1>7. /\ label \in stagedLabels /\ label \notin {"syncRemoval", "report"}
      /\ pc[p] \notin linkedLabels \cup {"discard"}
  BY <1>1 DEF stagedLabels, copiedLabels, linkedLabels
<1> QED
  BY <1>1, <1>3, <1>5, <1>6, <1>7, ExportMove, Zenon

\* The image is linked to a free name.
LEMMA ExportLink ==
  ASSUME LockInv, ExportInv, NEW p \in Procs, linkImage(p)
  PROVE  ExportInv'
<1>1. /\ pc[p] = "link" /\ UNCHANGED <<tx, db, synced, exported, kept, crashes>>
      /\ pc[p] \in offlineLabels /\ pc[p] \notin linkedLabels \cup {"discard"}
      /\ pc[p] \in stagedLabels
  BY DEF linkImage, offlineLabels, linkedLabels, stagedLabels, copiedLabels
<1>2. exportOK("link", tx[p], db, dir.dest, synced.dest, exported)
  BY <1>1, Zenon DEF ExportInv
<1>3. CASE dir.dest = NoImage
  <2>1. dir' = [dir EXCEPT !.dest = tx[p]] /\ pc' = [pc EXCEPT ![p] = "syncLink"]
    BY <1>3 DEF linkImage, Go
  <2>2. dir'.dest = tx[p] /\ dir'.stages = dir.stages /\ Directory(dir')
    BY <2>1, Zenon DEF ExportInv, Directory
  <2>3. exported = NoImage
    BY <1>3, Zenon DEF ExportInv
  <2>4. /\ complete(db) /\ tx[p].synced = TRUE
        /\ tx[p] = [ledger |-> db.ledger, key |-> db.key, version |-> db.version,
                    synced |-> tx[p].synced]
    BY <1>2, ZenonT(40) DEF exportOK, copiedLabels
  <2>5. tx[p].key = db.key /\ tx[p].ledger = db.ledger
    BY <2>4
  <2>6. destinationOK(dir'.dest, db)
    BY <2>2, <2>4, <2>5, ZenonT(40) DEF destinationOK, wholeImage
  <2>7. exportOK("syncLink", tx[p], db, dir'.dest, synced'.dest, exported')
    BY <1>1, <2>2, <2>3, <2>4, ZenonT(40) DEF exportOK, copiedLabels, linkedLabels
  <2>8. "syncLink" \in stagedLabels /\ "syncLink" \in linkedLabels
    BY DEF stagedLabels, copiedLabels, linkedLabels
  <2> QED
    BY <1>1, <2>1, <2>2, <2>3, <2>6, <2>7, <2>8, ExportDirectory, ExporterAlone, Zenon DEF ExportInv
<1>4. CASE dir.dest # NoImage
  <2>1. dir' = dir /\ pc' = [pc EXCEPT ![p] = "unstage"] /\ "unstage" \notin busyLabels
    BY <1>4, Zenon DEF linkImage, Go, busyLabels, inTransaction, copiedLabels
  <2>2. exportOK("unstage", tx'[p], db, dir.dest, synced.dest, exported)
    BY <2>1, QuietLabel
  <2>3. "unstage" \in stagedLabels
    BY DEF stagedLabels
  <2> QED
    BY <1>1, <2>1, <2>2, <2>3, ExportMove, Zenon
<1> QED
  BY <1>3, <1>4

\* The directory is synced, after the link, after the stage is gone, after a discard.
LEMMA ExportSynced ==
  ASSUME LockInv, ExportInv, NEW p \in Procs, NEW from, NEW to, syncDirectory(p, from, to),
         \/ from = "syncLink" /\ to = "removeStage"
         \/ from = "syncRemoval" /\ to = "report"
         \/ from = "syncDiscard" /\ to = "unstage"
  PROVE  ExportInv'
<1>1. /\ pc[p] = from /\ UNCHANGED <<tx, db, dir, exported, kept, crashes>> /\ synced' = dir
      /\ pc' = [pc EXCEPT ![p] = to]
  BY DEF syncDirectory, Go
<1>2. exportOK(from, tx[p], db, dir.dest, synced.dest, exported)
  BY <1>1, Zenon DEF ExportInv
<1>3. exportOK(to, tx[p], db, dir'.dest, synced'.dest, exported')
  BY <1>1, <1>2, Zenon DEF exportOK, copiedLabels, linkedLabels
<1>4. /\ from \in offlineLabels /\ to \in stagedLabels
      /\ from \in linkedLabels \cup {"discard"} => to \in linkedLabels \cup {"discard"}
  BY DEF offlineLabels, stagedLabels, linkedLabels, copiedLabels
<1>5. to \in {"syncRemoval", "report"} => p \notin dir'.stages
  BY <1>1, Zenon DEF ExportInv
<1> QED
  BY <1>1, <1>3, <1>4, <1>5, ExportDirectory, ExporterAlone, Zenon DEF ExportInv

\* The stage goes, once the image is named or once it is given up.
LEMMA ExportUnstaged ==
  ASSUME LockInv, ExportInv, NEW p \in Procs, NEW from, NEW to, removeStage(p, from, to),
         \/ from = "removeStage" /\ to = "syncRemoval"
         \/ from = "unstage" /\ to = "unlock"
  PROVE  ExportInv'
<1>1. /\ pc[p] = from /\ UNCHANGED <<tx, db, synced, exported, kept, crashes>>
      /\ dir' = [dir EXCEPT !.stages = dir.stages \ {p}] /\ pc' = [pc EXCEPT ![p] = to]
  BY DEF removeStage, Go
<1>2. dir'.dest = dir.dest /\ dir'.stages = dir.stages \ {p} /\ Directory(dir')
  BY <1>1, Zenon DEF ExportInv, Directory
<1>3. exportOK(from, tx[p], db, dir.dest, synced.dest, exported)
  BY <1>1, Zenon DEF ExportInv
<1>4. exportOK(to, tx[p], db, dir'.dest, synced'.dest, exported')
  BY <1>1, <1>2, <1>3 DEF exportOK, copiedLabels, linkedLabels
<1>5. /\ from \in offlineLabels
      /\ from \in linkedLabels \cup {"discard"} => to \in linkedLabels \cup {"discard"}
  BY Zenon DEF offlineLabels, linkedLabels
<1> QED
  BY <1>1, <1>2, <1>4, <1>5, ExportDirectory, ExporterAlone, Zenon DEF ExportInv

\* Success is reported of an image that is named on disk.
LEMMA ExportReported ==
  ASSUME LockInv, ExportInv, NEW p \in Procs, reportSuccess(p)
  PROVE  ExportInv'
<1>1. /\ pc[p] = "report" /\ UNCHANGED <<tx, db, dir, synced, kept, crashes>>
      /\ exported' = tx[p] /\ pc' = [pc EXCEPT ![p] = "unlock"]
  BY DEF reportSuccess, Go
<1>2. exportOK("report", tx[p], db, dir.dest, synced.dest, exported) /\ p \notin dir.stages
  BY <1>1, Zenon DEF ExportInv
<1>3. dir.dest = tx[p] /\ synced.dest = tx[p]
  BY <1>2, Zenon DEF exportOK, linkedLabels
<1>4. exportOK("unlock", tx[p], db, dir'.dest, synced'.dest, exported') /\ pc[p] \in offlineLabels
  BY <1>1, QuietLabel DEF busyLabels, inTransaction, copiedLabels, offlineLabels
<1> QED
  BY <1>1, <1>2, <1>3, <1>4, ExportDirectory, ExporterAlone, Zenon DEF ExportInv

\* A name is taken away only before it was reported.
LEMMA ExportDiscarded ==
  ASSUME LockInv, ExportInv, NEW p \in Procs, discardLink(p)
  PROVE  ExportInv'
<1>1. /\ pc[p] = "discard" /\ UNCHANGED <<tx, db, synced, exported, kept, crashes>>
      /\ dir' = [dir EXCEPT !.dest = NoImage] /\ pc' = [pc EXCEPT ![p] = "syncDiscard"]
  BY DEF discardLink, Go
<1>2. dir'.dest = NoImage /\ dir'.stages = dir.stages /\ Directory(dir')
  BY <1>1 DEF ExportInv, Directory
<1>3. exported = NoImage
  BY <1>1, Zenon DEF ExportInv, exportOK
<1>4. /\ exportOK("syncDiscard", tx[p], db, dir'.dest, synced'.dest, exported')
      /\ pc[p] \in offlineLabels /\ "syncDiscard" \in stagedLabels
  BY <1>1, QuietLabel, Zenon DEF busyLabels, inTransaction, copiedLabels, offlineLabels, stagedLabels
<1> QED
  BY <1>1, <1>2, <1>3, <1>4, ExportDirectory, ExporterAlone, Zenon DEF ExportInv, destinationOK

\* Every step of ExportAuditBackup.
LEMMA ExportExports ==
  ASSUME LockInv, MigrationInv, ExportInv, NEW p \in Procs, Export(p)
  PROVE  ExportInv'
BY ExportStage, ExportCopied, ExportLink, ExportSynced, ExportUnstaged, ExportReported,
   ExportDiscarded DEF Export

\* A failed step of an export goes to what must be undone.
LEMMA ExportFault ==
  ASSUME LockInv, ExportInv, NEW p \in Procs, Fault(p)
  PROVE  ExportInv'
<1>1. /\ UNCHANGED <<tx, db, dir, synced, exported, kept, crashes>>
      /\ pc' = [pc EXCEPT ![p] = onError(pc[p])]
      /\ pc[p] \notin {"discard", "unstage"}
  BY DEF Fault, Go, backup, canFail
<1>2. CASE pc[p] \in {"copy", "recheck", "syncImage", "link", "syncDiscard"}
  <2>1. /\ onError(pc[p]) = "unstage" /\ pc[p] \notin linkedLabels \cup {"discard"}
        /\ "unstage" \in stagedLabels /\ "unstage" \notin busyLabels
    BY <1>2
       DEF onError, linkedLabels, stagedLabels, busyLabels, inTransaction, copiedLabels
  <2>2. exportOK("unstage", tx'[p], db, dir.dest, synced.dest, exported)
    BY <2>1, QuietLabel
  <2> QED
    BY <1>1, <2>1, <2>2, ExportMove, Zenon
<1>3. CASE pc[p] \in linkedLabels
  <2>1. onError(pc[p]) = "discard" /\ "discard" \in stagedLabels
    BY <1>3, Zenon DEF onError, linkedLabels, stagedLabels
  <2>2. exportOK(pc[p], tx[p], db, dir.dest, synced.dest, exported)
    BY ZenonT(40) DEF ExportInv
  <2>3. exportOK("discard", tx'[p], db, dir.dest, synced.dest, exported)
    BY <1>3, <2>2 DEF exportOK, copiedLabels, linkedLabels
  <2> QED
    BY <1>1, <2>1, <2>3, ExportMove, Zenon
<1>4. CASE pc[p] \notin linkedLabels \cup {"copy", "recheck", "syncImage", "link", "syncDiscard"}
  <2>1. pc[p] \notin stagedLabels
    BY <1>1, <1>4 DEF linkedLabels, stagedLabels, copiedLabels
  <2>2. onError(pc[p]) \in {"unlock", "idle"}
    BY <1>4, Zenon DEF onError, linkedLabels
  <2>3. onError(pc[p]) \notin busyLabels
    BY <2>2 DEF busyLabels, inTransaction, copiedLabels
  <2> QED
    BY <1>1, <2>1, <2>3, ExportQuiet, Zenon
<1> QED
  BY <1>2, <1>3, <1>4, Zenon

\* What could not be removed is kept.
LEMMA ExportKept ==
  ASSUME LockInv, ExportInv, NEW p \in Procs, RemovalFails(p)
  PROVE  ExportInv'
<1>1. PICK label \in {"unstage", "unlock"} : pc' = [pc EXCEPT ![p] = label]
  BY Zenon DEF RemovalFails, Go
<1>2. UNCHANGED <<tx, db, dir, synced, exported, crashes>>
  BY DEF RemovalFails
<1>3. pc'[p] = label /\ \A q \in Procs \ {p} : pc'[q] = pc[q]
  BY <1>1 DEF LockInv, LockTypes
<1>4. ASSUME NEW q \in Procs
      PROVE  /\ exportOK(pc'[q], tx'[q], db, dir.dest, synced.dest, exported)
             /\ pc'[q] \in {"syncRemoval", "report"} => q \notin dir.stages
  <2>1. CASE q = p
    <3>1. pc'[q] \notin busyLabels /\ pc'[q] \notin {"syncRemoval", "report"}
      BY <1>3, <2>1 DEF busyLabels, inTransaction, copiedLabels
    <3> QED
      BY <3>1, QuietLabel, Zenon
  <2>2. CASE q # p
    BY <1>2, <1>3, <2>2, Zenon DEF ExportInv
  <2> QED
    BY <2>1, <2>2, Zenon
<1>5. CASE pc[p] = "discard" /\ pc' = [pc EXCEPT ![p] = "unstage"]
           /\ kept' = [kept EXCEPT !.dest = dir.dest]
  <2>1. kept'.dest = dir.dest /\ kept'.stages = kept.stages /\ Directory(kept')
    BY <1>5, Zenon DEF ExportInv, Directory
  <2>2. pc'[p] = "unstage" /\ "unstage" \in stagedLabels
    BY <1>5, Zenon DEF LockInv, LockTypes, stagedLabels
  <2>3. CleanUp => CleanUp'
    BY <1>2, <1>3, <2>1, <2>2, Zenon DEF CleanUp, ExportInv, Directory
  <2> QED
    BY <1>2, <1>4, <2>1, <2>3, Zenon DEF ExportInv
<1>6. CASE pc[p] = "unstage" /\ kept' = [kept EXCEPT !.stages = dir.stages]
  <2>1. kept'.dest = kept.dest /\ kept'.stages = dir.stages /\ Directory(kept')
    BY <1>6, Zenon DEF ExportInv, Directory
  <2>2. pc[p] \notin linkedLabels \cup {"discard"}
    BY <1>6, Zenon DEF linkedLabels
  <2>3. CleanUp => CleanUp'
    BY <1>2, <1>3, <2>1, <2>2, Zenon DEF CleanUp
  <2> QED
    BY <1>2, <1>4, <2>1, <2>3, Zenon DEF ExportInv
<1> QED
  BY <1>5, <1>6, Zenon DEF RemovalFails, Go

\* A crash leaves the files and the directory to those that are not gone.
LEMMA ExportCrash ==
  ASSUME LockInv, ExportInv, NEW p \in Procs, Crash(p)
  PROVE  ExportInv'
<1>1. /\ UNCHANGED <<db, dir, synced, exported>> /\ crashes' = crashes + 1
      /\ pc' = [q \in Procs |-> IF q \in {p} THEN "idle" ELSE pc[q]]
      /\ tx' = [q \in Procs |-> IF q \in {p} THEN NoFile ELSE tx[q]]
      /\ Directory(kept')
  BY Zenon DEF Crash, Reclaim, EmptyDirectory, Directory
<1>2. crashes' \in Nat /\ crashes' # 0
  <2>1. crashes \in Nat
    BY Zenon DEF ExportInv
  <2> QED
    BY <1>1, <2>1
<1>3. ASSUME NEW q \in Procs
      PROVE  /\ exportOK(pc'[q], tx'[q], db, dir.dest, synced.dest, exported)
             /\ pc'[q] \in {"syncRemoval", "report"} => q \notin dir.stages
  <2>1. CASE q = p
    <3>1. pc'[q] = "idle" /\ "idle" \notin busyLabels
      BY <1>1, <2>1 DEF busyLabels, inTransaction, copiedLabels
    <3> QED
      BY <3>1, QuietLabel, Zenon
  <2>2. CASE q # p
    BY <1>1, <2>2, Zenon DEF ExportInv
  <2> QED
    BY <2>1, <2>2, Zenon
<1> QED
  BY <1>1, <1>2, <1>3, Zenon DEF ExportInv

\* After a power loss the directory is what was synced or what was not yet.
LEMMA ExportPowerLoss ==
  ASSUME LockInv, ExportInv, PowerLoss
  PROVE  ExportInv'
<1>1. /\ UNCHANGED <<db, exported>> /\ crashes' = crashes + 1
      /\ pc' = [q \in Procs |-> IF q \in Procs THEN "idle" ELSE pc[q]]
      /\ Directory(kept')
  BY Zenon DEF PowerLoss, Reclaim, EmptyDirectory, Directory
<1>2. PICK dest \in {dir.dest, synced.dest}, stages \in SUBSET (dir.stages \cup synced.stages) :
        dir' = [dest |-> dest, stages |-> stages] /\ synced' = dir'
  BY Zenon DEF PowerLoss
<1>3. /\ dir'.dest = dest /\ synced'.dest = dest /\ Directory(dir') /\ Directory(synced')
  <2>1. Directory(dir) /\ Directory(synced)
    BY Zenon DEF ExportInv
  <2> QED
    BY <1>2, <2>1 DEF Directory
<1>4. crashes' \in Nat /\ crashes' # 0
  <2>1. crashes \in Nat
    BY ZenonT(40) DEF ExportInv
  <2> QED
    BY <1>1, <2>1
<1>5. ASSUME NEW q \in Procs
      PROVE  /\ exportOK(pc'[q], tx'[q], db', dir'.dest, synced'.dest, exported')
             /\ pc'[q] \notin {"syncRemoval", "report"}
  <2>1. pc'[q] = "idle" /\ "idle" \notin busyLabels
    BY <1>1, Zenon DEF busyLabels, inTransaction, copiedLabels
  <2> QED
    BY <2>1, QuietLabel
<1>6. /\ destinationOK(dir'.dest, db') /\ destinationOK(synced'.dest, db')
      /\ exported' # NoImage => dir'.dest = exported' /\ synced'.dest = exported'
  BY <1>1, <1>2, <1>3, Zenon DEF ExportInv
<1> QED
  BY <1>1, <1>3, <1>4, <1>5, <1>6, Zenon DEF ExportInv

\* The operator removes stages nobody works in.
LEMMA ExportCleaned ==
  ASSUME LockInv, ExportInv, OperatorCleans
  PROVE  ExportInv'
<1>1. /\ UNCHANGED <<pc, tx, db, synced, exported, crashes>> /\ dir' = [dir EXCEPT !.stages = {}]
      /\ kept' = [kept EXCEPT !.stages = {}]
  BY DEF OperatorCleans
<1>2. /\ dir'.dest = dir.dest /\ dir'.stages = {} /\ Directory(dir')
      /\ kept'.dest = kept.dest /\ Directory(kept')
  BY <1>1 DEF ExportInv, Directory
<1>3. CleanUp => CleanUp'
  BY <1>1, <1>2, ZenonT(40) DEF CleanUp
<1> QED
  BY <1>1, <1>2, <1>3 DEF ExportInv

\* Every step keeps the destination whole and the exports honest.
LEMMA ExportStep == LockInv /\ MigrationInv /\ ExportInv /\ [Next]_vars => ExportInv'
<1> SUFFICES ASSUME LockInv, MigrationInv, ExportInv, [Next]_vars PROVE ExportInv'
  BY Zenon
<1>1. ASSUME NEW p \in Procs,
             \/ Start(p) \/ Lock(p) \/ LockTimeout(p) \/ Unlock(p) \/ PlanMigrations(p)
             \/ openExistingDatabase(p) \/ newStoreFromDatabase(p) \/ CloseStore(p)
             \/ FinishByStore(p) \/ AwaitView(p)
      PROVE  ExportInv'
  BY <1>1, ExportElsewhere, Zenon
<1>2. ASSUME NEW p \in Procs, validateSchemaUnderSharedLock(p) \/ fullIntegrityCheck(p)
      PROVE  ExportInv'
  BY <1>2, ExportValidate, ExportChecked, Zenon
<1>3. ASSUME NEW p \in Procs, Migrate(p) \/ pruneEvents(p) PROVE ExportInv'
  BY <1>3, ExportMigrates, ExportFileChanged, Zenon DEF Migrate
<1>4. ASSUME NEW p \in Procs, Export(p) \/ Fault(p) \/ RemovalFails(p) \/ Crash(p) \/ Commit(p)
      PROVE  ExportInv'
  BY <1>4, ExportExports, ExportFault, ExportKept, ExportCrash, ExportCommit, Zenon
<1>5. ASSUME NEW p \in Procs, OpenSnapshot(p) \/ CloseSnapshot(p) PROVE ExportInv'
  BY <1>5, ExportStutter, ZenonT(40) DEF OpenSnapshot, CloseSnapshot, backup
<1>6. ASSUME NEW p \in Procs, NEW q \in Queries, AdmitQuery(p, q) \/ QueryStep(p, q)
      PROVE  ExportInv'
  BY <1>6, ExportStutter DEF AdmitQuery, QueryStep, ReadQuery, ReleaseQuery, FinishByQuery, backup
<1>7. CASE PowerLoss \/ OperatorCleans
  BY <1>7, ExportPowerLoss, ExportCleaned, Zenon
<1>8. CASE UNCHANGED vars
  BY <1>8, ExportStutter DEF vars, backup
<1> QED
  BY <1>1, <1>2, <1>3, <1>4, <1>5, <1>6, <1>7, <1>8 DEF Next, Step

\* A backup is whole at every moment, wherever the export, the process or the machine
\* stops: what ExportAuditBackup names is on disk and is the file it was made from, a
\* success that was reported stays, and without a crash a failed export leaves a name or a
\* stage behind only when its own attempt to remove it failed.
THEOREM BackupsAreWhole == Spec => []ExportsAreWhole
<1>1. LockInv /\ ExportInv => ExportsAreWhole
  <2> SUFFICES ASSUME LockInv, ExportInv PROVE ExportsAreWhole
    OBVIOUS
  <2>1. \A image \in {dir.dest, synced.dest} \ {NoImage} :
          image.synced /\ image.key = db.key /\ image.ledger = db.ledger
    BY ZenonT(40) DEF ExportInv, destinationOK, wholeImage
  <2>2. ASSUME NEW p \in Procs, pc[p] \in copiedLabels PROVE tx[p].version = db.version
    <3>1. tx[p] = [ledger |-> db.ledger, key |-> db.key, version |-> db.version,
                   synced |-> tx[p].synced]
      BY <2>2, Zenon DEF ExportInv, exportOK
    <3> QED
      BY <3>1
  <2>3. ASSUME crashes = 0, \A p \in Procs : ~ exporting(p)
        PROVE  dir.stages \subseteq kept.stages /\ dir.dest \in {exported, kept.dest}
    <3>1. \A p \in Procs : pc[p] \notin stagedLabels /\ pc[p] \notin linkedLabels \cup {"discard"}
      BY <2>3, Zenon DEF exporting, stagedLabels, copiedLabels, linkedLabels
    <3> QED
      BY <2>3, <3>1, Zenon DEF ExportInv, CleanUp, Directory
  <2> QED
    BY <2>1, <2>2, <2>3, Zenon DEF ExportsAreWhole, ExportInv, copiedLabels
<1>2. Init => LockInv /\ MigrationInv /\ ExportInv
  BY LockInit, MigrationInit, ExportInit, Zenon
<1>3. LockInv /\ MigrationInv /\ ExportInv /\ [Next]_vars => (LockInv /\ MigrationInv /\ ExportInv)'
  BY LockStep, MigrationStep, ExportStep, Zenon
<1> QED
  BY <1>1, <1>2, <1>3, PTL DEF Spec

-----------------------------------------------------------------------------
(* Reads and exclusive commands.                                             *)

INSTANCE FiniteSetTheorems

\* The reads of a snapshot are counted.
LEMMA QueriesCounted == Counts(Queries)
<1>1. ASSUME NEW S \in SUBSET Queries
      PROVE  /\ Cardinality(S) \in Nat /\ (Cardinality(S) = 0 => S = {})
             /\ \A x \in S : Cardinality(S \ {x}) = Cardinality(S) - 1
             /\ \A x \in Queries \ S : Cardinality(S \cup {x}) = Cardinality(S) + 1
  <2>1. IsFiniteSet(S)
    BY FileAssumption, FS_Subset, Zenon
  <2>2. Cardinality(S) \in Nat /\ (Cardinality(S) = 0 => S = {})
    BY <2>1, FS_CardinalityType, FS_EmptySet, Zenon
  <2>3. \A x \in S : Cardinality(S \ {x}) = Cardinality(S) - 1
    BY <2>1, FS_RemoveElement, Zenon
  <2>4. \A x \in Queries \ S : Cardinality(S \cup {x}) = Cardinality(S) + 1
    BY <2>1, FS_AddElement, Zenon
  <2> QED
    BY <2>2, <2>3, <2>4, Zenon
<1>2. Cardinality({}) = 0 /\ \A x : Cardinality({x}) = 1
  BY FS_EmptySet, FS_Singleton
<1> QED
  BY <1>1, <1>2, Zenon DEF Counts

\* With any number of processes, readers, crashes and faults: an exclusive command has
\* the file to itself, and a read of a snapshot runs on an attached connection of a store
\* that has its pools open and its shared lock held, however Close of the snapshot, Close
\* of the store and the reads interleave.
THEOREM MaintenanceAlone == Spec => []MaintenanceIsAlone
<1>1. Init => LockInv /\ SnapshotInv
  BY LockInit, SnapshotInit, QueriesCounted, Zenon
<1>2. LockInv /\ SnapshotInv /\ [Next]_vars => LockInv' /\ SnapshotInv'
  BY LockStep, SnapshotStep, QueriesCounted, Zenon
<1>3. LockInv /\ SnapshotInv => MaintenanceIsAlone
  <2> SUFFICES ASSUME LockInv, SnapshotInv PROVE MaintenanceIsAlone
    OBVIOUS
  <2>1. \A p \in exclusive : pools \subseteq {p}
    BY Zenon DEF LockInv
  <2>2. ASSUME NEW p \in Procs, reading(p)
        PROVE  view[p].pinned /\ ~ view[p].done /\ (op[p] = "open" => p \in pools \cap shared)
    <3>1. PICK q \in Queries : query[p][q] = "reading"
      BY <2>2, Zenon DEF reading
    <3>2. q \in admitted(query[p]) /\ query[p] \in [Queries -> QueryStates] /\ "idle" \in QueryStates
      BY <3>1 DEF admitted, SnapshotInv, QueryStates
    <3>3. Cardinality(admitted(query[p])) > 0
      BY <3>2, AdmittedCounted, QueriesCounted, ZenonT(40)
    <3>4. view[p].pinned /\ ~ view[p].done /\ pc[p] \in servingLabels
      BY <3>3 DEF SnapshotInv, coherent, NoView
    <3>5. op[p] = "open" => p \in pools /\ p \in shared
      BY <3>4, Zenon DEF LockInv, holding, usesShared, servingLabels
    <3> QED
      BY <3>4, <3>5, Zenon
  <2> QED
    BY <2>1, <2>2, Zenon DEF MaintenanceIsAlone
<1> QED
  BY <1>1, <1>2, <1>3, PTL DEF Spec

=============================================================================
