# Formal model of the policy engine

TLA+ modules, TLC configurations and TLAPS proofs for the local policy runtime
in `src/`. Everything below is about the code; `PROJECT.json` holds the same
information in machine-readable form (which definition models which lines,
which mutation each property detects, which hazard of the code it is about).

## 1. The system and what is worth verifying

| Part | Code | State it owns | Operations that change it |
| --- | --- | --- | --- |
| In-memory store | `store/memory` | revisions, slots with history, data versions in persistent trees, idempotency records, events, reservations, generation waits, effective clock | PutRevision, Activate, WriteData, OpenSnapshot (waits), ListEvents (prunes), snapshot reads and Close |
| Store ports | `store` | none: contracts and value types | - |
| SQLite store | `store/sqlite/{store,writer,readers,snapshot,codec,...}.go` | the same durable state in tables, a FIFO of write requests, one writer connection, reader permits, open snapshots, generation waits | the same, plus Open and Close |
| SQLite files | `store/sqlite/{database,locking_unix,migrations,backup,prune_offline,integrity,schema}.go` | database file, lock file, migration ledger, backup directory | open and close, migrate, plan, validate, check, export, offline prune |
| Caches | `internal/cache` | compiled revisions with loads in flight | GetOrLoad (the pointer cache is never filled, section 7) |
| Application services | `internal/app` | none across calls; one pinned snapshot per evaluation | Check, BatchCheck, Explain, Activate, WriteData, Publish, reads |
| Extension calls | `invocation.go`, `caller.go` | slots of calls in flight | invokeExtension |
| Evaluator adapter | `internal/evaluator` | none; feeds a snapshot to the external DSL evaluator | - |
| Embedded engine | `embedded` | the composition | New, Status |
| Domain values | module root, `internal/domain` | none: validation, canonical order, budgets | - |
| Maintenance command, driver fork, conformance kits | `cmd`, `internal/sqlitenofollow`, `conformance`, `store/conformance` | - | not modelled (section 7) |

The behaviours that are hard to test here are the windows in which a lock is
not held: the in-memory store reads an injected clock *between* validating a
mutation and committing it; the SQLite store hands mutations to a writer
goroutine and may stop waiting for it; snapshot openers sleep on a channel that
another goroutine must close; a snapshot is read while its user and the store
close it; an extension answers after its caller has left; a load is shared by
callers who leave it. Around those windows contexts are cancelled, clocks
step back, processes crash, retention deletes what a cursor points at, and
counters and budgets reach their limits. The other half of the code is sequential
and wide: constructors that must make equal requests equal, trees and rows that
must give equal answers, and a decision path with many early returns.

Correctness, in one paragraph: each accepted mutation takes effect exactly once
and atomically with exactly one state event; generations and event sequences are
consecutive; replays return the original generation; nothing a caller was told is
committed is lost; a reader that fell behind is told so; a decision is about one
pinned state and is backed by evidence that was asked for and verified; both
stores answer alike; maintenance is alone with its file, and what it leaves is
whole; no reservation, permit, slot, lock or waiter is left behind.

## 2. Modules

| Module | Models |
| --- | --- |
| `StoreTypes` | request, activation and event shapes; expectation match, history trimming, event pruning, fingerprints, prefix conflicts |
| `LocalStore` | what the ports in `store/` promise of one namespace: every mutation is one step with its event |
| `MemoryStore` | `store/memory`: the three critical sections of a mutation, waiting for reservations, generation waits, ListEvents with pruning, history pages and point reads |
| `SqliteTables` | the tables of `store/sqlite` and the transactions as functions of them |
| `SqliteStore` | `store/sqlite`: writer goroutine, transactions, reservations, reads, snapshots, generation waits, Close, restart |
| `SqliteOffline` | `integrity.go`, `prune_offline.go` and the rows of `backup.go`, on the tables `SqliteStore` leaves |
| `MemoryStoreRefinement`, `SqliteStoreRefinement` | the stores implement `LocalStore` |
| `Snapshot` | the life of one open data snapshot in either store |
| `SqliteFile` | processes that share a database file: lock, migrations, maintenance, export, stores with a snapshot, crashes and power losses |
| `RevisionCache` | `internal/cache/revisions.go` |
| `Engine` | calls of `internal/app` over the revision cache, extension slots and an abstract store |
| `Texts`, `Costs` | `validation.go`, `limits.go`, `cost.go`: identifiers, budgets, charges |
| `Facts` | `data.go`: tuples, attributes, contextual data, data writes in canonical form |
| `Grants` | `caller.go`: callers, capabilities, grants, authorization |
| `Pages` | `policy.go`, `events.go`: revisions, activations, events, pages, status |
| `Indexes` | `store/memory/indexed.go`: balanced trees, attribute trie, snapshot queries of both stores |
| `Reader` | `internal/domain`, `store/data.go`, `internal/evaluator`: the schema, and the facts the evaluator gets |
| `Decisions`, `Sessions` | `authorization.go`, `evidence.go`, `extensions.go`, `internal/app/{check,batch,explain}.go` on values |
| `RowCodec`, `Cursors` | `store/sqlite/codec.go`, the rows, the cursors of both stores |
| `Values` | a client that builds values, writes them to both stores, lists, checks and reads rows back |
| `MC*` | instances for TLC, one workload per question |
| `Counting` | what the proofs use of counting |
| `*_proofs` | theorems (section 6) |

### `MemoryStore`

`Store.mu` is the atomicity boundary: everything between a `Lock` and its
`Unlock` is one action, everything else is a separate step of the goroutine.

* `Reserve` is the first critical section of PutRevision, Activate and
  WriteData. `publishVerdict`, `activateVerdict` and `writeVerdict` list the
  checks in the code's order; `candidateOf` is what the goroutine carries over
  the unlock in local variables.
* `FailEvent`, `ReadClock`, `ClockFails`, `Abandon` are the steps between the
  sections. The event-failure flag is read under the first lock and consumed
  under another one, as in the code. `ReadClock` returns *any* time.
* `Commit` and `Refuse` are the second critical section with its revalidation.
* `Release` is the deferred third one: it deletes the reservation if it is still
  the caller's and closes its done channel (`woken`).
* `OpenSnapshot`, `Unpark`, `Unregister` are the wait loop of OpenSnapshot.
  `waitOn[p]` is the state of the wait object the opener holds: `live` while the
  store still has it, `closed` once notified, `orphan` if the store dropped it
  without closing it (which `NoLostWakeup` shows never happens).
* `ListEvents`, `Read` are the reads; `cursorIssued` stands for the
  authentication of cursors, which `Cursors` models.
* `Cancel` makes a context done at any time. A context check outside the lock
  followed by the next critical section is modelled as one step: a cancellation
  in between is indistinguishable from one right after it.

Abstractions: one namespace (others only move the shared effective clock,
`ElsewhereCommit`); tuples and attribute values are not told apart because they
never make a write fail; a data version is the set of occupied attribute paths
(`Indexes` has the trees); revision identifiers are content addresses, so an
existing identifier with another artifact (INTEGRITY_ERROR) does not occur; the
error categories CANCELED and DEADLINE_EXCEEDED are one.

### `SqliteStore` and `SqliteOffline`

`tables` is the committed content of the database file; everything else is lost
in a `Restart`, which may happen at any point. In `SqliteTables` the operators `PutRevision`,
`Activate`, `WriteData` and `pruneEventsForRead` are the closures the code hands
to `database.write`: they take the tables and give an outcome with the tables to
commit, in the order of the code's checks.

* `Submit` and `AwaitOutcome` are the two selects of `database.write`. A caller
  may leave the second one because its context is done or the store closes,
  while its request stays queued or running.
* `Take` and `executeWrite` are the writer goroutine. BEGIN to COMMIT is one
  step, placed at the end of COMMIT: no other writer can be in between, and a
  context that ends during COMMIT may or may not undo it. `CommitReportsError`
  includes the driver's habit of reporting the context's error for a statement
  that was carried out (`internal/sqlitenofollow/stmt.go:109`). After an
  unconfirmed COMMIT or ROLLBACK the connection is discarded (`lane = "lost"`)
  and `awaitWriterConnection` opens another.
* `notifyGenerationWaiters` is a step of the *caller*, after `write` returned.
* `acquireReader`, `ReadHead`, `ReadRows` are `Store.read`: a permit, then one or two
  statements that each see the tables of their own moment. `ReadAfterClose` is a read
  that outlives the pools. A cursor of an event carries the watermark of its time
  (`boundary`). It is refused when its position is behind the watermark, or when the
  watermark it carries is ahead, as after an older backup was restored.
* `beginSnapshotOpen` to `registerSnapshot` are OpenSnapshot: pin, compare,
  register a waiter, pin again, park. An opener that waits for a permit leaves only
  with one, on cancellation or when the store closes (`leavePin`). `readers` are the permits, `views` the
  snapshots the store owns; a view is a held permit with a generation here, its
  reads and its close are in `Snapshot` and `SqliteFile`.
* `BeginClose`, `DrainView`, `closeDatabase`, `closeResources` are Store.Close.
* `Fault` collects the statements that fail for no reason of this model (`ReadFails`,
  `pinFails`, `closePinnedFails`); they may happen and nothing relies on them.
* `committed` and `owed` are history variables: whose transaction changed the
  tables, and whether a write committed since waiters were last notified.

A call slot is used again only when the writer is through with its request; a
retry by another slot gives the same behaviours.

`SqliteOffline` adds what happens between two lives of the store:
`PruneExpiredEvents` and `RestoreBackup` on the tables, with one operator per
table check of `integrity.go`.

### `Snapshot` and `SqliteFile`

`Snapshot` is the record the lifecycle mutex of a snapshot guards: closing, the
count of admitted reads, whether the connection (or the data version) is still
attached, whether `closeDone` is closed. `admit`, `startClose`, `leave` and
`finishClose` are the critical sections of `snapshot.go`; a memory view finishes
its close inside the mutex, a SQLite view after it.

`SqliteFile` runs whole commands as processes. A process is at a label; a step is
one system call or transaction. `Lock` is `flock`, `Unlock` the deferred
`lock.Close`. `createFile` to `commitMigration` are ApplyMigrations,
`makeStage` to `removeStage` are ExportAuditBackup with the undo path
(`discardLink`), `openExistingDatabase` to `AwaitView` are the life of a store
with one snapshot, its readers (`query`) and a user who closes it (`closer`)
while the store does. `Fault` takes any step's error return to the deferred calls
that are pending, and `RemovalFails` is an export that cannot remove its own name or
stage again: it returns the error and leaves them (`kept`), and the next export is
refused until the operator has cleaned up. `Crash` and `PowerLoss` give back what the operating system
owns; after a power loss a directory entry that was not synced may or may not be
there. Rows are a version number.

### `RevisionCache` and `Engine`

`RevisionCache` has the critical sections of `internal/cache/revisions.go` as
operators: admission with eviction in order of recency and by bytes, the shared call
object with its waiters and its abandonment. `Engine` interleaves goroutines that call
them. A goroutine is at a point named after what it does next: an extension port,
`resolve`, `load`, `loading`, `head`, `open`, `evaluate`, `close`, `mutate`. `invokeExtension`, `ExtensionReturns`,
`LeaveExtension`, `ExtensionAnswered` and `DesertedReturns` are `invocation.go`:
the slot belongs to the extension's goroutine, which may outlive its caller. The
sessions follow `openEvaluationSession`: resolve, load, read the head, open
exactly that snapshot, verify delegation, evaluate item after item, close. The
store is the abstract one: slot histories and a data generation. What the
evaluator answers is a choice; what it is given is pinned.

### The value modules

A text is an integer: its absolute value is its length in bytes and its place in
the byte order, a negative one holds a character that is never allowed. Budgets
add in an `int` that wraps at `MaxInt`, as the code's additions would without
their guards; `NotDSLIdentifiers` are the texts that are identifiers and yet no
names of a policy. A time counts nanoseconds from the zero time, and the epoch is
`UnixEpoch` seconds later, so that times before it are written as negative seconds;
costs are the list of charges the code makes, in its order.
Constructors are operators that give an error category or a canonical value.

* `Indexes` has the trees as recursive operators (insertion, rotation, deletion,
  pruning of empty trie nodes) and the queries of both stores; the SQLite rows are
  sequences in key order.
* `Reader` merges contextual facts with those of a snapshot within the work limit.
  The DSL evaluator is an external module; `dslResult` reads the facts through the
  reader as the adapter lets it, and decides from them.
* `Sessions` is the path of a call from its authorization to its response, with
  the answers of authorizer, delegation and approval verifiers as inputs.
* `RowCodec` writes the bytes of rows and cursors in a small base and reads them
  back; SHA-256 and HMAC are injective.
* `Values` is the client: it builds any value, writes to both stores, publishes
  between the pages of a listing, checks, and reads rows that are intact, damaged
  or in the wrong column. Calls do not overlap here; the concurrent modules are
  about that.

## 3. Runs

| Run | Question | Result |
| --- | --- | --- |
| `memory_data` | do concurrent publishes, writes, replays and openers keep reservations, candidates, generations, waits and records consistent? | 6 invariants hold |
| `memory_stream` | do the three commit domains, up to the counter limit, under a clock that steps back and retention by age and count, keep one exact stream, history and pages, and is the three-lock protocol an atomic store? | 4 invariants and the refinement hold |
| `memory_waits` | is everyone who waits released? | 2 liveness properties hold |
| `sqlite_data` | do acknowledged writes survive races, replays, cancellations, lost connections and crashes, and is an abandoned call a whole mutation or none? | 1 invariant and the refinement hold |
| `sqlite_tables` | are the committed tables an atomic store, and does every file the store leaves pass the integrity check, the offline prune and a backup? | 4 invariants and the refinement hold |
| `sqlite_lifetime` | who holds requests, snapshots and wake-ups while the store closes? | 3 invariants hold |
| `sqlite_waits` | who holds the permits, are writes answered, do publishers get their turn and does Close finish? | 1 invariant and 3 liveness properties hold |
| `sqlite_file` | is maintenance alone, are migrations atomic, are exports whole and do failed ones leave only what they failed to remove, and do closes and timed commands return, whatever fails, crashes or loses power? | 3 invariants and 1 liveness property hold |
| `engine` | are slots, snapshots and loads held exactly, decisions pinned, and do cancelled calls return? | 3 invariants and 1 liveness property hold |
| `values` | do both stores index alike, listings miss nothing, equal requests get equal forms, decisions need their evidence, and rows read back only as written? | 5 invariants hold |
| `sqlite_wakeup` | can a generation wake-up be lost? | violated: see below |
| `sqlite_read_close` | do reads only ever return errors? | violated: see below |

Finding `sqlite_wakeup`: a caller that gives up while its write is in COMMIT
never notifies, so an opener waiting for that generation sleeps until the next
write, its own deadline or shutdown; a comment in `snapshot.go` says no wake-up
can be lost. What does hold is `SleepersAreOwedAWakeup`: registering before the
second look leaves no other way to sleep past a generation. The same early return
means that a mutation answered CANCELED may still be committed; retries of a write
are safe because of its idempotency key (`AcknowledgedIsDurable`, and the
refinement in `sqlite_data`, where such a call commits all of its mutation or nothing).

Finding `sqlite_read_close`: a read admitted before Close may run its first
statement after `closeResources` set the pool to nil, which panics instead of
returning an engine error (`store/store.go` line 4).

Two more places where the code does less than `SPEC.md` says show in the models
without a run of their own. The in-memory `WriteData` looks for a competing
reservation before it looks for the idempotency record (`writeVerdict`), so the
retry of a committed write is answered CONFLICT while another write is under way;
line 201 promises the original response. The SQLite ListEvents checks its cursor
and reads its rows in two statements (`ReadHead`, `ReadRows`), so a mutation in
between can prune what follows the cursor without CURSOR_EXPIRED (line 435).
`PagesConsecutive` states what remains true: a page that does not start right behind
its cursor lacks only rows that were there when the cursor was checked.

## 4. Bounds

Two goroutines suffice for the stream, refinement and liveness questions: each
interaction is between one goroutine inside its window and one other.
`memory_data` has three, so that a waiter, its owner and an unrelated opener can
meet. `MaxUint64`, the largest counter value, is 2 to 5; the stream runs reach it,
so the exhaustion branches fire. `HistoryRetention` 1 or 2 and
`EventRetentionLimit` 2 make trimming happen after the second or third mutation;
`EventRetention` 1 to 3 with times 1 to 4 makes events expire by age and lets the
clock step back. In `sqlite_tables` the times are 1, 3 and 4 and the retention 3, so
that events of different ages are in the stream together: a prune by age drops one
and keeps the other, and so does an export with its shorter retention (1). Request sets name exactly the calls a question needs, among them
a key reused with another digest, a write that conflicts on a path, and
expectations for every step of an activation chain; the chain stays on one
revision, so that only the generation tells its heads apart.

For SQLite, two calls are enough for a caller and whoever commits behind its back;
`sqlite_lifetime` has three, for two openers and a writer, over a single reader
permit. `QueueCapacity` is the code's 2 in `sqlite_data`, and 1 elsewhere, so that the
few callers also meet a full queue. Two constraints keep runs within reach:
`OneCancellation` (one cancelled call at a time) in `sqlite_lifetime`, and `Calm` in
`sqlite_tables`: no call is cancelled, the store is closed between calls, and once the
clock has moved a call overlaps only with a listing between its two statements. What
that run leaves out of the refinement, calls that are abandoned at any point and a
store that closes under them, is in `sqlite_data`, which has no constraint and fewer
kinds of request. `sqlite_waits` has plain reads beside the openers, so that both
compete for the one permit. The point reads of the in-memory
store are among the requests of `memory_waits` only: they change nothing but their
own result. Goroutines are interchangeable,
so the store runs without liveness use symmetry.

`engine`: two goroutines, one slot, two
revisions that do not fit into the revision cache together, one slot per extension
port, two slot generations, one data generation, and one departure at a time
(`MaxLeaving` counts ended contexts and deserted extensions together). That is
enough for a deserted extension to hold the only slot, and a load to be abandoned and
started again.

`sqlite_file`: two processes, two readers of the snapshot, two keys, one embedded
migration (there is one), one change of the rows, two crashes, so that a crash of
the recovery is included. Each workload pits the commands that share state against
each other.

`values`: limits small enough that every budget, item count and length limit is
met by some constructor input; `MaxInt` 32767, so that sums of two lengths wrap;
bytes below 16 and a 64-bit time that ends at 60, so that times outside the range
of nanoseconds exist, and an epoch one second after the zero time, so that times
before, at and after it do. Lists have up to three elements, the trees up to six tuples
and six attributes, which takes every rotation and every trie pruning.

## 5. Fairness

`FairSpec` assumes weak fairness of each goroutine's own steps once its call is
under way: the Go scheduler runs a runnable goroutine, a mutex is handed over,
and `Clock.Now` returns "in bounded time" (`store/memory/store.go:24-27`).
Nothing is assumed of callers: no call need ever be made or cancelled.

`SqliteStore!FairSpec` assumes the same of callers under way, of the writer
goroutine and of Store.Close once it was called. An opener waiting for a permit gets
one if permits keep coming free: strong fairness of `openPinnedSnapshot`, since Go
serves the senders of a channel, here `readerAdmission`, in the order they came. The
faults are outside: nothing is shown by a statement that had to fail. Fairness of the writer includes
that a lost connection can be opened again: `awaitWriterConnection` retries for
ever, so a file that stays unreadable blocks writers until Close or their
contexts. No fairness is assumed of whoever holds a snapshot, of cancellation or
of restarts, so Close is shown to finish without the holders' help.

`Engine!Spec` assumes weak fairness of a goroutine's own steps (`Step`). Extensions,
loads and the store's waits may hang for ever; `CancelledCallsReturn` needs none of
them.

`SqliteFile!Spec` assumes weak fairness of a process's steps, of a close of the
snapshot that has begun, and of the queries of a snapshot: a SQLite query ends.
The lock is polled with LOCK_NB, so a process may poll in vain for ever; the
liveness property is about the commands with a deadline and about closing stores.


## 6. Proofs

TLC checks instances; the theorems below hold for every value of the constants.

| Module | Theorem | States |
| --- | --- | --- |
| `MemoryContract_proofs` | `TypeCorrect` | `TypeOK`: every variable keeps its type, no counter passes its width |
| | `ReservationsAreExact` | `ReservationsExact` |
| | `ValidationSurvives` | `ValidatedStaysValid` |
| | `GenerationsRecorded` | `GenerationsRecordedOnce` |
| | `AttributesPrefixFree` | `ContentsPrefixFree` |
| | `WakeupsKept` | `NoLostWakeup` |
| | `AcknowledgedStays` | `AcknowledgedWritesRecorded` |
| | `StreamIsContiguous` | `StreamContiguous` |
| | `HistoriesAreSuffixes` | `HistoryIsSuffix` |
| | `PagesAreGapless` | `PagesHaveNoGap` |
| | `StoreImplementsContract` | `ImplementsLocalStore`: the in-memory store implements `LocalStore` |
| `SqliteFile_proofs` | `LocksHeldExactly` | a process holds the file lock exactly between its grant and its unlock |
| | `MigrationsAreAtomic` | `MigrationIsAtomic` |
| | `MaintenanceAlone` | `MaintenanceIsAlone` |
| | `BackupsAreWhole` | `ExportsAreWhole` |
| `Engine_proofs` | `SessionsPinned` | `SessionsArePinned` |
| | `ResourcesExact` | `ResourcesHeldExactly` |

Assumptions. `StoreTypes` and `MemoryStore` assume what the types of the code
give (times are positive, limits are at least one, requests passed their
constructors, `Nil` is none of the values it is absent from). `FileAssumption`
and `EngineAssumption` say that processes, queries and goroutines are finitely
many where they are counted, that limits are positive, that there is a revision
to point to, and that the sentinels are not values. TLC evaluates all of them.

`MemoryStore_proofs` has the lemmas about types, reservations, waits and
acknowledgements, `MemoryContract_proofs` those about the stream, the pages and the
contract, and the theorems. Lemmas take what they need of counting as a hypothesis
(module `Counting`); it is proved from the library's theorems
on finite sets beside the theorems, which have no hypothesis left. The split keeps the
provers' contexts small.

Arguments, by the invariant each needs:

* `TypeOK` of `MemoryStore` is inductive by itself; the clock a goroutine has read
  is part of it.
* `ReservationInv`: types, exact reservations, and `ReservedStateFixed`: whoever
  holds a reservation finds the state its candidate was computed from unchanged,
  because the only actions that change it need the same reservation. `ReservationsAreExact`,
  `ValidationSurvives`, `GenerationsRecorded` and `AttributesPrefixFree` follow.
* Parked openers: `WaitInv` counts who is on the shared wait, says that the wait is
  not forgotten while somebody is on it, and that whoever is parked on an open wait
  asks for a generation that is not there. It is inductive because a commit closes
  the wait in the critical section that raises the generation.
* `AckInv`: an acknowledgement was given for a record, and records stay. It rests
  on `ReservationInv`: the record a write finds or makes is fixed while it holds its
  key.
* The stream needs a lemma about `pruneCut` (what is cut is a prefix, and the
  watermark is the last sequence of it) and the fact that the clamped clock never
  steps back, so that the times in the stream are sorted. `HistoryInv` is the same
  for the activations of a slot. A page is then a piece of a sequence of consecutive
  numbers, and a cursor below the watermark is refused first.
* The refinement of `LocalStore` by `MemoryStore` maps the third critical section
  of a mutation, the one that commits, to one step of the contract, a read that drops
  events to `Expire`, and everything else to a stutter. The guards of the contract at commit are
  `ValidatedStaysValid`.
* `LockInv`: a label belongs to the command under way, the lock is held exactly
  between grant and unlock, an exclusive holder is alone, and open connections
  imply a held lock. `MigrationInv` adds that the file is consistent, that an open
  migration transaction is consistent again when its row is recorded, and that a
  serving store has the key of the file. `SnapshotInv` adds `coherent`: the count of
  active reads is the number of admitted ones, the connection is detached only
  when closing and unread, `closeDone` only after that, and at most one goroutine
  is in charge of finishing.
* `ExportInv` says, by the label of the exporting process, what it has made: the
  image is complete before it is named, and named in the directory before the
  directory is synced. The destination is whole in the directory and on disk, which a
  power loss takes apart. What a failed export could not remove is remembered (`kept`)
  until a crash or the operator ends the question whose it is. While the exclusive lock is held nobody changes the source.
* `PinInv` says of every goroutine, by its control point, what its session has
  pinned: nothing before `resolve`, a committed revision after it, its program after
  `load`, the head it read and the snapshot at that head while it evaluates. That
  the program a waiter is handed is of its own revision needs `LoadInv`: a load that
  can be joined runs and is of the key it is found under, and is not forgotten while
  somebody waits. `SlotInv` counts: the slots taken on a port are the deserted
  extensions and the callers whose extension runs.

Only model-checked: the liveness properties (fairness is out of the prover's
reach); the invariants of `SqliteStore`; `MaintenanceAccepts` and `BackupsAreSound` of `SqliteOffline` (they compare all
tables with one another and with an older copy); `LoadsAreShared` of
`Engine` (what the resident revisions weigh is a sum over a set, and how far the loop of
`admitLocked` gets an induction); and the properties of
`Values`, whose operators are recursive over data.

## 7. Not modelled

* The driver fork `internal/sqlitenofollow` (C bindings and file opening flags;
  what the store relies on is the one habit named in section 2), the conformance
  kits (tests of other stores) and the maintenance command (flags and exit codes
  around the commands of `SqliteFile`).
* Redaction, error wording, formatting and logging: no state and no property.
* `schema.go` compares the text of the schema with the embedded one, which is one
  yes or no in `SqliteFile`; pragmas and the inspection of WAL files likewise.
* `SetActive` of the revision cache has no caller. The cache of slot pointers
  (`internal/cache/pointers.go`) is filled by tests only: in the program it has one
  caller, `resolveRevision`, whose `UpdateCommitted` changes entries and fills that
  exist, and neither ever does.
* Publish and the read services are an authorization followed by one store call;
  they are covered by `invokeExtension` and the store models, not by actions of
  their own in `Engine`. The option checks of `embedded.New` hold no state.
* Expiry beyond the range of int64 nanoseconds, which only the SQLite store
  refuses; pauses and forced expiry that exist for tests.
* The DSL evaluator is another module; the model has the facts it is given, and
  `dslResult` is one evaluator, which decides from the tuples and the attributes it
  read through the reader. `DecisionsAreEarned` is about answers with status OK: what evidence they rest
  on, not which requests should fail.
* `RowsRoundTrip` asks that damage to a key column of a fact is noticed; a value column
  that was overwritten with the encoding of another value reads as that value, in the
  code as in the model.
* More than one namespace: namespaces share only the clock and the mutex.
