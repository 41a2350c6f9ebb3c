---------------------------- MODULE SqliteStore ----------------------------
(***************************************************************************)
(* store/sqlite: the durable local store, one namespace.                   *)
(*                                                                         *)
(* A mutation is a closure handed to one writer goroutine over a bounded   *)
(* channel; the writer runs it in a BEGIN IMMEDIATE transaction.  The      *)
(* caller waits for the outcome, for shutdown or for its context, so it    *)
(* may be gone when the transaction commits.  Reads and snapshots hold a   *)
(* reader permit.  A transaction is one action (SQLite lets no other       *)
(* writer in between); each SELECT outside a transaction is one, too.      *)
(***************************************************************************)
EXTENDS SqliteTables

CONSTANTS
  Procs,          \* calls in flight
  Nobody,         \* no call
  QueueCapacity,  \* writerQueueCapacity
  MaxReaders      \* Config.MaxReaders

ASSUME CallsAssumption == IsFiniteSet(Procs) /\ Nobody \notin Procs

ASSUME CapacityAssumption == QueueCapacity \in Nat \ {0} /\ MaxReaders \in Nat \ {0}

VARIABLES
  tables,      \* the committed database
  queue,       \* d.writeRequests, oldest first
  writer,      \* the call whose closure the writer runs, or Nobody
  lane,        \* the writer goroutine: has a connection, lost it, or returned
  response,    \* per call: what completeWrite put into request.result
  committed,   \* calls whose transaction changed the tables (history variable)
  publishing,  \* s.revisions.active[namespace]: the publishing call, or Nobody
  woken,       \* publishers whose awaited reservation.done is closed
  readers,     \* calls that hold a place in d.readerAdmission
  waitRefs,    \* waiters of the generationWaiter in s.generations, 0 without one
  waitOn,      \* per call: state of the generationWaiter it registered with
  owed,        \* a write committed since the last notification (history variable)
  openers,     \* calls counted by s.snapshotOpeners
  views,       \* calls whose snapshot is in s.snapshots
  shutdown,    \* s.snapshotClosing, s.snapshotShutdown closed
  closed,      \* d.closed is closed
  pools,       \* d.readers and d.writer are set
  pc, req, loc, cancelled, result

writing == <<queue, writer, lane, response, committed>>
publication == <<publishing, woken>>
waits == <<waitRefs, waitOn, owed>>
lifetime == <<openers, views, shutdown, closed, pools>>
vars == <<tables, writing, publication, readers, waits, lifetime, pc, req, loc, cancelled, result>>

-----------------------------------------------------------------------------
(* Types and control.                                                        *)

NoRequest == [op |-> "none"]
NoLocal == [now |-> 0, mark |-> 0, boundary |-> 0]
NoResponse == [status |-> "none", generation |-> 0]
NoResult == [status |-> "none", generation |-> 0, page |-> <<>>]

Status == {"none", "OK", "EXISTS", "REPLAYED", "CANCELLED", "CONFLICT", "NOT_FOUND", "INTERNAL",
           "UNAVAILABLE", "RESOURCE_EXHAUSTED", "CURSOR_EXPIRED", "PANIC"}

PC == {"idle", "reserve", "await", "stamp", "submit", "wait", "notify", "release",
       "permit", "head", "rows", "open", "pin", "pinned", "register", "park", "unpark",
       "admit", "view", "done"}

Init ==
  /\ tables = EmptyTables
  /\ queue = <<>>
  /\ writer = Nobody
  /\ lane = "ready"
  /\ response = [p \in Procs |-> NoResponse]
  /\ committed = {}
  /\ publishing = Nobody
  /\ woken = {}
  /\ readers = {}
  /\ waitRefs = 0
  /\ waitOn = [p \in Procs |-> "none"]
  /\ owed = FALSE
  /\ openers = {}
  /\ views = {}
  /\ shutdown = FALSE
  /\ closed = FALSE
  /\ pools = TRUE
  /\ pc = [p \in Procs |-> "idle"]
  /\ req = [p \in Procs |-> NoRequest]
  /\ loc = [p \in Procs |-> NoLocal]
  /\ cancelled = {}
  /\ result = [p \in Procs |-> NoResult]

Goto(p, label) == pc' = [pc EXCEPT ![p] = label]

Answer(p, status, gen, page) ==
  result' = [result EXCEPT ![p] = [status |-> status, generation |-> gen, page |-> page]]

Finish(p, status, gen, page) ==
  /\ Goto(p, "done")
  /\ Answer(p, status, gen, page)

Respond(p, status, gen) ==
  response' = [response EXCEPT ![p] = [status |-> status, generation |-> gen]]

-----------------------------------------------------------------------------
(* The writer goroutine.                                                     *)

\* writerLoop receives a request; executeWrite checks the context and shutdown
\* and begins the transaction.
Take ==
  LET p == Head(queue)
  IN /\ lane = "ready"
     /\ writer = Nobody
     /\ queue # <<>>
     /\ queue' = Tail(queue)
     /\ \/ /\ closed
           /\ Respond(p, "UNAVAILABLE", 0)
           /\ lane' = "exited"
           /\ UNCHANGED writer
        \/ /\ ~ closed /\ p \in cancelled
           /\ Respond(p, "CANCELLED", 0)
           /\ UNCHANGED <<writer, lane>>
        \/ /\ ~ closed /\ p \notin cancelled
           /\ Respond(p, "UNAVAILABLE", 0)
           /\ UNCHANGED <<writer, lane>>
        \/ /\ ~ closed /\ p \notin cancelled
           /\ writer' = p
           /\ UNCHANGED <<response, lane>>
     /\ UNCHANGED <<tables, committed, publication, readers, waits, lifetime,
                    pc, req, loc, cancelled, result>>

transaction(p, candidate) ==
  LET r == req[p]
  IN CASE r.op = "publish" -> PutRevision(tables, r, candidate)
       [] r.op = "activate" -> Activate(tables, r, candidate)
       [] r.op = "write" -> WriteData(tables, r, candidate)
       [] r.op = "events" -> pruneEventsForRead(tables, loc[p].now)

\* The tables become those of the transaction.
Apply(p, out) ==
  /\ tables' = out.tables
  /\ committed' = IF out.tables = tables THEN committed ELSE committed \cup {p}
  /\ owed' = (owed \/ out.tables.generation > tables.generation)

\* Mutant: what an abandoned write did to the data is not undone.
RollBackPartly(p, out) ==
  /\ \/ out.status \notin Accepted /\ Respond(p, out.status, 0)
     \/ p \in cancelled /\ Respond(p, "CANCELLED", 0)
  /\ tables' = [tables EXCEPT !.contents = out.tables.contents]
  /\ lane' \in {"ready", "lost"}
  /\ UNCHANGED <<committed, owed>>

\* The callback failed, or the context was done before COMMIT.  A rollback that
\* fails costs the connection.
RollBack(p, out) ==
  /\ \/ out.status \notin Accepted /\ Respond(p, out.status, 0)
     \/ p \in cancelled /\ Respond(p, "CANCELLED", 0)
  /\ lane' \in {"ready", "lost"}
  /\ UNCHANGED <<tables, committed, owed>>

CommitTransaction(p, out) ==
  /\ out.status \in Accepted
  /\ Apply(p, out)
  /\ Respond(p, out.status, out.generation)
  /\ UNCHANGED lane

\* Mutant: the error of COMMIT is dropped.
CommitErrorDropped(p, out) ==
  /\ out.status \in Accepted
  /\ lane' = "lost"
  /\ Respond(p, out.status, out.generation)
  /\ UNCHANGED <<tables, committed, owed>>

\* Mutant: the connection is discarded and the request is not completed.
CommitErrorUnanswered(p, out) ==
  /\ out.status \in Accepted
  /\ lane' = "lost"
  /\ UNCHANGED <<tables, committed, owed, response>>

\* COMMIT reports an error: it failed, or it was done when the context ended and
\* the driver reports the context.  The connection is discarded either way.
CommitReportsError(p, out) ==
  /\ out.status \in Accepted
  /\ lane' = "lost"
  /\ \/ Respond(p, IF p \in cancelled THEN "CANCELLED" ELSE "UNAVAILABLE", 0)
        /\ UNCHANGED <<tables, committed, owed>>
     \/ p \in cancelled /\ Respond(p, "CANCELLED", 0) /\ Apply(p, out)

\* The step is the end of the transaction: a context that ends while COMMIT runs
\* may or may not undo it, and its caller may be gone by then.
executeWrite ==
  LET p == writer
  IN /\ p # Nobody
     /\ \E candidate \in Times \cup {0} :
          LET out == transaction(p, candidate)
          IN RollBack(p, out) \/ CommitTransaction(p, out) \/ CommitReportsError(p, out)
     /\ writer' = Nobody
     /\ UNCHANGED <<queue, publication, readers, waitRefs, waitOn, lifetime,
                    pc, req, loc, cancelled, result>>

awaitWriterConnection ==
  /\ lane = "lost"
  /\ lane' = "ready"
  /\ UNCHANGED <<tables, queue, writer, response, committed, publication, readers, waits,
                 lifetime, pc, req, loc, cancelled, result>>

\* The loop, or the wait for a connection, sees d.closed.
WriterExits ==
  /\ closed
  /\ writer = Nobody
  /\ lane # "exited"
  /\ lane' = "exited"
  /\ UNCHANGED <<tables, queue, writer, response, committed, publication, readers, waits,
                 lifetime, pc, req, loc, cancelled, result>>

Writer == Take \/ executeWrite \/ awaitWriterConnection \/ WriterExits

-----------------------------------------------------------------------------
(* Publications queue up in front of the writer.                             *)

acquireRevisionReservation(p) ==
  /\ pc[p] = "reserve"
  /\ p \notin cancelled
  /\ IF publishing = Nobody
       THEN publishing' = p /\ Goto(p, "submit")
       ELSE UNCHANGED publishing /\ Goto(p, "await")
  /\ UNCHANGED <<tables, writing, woken, readers, waits, lifetime, req, loc, cancelled, result>>

Awake(p) ==
  /\ pc[p] = "await"
  /\ p \in woken
  /\ woken' = woken \ {p}
  /\ Goto(p, "reserve")
  /\ UNCHANGED <<tables, writing, publishing, readers, waits, lifetime, req, loc, cancelled,
                 result>>

\* Mutant: the reservation is deleted, its done channel stays open.
releaseRevisionReservationSilently(p) ==
  /\ pc[p] = "release"
  /\ Goto(p, "done")
  /\ publishing' = Nobody
  /\ UNCHANGED <<tables, writing, woken, readers, waits, lifetime, req, loc, cancelled, result>>

releaseRevisionReservation(p) ==
  /\ pc[p] = "release"
  /\ Goto(p, "done")
  /\ IF publishing = p
       THEN publishing' = Nobody /\ woken' = woken \cup {q \in Procs : pc[q] = "await"}
       ELSE UNCHANGED publication
  /\ UNCHANGED <<tables, writing, readers, waits, lifetime, req, loc, cancelled, result>>

-----------------------------------------------------------------------------
(* database.write, called by every mutation and by ListEvents.               *)

\* Where a call goes when write returns.
leave(p, status) ==
  CASE req[p].op = "publish" -> "release"
    [] req[p].op = "write" /\ status = "OK" -> "notify"
    [] req[p].op = "events" /\ status = "OK" -> "permit"
    [] OTHER -> "done"

WriteReturns(p, status, gen) ==
  /\ Goto(p, leave(p, status))
  /\ Answer(p, status, gen, <<>>)

\* The first select; a full queue makes the call wait.
Submit(p) ==
  /\ pc[p] = "submit"
  /\ \/ /\ Len(queue) < QueueCapacity
        /\ queue' = Append(queue, p)
        /\ Goto(p, "wait")
        /\ UNCHANGED result
     \/ closed /\ WriteReturns(p, "UNAVAILABLE", 0) /\ UNCHANGED queue
     \/ p \in cancelled /\ WriteReturns(p, "CANCELLED", 0) /\ UNCHANGED queue
  /\ UNCHANGED <<tables, writer, lane, response, committed, publication, readers, waits,
                 lifetime, req, loc, cancelled>>

Receive(p) ==
  /\ WriteReturns(p, response[p].status, response[p].generation)
  /\ response' = [response EXCEPT ![p] = NoResponse]

\* The call returns without the outcome; its request stays where it is.
Desert(p, status) == WriteReturns(p, status, 0) /\ UNCHANGED response

\* Mutant: shutdown is not watched while the outcome is awaited.
AwaitOutcomeOnly(p) ==
  /\ pc[p] = "wait"
  /\ \/ response[p] # NoResponse /\ Receive(p)
     \/ p \in cancelled /\ Desert(p, "CANCELLED")
  /\ UNCHANGED <<tables, queue, writer, lane, committed, publication, readers, waits, lifetime,
                 req, loc, cancelled>>

\* The second select: the outcome, shutdown without an outcome, or the context.
AwaitOutcome(p) ==
  /\ pc[p] = "wait"
  /\ \/ response[p] # NoResponse /\ Receive(p)
     \/ response[p] = NoResponse /\ closed /\ Desert(p, "UNAVAILABLE")
     \/ p \in cancelled /\ Desert(p, "CANCELLED")
  /\ UNCHANGED <<tables, queue, writer, lane, committed, publication, readers, waits, lifetime,
                 req, loc, cancelled>>

\* notifyGenerationWaiters closes the channel and forgets the waiter.
notifyGenerationWaiters(p) ==
  /\ pc[p] = "notify"
  /\ waitRefs' = 0
  /\ waitOn' = [q \in Procs |-> IF waitOn[q] = "live" THEN "closed" ELSE waitOn[q]]
  /\ owed' = FALSE
  /\ Goto(p, "done")
  /\ UNCHANGED <<tables, writing, publication, readers, lifetime, req, loc, cancelled, result>>

\* ListEvents reads the clock before it submits its prune.
pruneStamp(p) ==
  /\ pc[p] = "stamp"
  /\ p \notin cancelled
  /\ \/ /\ \E now \in Times : loc' = [loc EXCEPT ![p].now = now]
        /\ Goto(p, "submit")
        /\ UNCHANGED result
     \/ Finish(p, "INTERNAL", 0, <<>>) /\ UNCHANGED loc
  /\ UNCHANGED <<tables, writing, publication, readers, waits, lifetime, req, cancelled>>

-----------------------------------------------------------------------------
(* Reads: a permit, then one or two statements on the reader pool.           *)

acquireReader(p) ==
  /\ pc[p] = "permit"
  /\ p \notin cancelled
  /\ \/ closed /\ Finish(p, "UNAVAILABLE", 0, <<>>) /\ UNCHANGED readers
     \/ /\ ~ closed
        /\ Cardinality(readers) < MaxReaders
        /\ readers' = readers \cup {p}
        /\ Goto(p, "head")
        /\ UNCHANGED result
  /\ UNCHANGED <<tables, writing, publication, waits, lifetime, req, loc, cancelled>>

\* Store.read releases the permit on every path and checks the context last.
ReadReturns(p, status, gen, page) ==
  /\ readers' = readers \ {p}
  /\ \/ Finish(p, status, gen, page)
     \/ p \in cancelled /\ Finish(p, "CANCELLED", 0, <<>>)

\* A statement fails.
ReadFails(p) ==
  /\ pc[p] \in {"head", "rows"}
  /\ pools
  /\ ReadReturns(p, "UNAVAILABLE", 0, <<>>)
  /\ UNCHANGED <<tables, writing, publication, waits, lifetime, req, loc, cancelled>>

\* Close does not wait for reads: closeResources has closed the pool (an error) and
\* perhaps already set d.readers to nil (a nil dereference).
ReadAfterClose(p) ==
  /\ pc[p] \in {"head", "rows"}
  /\ ~ pools
  /\ \/ ReadReturns(p, "UNAVAILABLE", 0, <<>>)
     \/ pc[p] = "head" /\ ReadReturns(p, "PANIC", 0, <<>>)
  /\ UNCHANGED <<tables, writing, publication, waits, lifetime, req, loc, cancelled>>

\* The newest position that is gone: expired_through, or what precedes the oldest
\* row of the history.
goneThrough(r) ==
  IF r.op = "events" THEN tables.expiredThrough
  ELSE IF tables.slots[r.slot].history = <<>> THEN 0
  ELSE tables.slots[r.slot].history[1].generation - 1

\* Mutant: no cursor is too old.
CheckNoCursor(p, expired) ==
  /\ loc' = [loc EXCEPT ![p].mark = goneThrough(req[p])]
  /\ Goto(p, "rows")
  /\ UNCHANGED <<readers, result>>

\* The first statement of ListEvents and ListActivationHistory finds how far
\* back the rows go.
CheckCursor(p, expired) ==
  IF req[p].cursor # 0 /\ expired
    THEN ReadReturns(p, "CURSOR_EXPIRED", 0, <<>>) /\ UNCHANGED loc
    ELSE /\ loc' = [loc EXCEPT ![p].mark = goneThrough(req[p])]
         /\ Goto(p, "rows")
         /\ UNCHANGED <<readers, result>>

\* A watermark below the boundary of the cursor is that of an older file.
readEventsHead(p) ==
  /\ req[p].op = "events"
  /\ CheckCursor(p, \/ req[p].cursor <= tables.expiredThrough
                    \/ loc[p].boundary > tables.expiredThrough)

readOldestHistory(p) ==
  LET history == tables.slots[req[p].slot].history
      oldest == IF history = <<>> THEN 0 ELSE history[1].generation
  IN /\ req[p].op = "history"
     /\ CheckCursor(p, oldest > 0 /\ req[p].cursor < oldest)

Resolve(p) ==
  LET current == tables.slots[req[p].slot].current
  IN /\ req[p].op = "resolve"
     /\ ReadReturns(p, IF current.generation = 0 THEN "NOT_FOUND" ELSE "OK",
                    current.generation, <<>>)
     /\ UNCHANGED loc

GetRevision(p) ==
  /\ req[p].op = "revision"
  /\ ReadReturns(p, IF tables.revisions[req[p].id] = Nil THEN "NOT_FOUND" ELSE "OK", 0, <<>>)
  /\ UNCHANGED loc

GetDataGeneration(p) ==
  /\ req[p].op = "generation"
  /\ ReadReturns(p, "OK", tables.generation, <<>>)
  /\ UNCHANGED loc

ReadHead(p) ==
  /\ pc[p] = "head"
  /\ pools
  /\ \/ readEventsHead(p)
     \/ readOldestHistory(p)
     \/ Resolve(p)
     \/ GetRevision(p)
     \/ GetDataGeneration(p)
  /\ UNCHANGED <<tables, writing, publication, waits, lifetime, req, cancelled>>

\* The second statement reads the tables as they are by then.
ReadRows(p) ==
  LET r == req[p]
      positions == IF r.op = "events" THEN sequences(tables.events)
                   ELSE generations(tables.slots[r.slot].history)
  IN /\ pc[p] = "rows"
     /\ pools
     /\ ReadReturns(p, "OK", 0, rowsAfter(positions, r.cursor, r.limit))
     /\ UNCHANGED <<tables, writing, publication, waits, lifetime, req, loc, cancelled>>

-----------------------------------------------------------------------------
(* OpenSnapshot: pin a read transaction, or wait for the generation.         *)

beginSnapshotOpen(p) ==
  /\ pc[p] = "open"
  /\ p \notin cancelled
  /\ IF shutdown
       THEN Finish(p, "UNAVAILABLE", 0, <<>>) /\ UNCHANGED openers
       ELSE openers' = openers \cup {p} /\ Goto(p, "pin") /\ UNCHANGED result
  /\ UNCHANGED <<tables, writing, publication, readers, waits, views, shutdown, closed, pools,
                 req, loc, cancelled>>

\* The call returns through the deferred endSnapshotOpen.
OpenReturns(p, status) ==
  /\ openers' = openers \ {p}
  /\ Finish(p, status, 0, <<>>)

\* openPinnedSnapshot: a permit, BEGIN, and the namespace head.
openPinnedSnapshot(p) ==
  /\ pc[p] = "pin"
  /\ p \notin cancelled
  /\ Cardinality(readers) < MaxReaders
  /\ readers' = readers \cup {p}
  /\ loc' = [loc EXCEPT ![p].mark = tables.generation]
  /\ Goto(p, "pinned")
  /\ UNCHANGED <<tables, writing, publication, waits, lifetime, req, cancelled, result>>

\* Unregistering from a waiter that was notified does nothing; the last one out
\* forgets the waiter, and whoever were still on it would never hear ("orphan").
unregister(p) ==
  LET last == waitOn[p] = "live" /\ waitRefs = 1
  IN /\ waitRefs' = IF waitOn[p] = "live" THEN waitRefs - 1 ELSE waitRefs
     /\ waitOn' = [q \in Procs |-> IF q = p THEN "none"
                                   ELSE IF last /\ waitOn[q] = "live" THEN "orphan"
                                   ELSE waitOn[q]]
     /\ UNCHANGED owed

\* The call stops waiting for a permit: its context is done, or d.closed is closed.
leavePin(p) ==
  /\ pc[p] = "pin"
  /\ p \in cancelled \/ closed
  /\ unregister(p)
  /\ OpenReturns(p, IF p \in cancelled THEN "CANCELLED" ELSE "UNAVAILABLE")
  /\ UNCHANGED <<tables, writing, publication, readers, views, shutdown, closed, pools,
                 req, loc, cancelled>>

\* The connection, BEGIN or the read of the head fails, and the permit is returned.
pinFails(p) ==
  /\ pc[p] = "pin"
  /\ Cardinality(readers) < MaxReaders
  /\ unregister(p)
  /\ OpenReturns(p, IF p \in cancelled THEN "CANCELLED" ELSE "UNAVAILABLE")
  /\ UNCHANGED <<tables, writing, publication, readers, views, shutdown, closed, pools,
                 req, loc, cancelled>>

\* Mutant: a view that is too old keeps its connection.
comparePinnedKeeping(p) ==
  /\ pc[p] = "pinned"
  /\ \/ /\ loc[p].mark >= req[p].minimum
        /\ unregister(p)
        /\ Goto(p, "admit")
     \/ /\ loc[p].mark < req[p].minimum
        /\ Goto(p, IF waitOn[p] = "none" THEN "register" ELSE "park")
        /\ UNCHANGED waits
  /\ UNCHANGED <<tables, writing, publication, readers, lifetime, req, loc, cancelled, result>>

\* The pinned generation suffices, or the view is closed again: the first time
\* to register a waiter and look once more, the second time to sleep.
comparePinned(p) ==
  /\ pc[p] = "pinned"
  /\ \/ /\ loc[p].mark >= req[p].minimum
        /\ unregister(p)
        /\ Goto(p, "admit")
        /\ UNCHANGED readers
     \/ /\ loc[p].mark < req[p].minimum
        /\ readers' = readers \ {p}
        /\ Goto(p, IF waitOn[p] = "none" THEN "register" ELSE "park")
        /\ UNCHANGED waits
  /\ UNCHANGED <<tables, writing, publication, lifetime, req, loc, cancelled, result>>

\* The rollback of a view that is too old cannot be confirmed.
closePinnedFails(p) ==
  /\ pc[p] = "pinned"
  /\ loc[p].mark < req[p].minimum
  /\ readers' = readers \ {p}
  /\ unregister(p)
  /\ OpenReturns(p, IF p \in cancelled THEN "CANCELLED" ELSE "UNAVAILABLE")
  /\ UNCHANGED <<tables, writing, publication, views, shutdown, closed, pools, req, loc,
                 cancelled>>

\* Mutant: the waiter goes to sleep without looking again.
registerAndPark(p) ==
  /\ pc[p] = "register"
  /\ waitRefs' = waitRefs + 1
  /\ waitOn' = [waitOn EXCEPT ![p] = "live"]
  /\ UNCHANGED owed
  /\ Goto(p, "park")
  /\ UNCHANGED <<tables, writing, publication, readers, lifetime, req, loc, cancelled, result>>

registerWaiter(p) ==
  /\ pc[p] = "register"
  /\ waitRefs' = waitRefs + 1
  /\ waitOn' = [waitOn EXCEPT ![p] = "live"]
  /\ UNCHANGED owed
  /\ Goto(p, "pin")
  /\ UNCHANGED <<tables, writing, publication, readers, lifetime, req, loc, cancelled, result>>

\* Mutant: the select does not watch shutdown.
UnparkUnlessClosing(p) ==
  /\ pc[p] = "park"
  /\ waitOn[p] = "closed" \/ p \in cancelled
  /\ Goto(p, "unpark")
  /\ UNCHANGED <<tables, writing, publication, readers, waits, lifetime, req, loc, cancelled,
                 result>>

Unpark(p) ==
  /\ pc[p] = "park"
  /\ waitOn[p] = "closed" \/ shutdown \/ p \in cancelled
  /\ Goto(p, "unpark")
  /\ UNCHANGED <<tables, writing, publication, readers, waits, lifetime, req, loc, cancelled,
                 result>>

afterWait(p) ==
  /\ pc[p] = "unpark"
  /\ unregister(p)
  /\ \/ p \in cancelled /\ OpenReturns(p, "CANCELLED")
     \/ p \notin cancelled /\ shutdown /\ OpenReturns(p, "UNAVAILABLE")
     \/ p \notin cancelled /\ ~ shutdown /\ Goto(p, "pin") /\ UNCHANGED <<openers, result>>
  /\ UNCHANGED <<tables, writing, publication, readers, views, shutdown, closed, pools,
                 req, loc, cancelled>>

\* registerSnapshot and the return: a closing store takes no more views, and a
\* context that is done by now closes the view again.
registerSnapshot(p) ==
  /\ pc[p] = "admit"
  /\ \/ /\ ~ shutdown
        /\ views' = views \cup {p}
        /\ openers' = openers \ {p}
        /\ Goto(p, "view")
        /\ Answer(p, "OK", loc[p].mark, <<>>)
        /\ UNCHANGED readers
     \/ /\ shutdown \/ p \in cancelled
        /\ readers' = readers \ {p}
        /\ OpenReturns(p, IF p \in cancelled THEN "CANCELLED" ELSE "UNAVAILABLE")
        /\ UNCHANGED views
  /\ UNCHANGED <<tables, writing, publication, waits, shutdown, closed, pools, req, loc, cancelled>>

\* The holder closes its view; one that Store.Close has drained is closed already.
CloseView(p) ==
  /\ pc[p] = "view"
  /\ readers' = readers \ {p}
  /\ views' = views \ {p}
  /\ Goto(p, "done")
  /\ UNCHANGED <<tables, writing, publication, waits, openers, shutdown, closed, pools,
                 req, loc, cancelled, result>>

-----------------------------------------------------------------------------
(* Store.Close, restart and callers.                                         *)

\* closeOwnedSnapshots, first lock: no more openers, and the parked ones wake.
BeginClose ==
  /\ ~ shutdown
  /\ shutdown' = TRUE
  /\ UNCHANGED <<tables, writing, publication, readers, waits, openers, views, closed, pools,
                 pc, req, loc, cancelled, result>>

\* It closes each view; the holder finds out when it reads through it.
DrainView(p) ==
  /\ shutdown
  /\ p \in views
  /\ views' = views \ {p}
  /\ readers' = readers \ {p}
  /\ UNCHANGED <<tables, writing, publication, waits, openers, shutdown, closed, pools,
                 pc, req, loc, cancelled, result>>

\* Mutant: the openers that were under way are not waited for.
closeWithoutOpeners ==
  /\ shutdown /\ ~ closed
  /\ views = {}
  /\ closed' = TRUE
  /\ UNCHANGED <<tables, writing, publication, readers, waits, openers, views, shutdown, pools,
                 pc, req, loc, cancelled, result>>

\* Views closed and openers gone, database.Close closes d.closed.
closeDatabase ==
  /\ shutdown /\ ~ closed
  /\ views = {} /\ openers = {}
  /\ closed' = TRUE
  /\ UNCHANGED <<tables, writing, publication, readers, waits, openers, views, shutdown, pools,
                 pc, req, loc, cancelled, result>>

closeResources ==
  /\ closed
  /\ lane = "exited"
  /\ pools
  /\ pools' = FALSE
  /\ UNCHANGED <<tables, writing, publication, readers, waits, openers, views, shutdown, closed,
                 pc, req, loc, cancelled, result>>

Closer == BeginClose \/ (\E p \in Procs : DrainView(p)) \/ closeDatabase \/ closeResources

\* The process dies, at any point, and opens the database file again.  Only what
\* was committed is left.
Restart ==
  /\ queue' = <<>>
  /\ writer' = Nobody
  /\ lane' = "ready"
  /\ response' = [p \in Procs |-> NoResponse]
  /\ committed' = {}
  /\ publishing' = Nobody
  /\ woken' = {}
  /\ readers' = {}
  /\ waitRefs' = 0
  /\ waitOn' = [p \in Procs |-> "none"]
  /\ owed' = FALSE
  /\ openers' = {}
  /\ views' = {}
  /\ shutdown' = FALSE
  /\ closed' = FALSE
  /\ pools' = TRUE
  /\ pc' = [p \in Procs |-> "idle"]
  /\ req' = [p \in Procs |-> NoRequest]
  /\ loc' = [p \in Procs |-> NoLocal]
  /\ cancelled' = {}
  /\ result' = [p \in Procs |-> NoResult]
  /\ UNCHANGED tables

\* Cursors are authenticated: a caller holds those of events that were appended, and
\* of history rows that others followed; 0 is no cursor.
cursorIssued(r) ==
  /\ r.op = "events" => r.cursor <= tables.sequence
  /\ r.op = "history" /\ r.cursor # 0 => r.cursor < tables.slots[r.slot].current.generation

\* The cursor of an event carries the watermark at the time it was appended.
cursorBoundaries(r) ==
  {0} \cup {boundary \in 0..tables.expiredThrough : r.op = "events" /\ boundary < r.cursor}

entry(r) ==
  CASE r.op = "publish" -> "reserve"
    [] r.op \in {"activate", "write"} -> "submit"
    [] r.op = "events" -> "stamp"
    [] r.op = "snapshot" -> "open"
    [] OTHER -> "permit"

Call(p) ==
  /\ pc[p] = "idle"
  /\ \E r \in Requests :
       /\ cursorIssued(r)
       /\ req' = [req EXCEPT ![p] = r]
       /\ \E boundary \in cursorBoundaries(r) :
            loc' = [loc EXCEPT ![p].boundary = boundary]
       /\ Goto(p, entry(r))
  /\ UNCHANGED <<tables, writing, publication, readers, waits, lifetime, cancelled, result>>

\* The context is found done before anything is held.
GiveUp(p) ==
  /\ pc[p] \in {"reserve", "await", "stamp", "permit", "open"}
  /\ p \in cancelled
  /\ Finish(p, "CANCELLED", 0, <<>>)
  /\ woken' = woken \ {p}
  /\ UNCHANGED <<tables, writing, publishing, readers, waits, lifetime, req, loc, cancelled>>

\* A call slot is used again once the writer is through with its request.
Return(p) ==
  /\ pc[p] = "done"
  /\ p # writer /\ \A i \in DOMAIN queue : queue[i] # p
  /\ Goto(p, "idle")
  /\ req' = [req EXCEPT ![p] = NoRequest]
  /\ loc' = [loc EXCEPT ![p] = NoLocal]
  /\ response' = [response EXCEPT ![p] = NoResponse]
  /\ committed' = committed \ {p}
  /\ cancelled' = cancelled \ {p}
  /\ result' = [result EXCEPT ![p] = NoResult]
  /\ UNCHANGED <<tables, queue, writer, lane, publication, readers, waits, lifetime>>

Cancel(p) ==
  /\ pc[p] \notin {"idle", "view", "done"}
  /\ cancelled' = cancelled \cup {p}
  /\ UNCHANGED <<tables, writing, publication, readers, waits, lifetime, pc, req, loc, result>>

\* What the scheduler owes a call that is under way.
Step(p) ==
  \/ acquireRevisionReservation(p) \/ Awake(p) \/ releaseRevisionReservation(p)
  \/ Submit(p) \/ AwaitOutcome(p) \/ notifyGenerationWaiters(p)
  \/ pruneStamp(p) \/ acquireReader(p) \/ ReadHead(p) \/ ReadRows(p) \/ ReadAfterClose(p)
  \/ beginSnapshotOpen(p) \/ openPinnedSnapshot(p) \/ leavePin(p) \/ comparePinned(p)
  \/ registerWaiter(p) \/ Unpark(p) \/ afterWait(p) \/ registerSnapshot(p)
  \/ GiveUp(p)

\* What SQLite may answer instead, and the scheduler owes nobody.
Fault(p) == ReadFails(p) \/ pinFails(p) \/ closePinnedFails(p)

Next ==
  \/ \E p \in Procs : Step(p) \/ Fault(p)
  \/ \E p \in Procs : Call(p) \/ Return(p) \/ Cancel(p) \/ CloseView(p)
  \/ Writer
  \/ Closer
  \/ Restart

Spec == Init /\ [][Next]_vars

\* Goroutines run; those blocked on d.readerAdmission get the permits in the order
\* they came; Store.Close runs on once it was called.
FairSpec ==
  /\ Spec
  /\ \A p \in Procs : WF_vars(Step(p)) /\ WF_vars(DrainView(p))
  /\ \A p \in Procs : SF_vars(openPinnedSnapshot(p))
  /\ WF_vars(Writer)
  /\ WF_vars(closeDatabase)
  /\ WF_vars(closeResources)

-----------------------------------------------------------------------------
(* Properties.                                                               *)

\* Every variable keeps its type: counters stay within int64, the channel within
\* its capacity, and the head row and event rows are well formed after any mix of
\* commits, rollbacks, lost connections and restarts.
TypeOK ==
  /\ tables \in Tables
  /\ queue \in Seq(Procs) /\ Len(queue) <= QueueCapacity
  /\ writer \in Procs \cup {Nobody}
  /\ lane \in {"ready", "lost", "exited"}
  /\ response \in [Procs -> [status : Status, generation : Counter]]
  /\ committed \in SUBSET Procs
  /\ publishing \in Procs \cup {Nobody}
  /\ woken \in SUBSET Procs
  /\ readers \in SUBSET Procs
  /\ waitRefs \in Nat /\ owed \in BOOLEAN
  /\ waitOn \in [Procs -> {"none", "live", "closed", "orphan"}]
  /\ openers \in SUBSET Procs /\ views \in SUBSET Procs
  /\ shutdown \in BOOLEAN /\ closed \in BOOLEAN /\ pools \in BOOLEAN
  /\ pc \in [Procs -> PC]
  /\ req \in [Procs -> Requests \cup {NoRequest}]
  /\ loc \in [Procs -> [now : Times \cup {0}, mark : Counter, boundary : Counter]]
  /\ cancelled \in SUBSET Procs
  /\ result \in [Procs -> [status : Status, generation : Counter, page : Seq(Counter)]]

\* A mutation that was acknowledged is in the file, and was committed by its own
\* transaction; a replayed write got the generation of the original.
AcknowledgedIsDurable ==
  \A p \in Procs :
    LET r == req[p]
        status == result[p].status
    IN /\ r.op \in Mutations /\ status = "OK" => p \in committed
       /\ r.op = "publish" /\ status \in {"OK", "EXISTS"} => tables.revisions[r.id] # Nil
       /\ r.op = "activate" /\ status = "OK" =>
            result[p].generation \in 1..tables.slots[r.slot].current.generation
       /\ r.op = "write" /\ status \in {"OK", "REPLAYED"} =>
            tables.idempotency[r.key] = [fingerprint |-> FingerprintWriteData(r),
                                         generation |-> result[p].generation]

\* A request is in one place: queued, in the writer's hands, or answered; so no
\* closure runs twice and none is dropped while the writer lives.
RequestsHeldOnce ==
  \A p \in Procs :
    LET places == {i \in DOMAIN queue : queue[i] = p}
    IN /\ Cardinality(places) + (IF writer = p THEN 1 ELSE 0)
            + (IF response[p] # NoResponse THEN 1 ELSE 0) <= 1
       /\ pc[p] = "wait" => places # {} \/ writer = p \/ response[p] # NoResponse

\* The reader permits are held by exactly the reads between their statements and
\* the pinned or open snapshots: every early return gives its permit back.
PermitsExact ==
  /\ readers = {p \in Procs : pc[p] \in {"head", "rows", "pinned", "admit"}} \cup views
  /\ Cardinality(readers) <= MaxReaders

\* When d.closed is closed no snapshot is open and none is being opened: no pinned
\* connection outlives the store (the comment on beginSnapshotOpen).
NoSnapshotOutlivesClose ==
  closed => /\ views = {} /\ openers = {}
            /\ \A p \in Procs : pc[p] \notin {"pin", "pinned", "register", "park", "admit"}

\* Looking again after registering is enough: an opener sleeps on a waiter the store
\* still knows, whoever left it before, and past its generation only while a committed
\* write has yet to notify.
SleepersAreOwedAWakeup ==
  \A p \in Procs : pc[p] = "park" =>
    /\ waitOn[p] \in {"live", "closed"}
    /\ waitOn[p] = "live" /\ tables.generation >= req[p].minimum => owed

\* A page is a run of consecutive positions, no more than asked for, and starts right
\* behind the cursor.  What it may lack there is only what was still retained when the
\* call checked its cursor and expired before it read its rows; what had expired
\* before is never skipped without CURSOR_EXPIRED.
PagesConsecutive ==
  \A p \in Procs :
    pc[p] = "done" /\ req[p].op \in {"events", "history"} =>
      LET page == result[p].page
          r == req[p]
      IN /\ Len(page) <= r.limit
         /\ \A i \in DOMAIN page : page[i] > r.cursor /\ page[i] = page[1] + i - 1
         /\ page # <<>> /\ r.cursor # 0 =>
              (r.cursor + 1)..(page[1] - 1) \subseteq (loc[p].mark + 1)..goneThrough(r)

\* A caller waiting for the writer is answered, also when the connection is lost
\* or the store closes under it.
WritesAnswered == \A p \in Procs : pc[p] = "wait" ~> pc[p] # "wait"

\* A publication waiting for another one gets its turn.
AwaitersLeave == \A p \in Procs : pc[p] = "await" ~> pc[p] # "await"

\* Store.Close comes to its end although openers, views and writes are under way.
CloseCompletes == shutdown ~> ~ pools \/ ~ shutdown

-----------------------------------------------------------------------------
(* What the repository says and the code does not do.                        *)

\* snapshot.go, OpenSnapshot: "A commit that races either observation is then
\* visible through the fresh pinned head or closes this channel, so no generation
\* wake-up can be lost."
NoWakeupLost ==
  \A p \in Procs :
    pc[p] = "park" /\ waitOn[p] # "closed" /\ tables.generation >= req[p].minimum =>
      \E q \in Procs : pc[q] \in {"wait", "notify"} /\ req[q].op = "write"

\* store/store.go: adapters "return only direct sanitized *policyengine.EngineError
\* values".
ReadsNeverPanic == \A p \in Procs : result[p].status # "PANIC"

=============================================================================
