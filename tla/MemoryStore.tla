---------------------------- MODULE MemoryStore ----------------------------
(***************************************************************************)
(* store/memory: the synchronized in-memory local store, one namespace.    *)
(*                                                                         *)
(* A mutation takes Store.mu twice.  Under the first lock it reserves its  *)
(* commit domain, validates and computes its candidate; it then reads the  *)
(* injected clock WITHOUT the mutex; under the second lock it revalidates  *)
(* and commits; a third lock releases the reservation.  Each critical      *)
(* section is one action here and everything else may run between them.    *)
(***************************************************************************)
EXTENDS StoreTypes

CONSTANTS
  Procs,   \* goroutines calling the store
  Nobody   \* "no reservation": s.reservations[key] == nil

ASSUME ProcsAssumption == IsFiniteSet(Procs) /\ Nobody \notin Procs

VARIABLES
  revisions, slots, generation, contents, idempotency,  \* s.revisions ... s.data
  events, expiredThrough,                               \* s.events
  effectiveTime, failNextEvent,
  reservations,  \* commit domain -> owning goroutine
  waitRefs,      \* refs of the generationWait in s.waiters, 0 when there is none
  waitOn,        \* per goroutine: state of the generationWait it registered with
  pc, req,       \* per goroutine: control point and request
  loc,           \* per goroutine: locals that live across an unlock
  woken,         \* goroutines whose awaited reservation.done is closed
  cancelled,     \* goroutines whose context is done
  result         \* per goroutine: what the call returned

store == <<revisions, slots, generation, contents, idempotency, events,
           expiredThrough, effectiveTime>>
waits == <<waitRefs, waitOn>>
vars == <<store, failNextEvent, reservations, waits, pc, req, loc, woken,
          cancelled, result>>

-----------------------------------------------------------------------------
(* Types and initial state.                                                  *)

Mutations == {"publish", "activate", "write"}

ReservationKey == [domain : {"revision", "data"}, name : {Nil}]
                  \cup [domain : {"slot"}, name : Slots]

keyOf(r) ==
  CASE r.op = "publish"  -> [domain |-> "revision", name |-> Nil]
    [] r.op = "activate" -> [domain |-> "slot", name |-> r.slot]
    [] OTHER             -> [domain |-> "data", name |-> Nil]

NoRequest == [op |-> "none"]
NoLocal == [generation |-> 0, contents |-> {}, failEvent |-> FALSE, now |-> 0]
NoResult == [status |-> "none", generation |-> 0, page |-> <<>>]

Status == {"none", "OK", "EXISTS", "REPLAYED", "CANCELLED", "CONFLICT", "NOT_FOUND", "INTERNAL",
           "UNAVAILABLE", "RESOURCE_EXHAUSTED", "CURSOR_EXPIRED"}

Holding == {"held", "clock", "commit", "release"}

PC == {"idle", "reserve", "await", "open", "park", "unpark", "stamp", "list", "read", "done"}
      \cup Holding

\* The calls that can be at a control point.
callsAt(label) ==
  CASE label \in {"reserve", "await"} \cup Holding -> Mutations
    [] label \in {"open", "park", "unpark"} -> {"snapshot"}
    [] label \in {"stamp", "list"} -> {"events"}
    [] label = "read" -> {"history", "resolve", "revision", "generation"}
    [] label = "idle" -> {"none"}
    [] OTHER -> Mutations \cup {"snapshot", "events", "history", "resolve", "revision",
                               "generation"}

\* A candidate's base generation leaves room for the generation it will make.
Local == [generation : 0..(MaxUint64 - 1), contents : SUBSET Paths, failEvent : BOOLEAN,
          now : Times \cup {0}]

Result == [status : Status, generation : Counter, page : Seq(Counter)]

Init ==
  /\ revisions = [id \in RevisionIds |-> Nil]
  /\ slots = [s \in Slots |-> UnsetSlot]
  /\ generation = 0
  /\ contents = {}
  /\ idempotency = [k \in IdempotencyKeys |-> NoRecord]
  /\ events = <<>>
  /\ expiredThrough = 0
  /\ effectiveTime = 0
  /\ failNextEvent = FALSE
  /\ reservations = [k \in ReservationKey |-> Nobody]
  /\ waitRefs = 0
  /\ waitOn = [p \in Procs |-> "none"]
  /\ pc = [p \in Procs |-> "idle"]
  /\ req = [p \in Procs |-> NoRequest]
  /\ loc = [p \in Procs |-> NoLocal]
  /\ woken = {}
  /\ cancelled = {}
  /\ result = [p \in Procs |-> NoResult]

-----------------------------------------------------------------------------
(* Control helpers.                                                          *)

Goto(p, label) == pc' = [pc EXCEPT ![p] = label]

Answer(p, status, gen, page) ==
  result' = [result EXCEPT ![p] = [status |-> status, generation |-> gen, page |-> page]]

\* The call returns without holding a reservation.
Finish(p, status, gen, page) ==
  /\ Goto(p, "done")
  /\ Answer(p, status, gen, page)
  /\ UNCHANGED <<req, woken, cancelled>>

\* A read checks its context once more after the unlock.
FinishRead(p, status, gen, page) ==
  \/ Finish(p, status, gen, page)
  \/ Finish(p, "CANCELLED", 0, <<>>)

\* The outcome is decided; the deferred release still has to take the mutex.
Decide(p, status, gen) ==
  /\ Goto(p, "release")
  /\ Answer(p, status, gen, <<>>)
  /\ UNCHANGED <<req, woken, cancelled>>

nextEventSequence == highWater(events, expiredThrough) + 1
\* Mutant: the sequence counter is taken to be endless.
neverExhausted == FALSE
sequencesExhausted == highWater(events, expiredThrough) = MaxUint64

\* Mutant: the clock reading is used as it is.
unclampedTime(candidate) == candidate

effectiveTimeLocked(candidate) ==
  IF candidate < effectiveTime THEN effectiveTime ELSE candidate

\* appendEventLocked: append, then prune against the same effective time.
appendEvent(event) ==
  LET values == Append(events, event)
  IN /\ events' = prunedValues(values, event.at)
     /\ expiredThrough' = prunedThrough(values, expiredThrough, event.at)
     /\ effectiveTime' = event.at

owns(p) == reservations[keyOf(req[p])] = p

-----------------------------------------------------------------------------
(* First critical section: reserve, validate, compute the candidate.  Each   *)
(* verdict lists the code's checks in order; HOLD keeps the reservation, all *)
(* other verdicts leave the reservation table as it was.                     *)

publishVerdict(r) ==
  IF reservations[keyOf(r)] # Nobody THEN "WAIT"
  ELSE IF revisions[r.id] # Nil THEN "EXISTS"
  ELSE IF sequencesExhausted THEN "RESOURCE_EXHAUSTED"
  ELSE "HOLD"

activateVerdict(r) ==
  IF reservations[keyOf(r)] # Nobody THEN "CONFLICT"
  ELSE IF revisions[r.target] = Nil THEN "NOT_FOUND"
  ELSE IF ~ activationExpectationMatches(r.expectation, slots[r.slot]) THEN "CONFLICT"
  ELSE IF slots[r.slot].current.generation = MaxUint64 \/ sequencesExhausted
         THEN "RESOURCE_EXHAUSTED"
  ELSE "HOLD"

\* A contended write waits only behind its own duplicate.
contendedVerdict(r, owner) ==
  IF req[owner].key = r.key /\ FingerprintWriteData(req[owner]) = FingerprintWriteData(r)
    THEN "WAIT" ELSE "CONFLICT"

\* Mutant: a recorded key is a replay whatever the digest.
replayAnyDigest(r) == "REPLAYED"

replayVerdict(r) ==
  IF idempotency[r.key].fingerprint = FingerprintWriteData(r) THEN "REPLAYED" ELSE "CONFLICT"

\* Mutants: the record, or the attribute tree, is not consulted.
writeVerdictNoReplay(r) ==
  IF reservations[keyOf(r)] # Nobody THEN contendedVerdict(r, reservations[keyOf(r)])
  ELSE IF revisions[r.revision] = Nil THEN "NOT_FOUND"
  ELSE IF generation # r.expected THEN "CONFLICT"
  ELSE IF generation = MaxUint64 \/ sequencesExhausted THEN "RESOURCE_EXHAUSTED"
  ELSE IF ~ PrefixFree(applyWrite(contents, r)) THEN "CONFLICT"
  ELSE "HOLD"

writeVerdictNoTree(r) ==
  IF reservations[keyOf(r)] # Nobody THEN contendedVerdict(r, reservations[keyOf(r)])
  ELSE IF idempotency[r.key].generation # 0 THEN replayVerdict(r)
  ELSE IF revisions[r.revision] = Nil THEN "NOT_FOUND"
  ELSE IF generation # r.expected THEN "CONFLICT"
  ELSE IF generation = MaxUint64 \/ sequencesExhausted THEN "RESOURCE_EXHAUSTED"
  ELSE "HOLD"

writeVerdict(r) ==
  IF reservations[keyOf(r)] # Nobody THEN contendedVerdict(r, reservations[keyOf(r)])
  ELSE IF idempotency[r.key].generation # 0 THEN replayVerdict(r)
  ELSE IF revisions[r.revision] = Nil THEN "NOT_FOUND"
  ELSE IF generation # r.expected THEN "CONFLICT"
  ELSE IF generation = MaxUint64 \/ sequencesExhausted THEN "RESOURCE_EXHAUSTED"
  ELSE IF ~ PrefixFree(applyWrite(contents, r)) THEN "CONFLICT"
  ELSE "HOLD"

reserveVerdict(r) ==
  CASE r.op = "publish"  -> publishVerdict(r)
    [] r.op = "activate" -> activateVerdict(r)
    [] OTHER             -> writeVerdict(r)

\* Locals carried over the unlock: the generation the candidate starts from,
\* the candidate data version, and the event-failure flag as it is now.
candidateOf(r) ==
  [generation |-> CASE r.op = "activate" -> slots[r.slot].current.generation
                    [] r.op = "write" -> generation
                    [] OTHER -> 0,
   contents   |-> IF r.op = "write" THEN applyWrite(contents, r) ELSE {},
   failEvent  |-> failNextEvent,
   now        |-> 0]

Reserve(p) ==
  /\ pc[p] = "reserve"
  /\ p \notin cancelled
  /\ LET r == req[p]
         verdict == reserveVerdict(r)
     IN \/ /\ verdict = "HOLD"
           /\ reservations' = [reservations EXCEPT ![keyOf(r)] = p]
           /\ loc' = [loc EXCEPT ![p] = candidateOf(r)]
           /\ Goto(p, "held")
           /\ UNCHANGED <<req, woken, cancelled, result>>
        \/ /\ verdict = "WAIT"
           /\ Goto(p, "await")
           /\ UNCHANGED <<reservations, loc, req, woken, cancelled, result>>
        \/ /\ verdict = "EXISTS"
           /\ FinishRead(p, "EXISTS", 0, <<>>)
           /\ UNCHANGED <<reservations, loc>>
        \/ /\ verdict \notin {"HOLD", "WAIT", "EXISTS"}
           /\ Finish(p, verdict, IF verdict = "REPLAYED" THEN idempotency[r.key].generation
                                                         ELSE 0, <<>>)
           /\ UNCHANGED <<reservations, loc>>
  /\ UNCHANGED <<store, failNextEvent, waits>>

\* <-reservation.done fires; the caller starts over.
Awake(p) ==
  /\ pc[p] = "await"
  /\ p \in woken
  /\ woken' = woken \ {p}
  /\ Goto(p, "reserve")
  /\ UNCHANGED <<store, failNextEvent, reservations, waits, req, loc, cancelled, result>>

-----------------------------------------------------------------------------
(* Between the critical sections.                                            *)

\* The event failure seen under the first lock is consumed under another one:
\* of two mutations that saw it, the second finds it gone and carries on.
FailEvent(p) ==
  /\ pc[p] = "held"
  /\ p \notin cancelled
  /\ loc[p].failEvent
  /\ IF owns(p) /\ ~ failNextEvent
       THEN Goto(p, "clock") /\ UNCHANGED <<req, woken, cancelled, result>>
       ELSE Decide(p, IF owns(p) THEN "UNAVAILABLE" ELSE "INTERNAL", 0)
  /\ failNextEvent' = (failNextEvent /\ ~ owns(p))
  /\ UNCHANGED <<store, reservations, waits, loc>>

\* Clock.Now runs without the mutex and may return any time, earlier ones too.
ReadClock(p) ==
  /\ \/ pc[p] = "held" /\ p \notin cancelled /\ ~ loc[p].failEvent
     \/ pc[p] = "clock"
     \/ pc[p] = "stamp" /\ p \notin cancelled
  /\ \E now \in Times :
       /\ loc' = [loc EXCEPT ![p].now = now]
       /\ Goto(p, IF pc[p] = "stamp" THEN "list" ELSE "commit")
  /\ UNCHANGED <<store, failNextEvent, reservations, waits, req, woken, cancelled, result>>

\* Clock.Now panics or returns the zero time.
ClockFails(p) ==
  /\ \/ /\ \/ pc[p] = "held" /\ p \notin cancelled /\ ~ loc[p].failEvent
           \/ pc[p] = "clock"
        /\ Decide(p, "INTERNAL", 0)
     \/ /\ pc[p] = "stamp" /\ p \notin cancelled
        /\ Finish(p, "INTERNAL", 0, <<>>)
  /\ UNCHANGED <<store, failNextEvent, reservations, waits, loc>>

\* Mutant: the early return forgets the reservation.
AbandonWithoutRelease(p) ==
  /\ pc[p] \in {"held", "commit"}
  /\ p \in cancelled
  /\ Finish(p, "CANCELLED", 0, <<>>)
  /\ UNCHANGED <<store, failNextEvent, reservations, waits, loc>>

\* The context is found done at one of the checks between the two sections.
Abandon(p) ==
  /\ pc[p] \in {"held", "commit"}
  /\ p \in cancelled
  /\ Decide(p, "CANCELLED", 0)
  /\ UNCHANGED <<store, failNextEvent, reservations, waits, loc>>

-----------------------------------------------------------------------------
(* Second critical section: revalidate everything, then commit with the      *)
(* state event.                                                              *)

publishCommitVerdict(r) ==
  IF revisions[r.id] # Nil THEN "EXISTS"
  ELSE IF sequencesExhausted THEN "RESOURCE_EXHAUSTED"
  ELSE "OK"

activateCommitVerdict(r, base) ==
  IF revisions[r.target] = Nil THEN "NOT_FOUND"
  ELSE IF ~ activationExpectationMatches(r.expectation, slots[r.slot]) THEN "CONFLICT"
  ELSE IF slots[r.slot].current.generation = MaxUint64 THEN "RESOURCE_EXHAUSTED"
  ELSE IF slots[r.slot].current.generation # base THEN "CONFLICT"
  ELSE IF sequencesExhausted THEN "RESOURCE_EXHAUSTED"
  ELSE "OK"

\* state.current != base compares version pointers; a generation has one version.
writeCommitVerdict(r, base) ==
  IF generation # r.expected \/ generation # base THEN "CONFLICT"
  ELSE IF revisions[r.revision] = Nil THEN "NOT_FOUND"
  ELSE IF idempotency[r.key].generation # 0 THEN replayVerdict(r)
  ELSE IF sequencesExhausted THEN "RESOURCE_EXHAUSTED"
  ELSE "OK"

commitVerdict(p) ==
  LET r == req[p]
  IN IF ~ owns(p) THEN "INTERNAL"
     ELSE CASE r.op = "publish"  -> publishCommitVerdict(r)
            [] r.op = "activate" -> activateCommitVerdict(r, loc[p].generation)
            [] OTHER             -> writeCommitVerdict(r, loc[p].generation)

CommitRevision(p, now) ==
  LET r == req[p]
  IN /\ r.op = "publish"
     /\ revisions' = [revisions EXCEPT ![r.id] = r.metadata]
     /\ appendEvent(RevisionPublished(nextEventSequence, r.id, now))
     /\ Decide(p, "OK", 0)
     /\ UNCHANGED <<slots, generation, contents, idempotency, waits>>

CommitActivation(p, now) ==
  LET r == req[p]
      activation == [revision |-> r.target, generation |-> loc[p].generation + 1, at |-> now]
  IN /\ r.op = "activate"
     /\ slots' = [slots EXCEPT ![r.slot] = activated(slots[r.slot], activation)]
     /\ appendEvent(SlotActivated(nextEventSequence, r.slot, activation))
     /\ Decide(p, "OK", activation.generation)
     /\ UNCHANGED <<revisions, generation, contents, idempotency, waits>>

\* Mutant: the commit wakes nobody.
notifyNobody == UNCHANGED waits

\* Drops the generationWait from the store and closes its channel.
notifyGenerationWaiters ==
  /\ waitRefs' = 0
  /\ waitOn' = [q \in Procs |-> IF waitOn[q] = "live" THEN "closed" ELSE waitOn[q]]

\* Mutant: the record keeps the generation the write started from.
CommitDataOldGeneration(p, now) ==
  LET r == req[p]
      next == loc[p].generation + 1
  IN /\ r.op = "write"
     /\ generation' = next
     /\ contents' = loc[p].contents
     /\ idempotency' = [idempotency EXCEPT ![r.key] =
          [fingerprint |-> FingerprintWriteData(r), generation |-> loc[p].generation]]
     /\ notifyGenerationWaiters
     /\ appendEvent(DataWritten(nextEventSequence, next, now))
     /\ Decide(p, "OK", next)
     /\ UNCHANGED <<revisions, slots>>

CommitData(p, now) ==
  LET r == req[p]
      next == loc[p].generation + 1
  IN /\ r.op = "write"
     /\ generation' = next
     /\ contents' = loc[p].contents
     /\ idempotency' = [idempotency EXCEPT ![r.key] =
          [fingerprint |-> FingerprintWriteData(r), generation |-> next]]
     /\ notifyGenerationWaiters
     /\ appendEvent(DataWritten(nextEventSequence, next, now))
     /\ Decide(p, "OK", next)
     /\ UNCHANGED <<revisions, slots>>

Commit(p) ==
  /\ pc[p] = "commit"
  /\ p \notin cancelled
  /\ commitVerdict(p) = "OK"
  /\ LET now == effectiveTimeLocked(loc[p].now)
     IN \/ CommitRevision(p, now)
        \/ CommitActivation(p, now)
        \/ CommitData(p, now)
  /\ UNCHANGED <<failNextEvent, reservations, loc>>

\* Revalidation failed: nothing is published.
Refuse(p) ==
  /\ pc[p] = "commit"
  /\ p \notin cancelled
  /\ commitVerdict(p) # "OK"
  /\ Decide(p, commitVerdict(p), IF commitVerdict(p) = "REPLAYED"
                                 THEN idempotency[req[p].key].generation ELSE 0)
  /\ UNCHANGED <<store, failNextEvent, reservations, waits, loc>>

\* Mutant: the reservation is deleted, its done channel is not closed.
ReleaseSilently(p) ==
  /\ pc[p] = "release"
  /\ Goto(p, "done")
  /\ reservations' = [reservations EXCEPT ![keyOf(req[p])] = Nobody]
  /\ UNCHANGED <<store, failNextEvent, waits, req, loc, woken, cancelled, result>>

\* Third critical section: drop the reservation if it is still ours and close
\* its done channel.
Release(p) ==
  LET key == keyOf(req[p])
  IN /\ pc[p] = "release"
     /\ Goto(p, "done")
     /\ IF owns(p)
          THEN /\ reservations' = [reservations EXCEPT ![key] = Nobody]
               /\ woken' = woken \cup {q \in Procs : pc[q] = "await" /\ keyOf(req[q]) = key}
          ELSE UNCHANGED <<reservations, woken>>
     /\ UNCHANGED <<store, failNextEvent, waits, req, loc, cancelled, result>>

-----------------------------------------------------------------------------
(* OpenSnapshot: pin the current version, or wait for the generation.        *)

OpenSnapshot(p) ==
  /\ pc[p] = "open"
  /\ p \notin cancelled
  /\ \/ /\ generation >= req[p].minimum
        /\ FinishRead(p, "OK", generation, <<>>)
        /\ UNCHANGED waits
     \/ /\ generation < req[p].minimum
        /\ waitRefs' = waitRefs + 1
        /\ waitOn' = [waitOn EXCEPT ![p] = "live"]
        /\ Goto(p, "park")
        /\ UNCHANGED <<req, woken, cancelled, result>>
  /\ UNCHANGED <<store, failNextEvent, reservations, loc>>

\* The select: the channel is closed, or the context is done.
Unpark(p) ==
  /\ pc[p] = "park"
  /\ \/ waitOn[p] = "closed" /\ UNCHANGED result
     \/ p \in cancelled /\ Answer(p, "CANCELLED", 0, <<>>)
  /\ Goto(p, "unpark")
  /\ UNCHANGED <<store, failNextEvent, reservations, waits, req, loc, woken, cancelled>>

\* Mutant: a wait that was already notified is counted down too.
unregisterTwice(p) ==
  LET last == waitRefs = 1
  IN /\ waitRefs' = IF waitRefs > 0 THEN waitRefs - 1 ELSE 0
     /\ waitOn' = [q \in Procs |-> IF q = p THEN "none"
                                   ELSE IF last /\ waitOn[q] = "live" THEN "orphan"
                                   ELSE waitOn[q]]

\* Unregistering from a wait that was already notified does nothing.  Dropping
\* the last reference forgets the wait: whoever still parked on it would never
\* be notified ("orphan").
unregisterGenerationWait(p) ==
  LET last == waitOn[p] = "live" /\ waitRefs = 1
  IN /\ waitRefs' = IF waitOn[p] = "live" THEN waitRefs - 1 ELSE waitRefs
     /\ waitOn' = [q \in Procs |-> IF q = p THEN "none"
                                   ELSE IF last /\ waitOn[q] = "live" THEN "orphan"
                                   ELSE waitOn[q]]

Unregister(p) ==
  /\ pc[p] = "unpark"
  /\ unregisterGenerationWait(p)
  /\ Goto(p, IF result[p].status = "CANCELLED" THEN "done" ELSE "open")
  /\ UNCHANGED <<store, failNextEvent, reservations, req, loc, woken, cancelled, result>>

-----------------------------------------------------------------------------
(* Reads under one lock.                                                     *)

\* The first `limit` positions after the cursor; sort.Search over ascending
\* positions finds how many are at or before it.
pageAfter(positions, cursor, limit) ==
  LET start == Cardinality({i \in 1..Len(positions) : positions[i] <= cursor})
      end == IF start + limit <= Len(positions) THEN start + limit ELSE Len(positions)
  IN SubSeq(positions, start + 1, end)

\* ListEvents prunes before it reads; cursor 0 is the empty cursor.
ListEvents(p) ==
  LET r == req[p]
      now == effectiveTimeLocked(loc[p].now)
      values == prunedValues(events, now)
      through == prunedThrough(events, expiredThrough, now)
  IN /\ pc[p] = "list"
     /\ p \notin cancelled
     /\ effectiveTime' = now
     /\ events' = values
     /\ expiredThrough' = through
     /\ IF r.cursor # 0 /\ r.cursor <= through
          THEN Finish(p, "CURSOR_EXPIRED", 0, <<>>)
          ELSE FinishRead(p, "OK", 0,
                 pageAfter([i \in 1..Len(values) |-> values[i].sequence], r.cursor, r.limit))
     /\ UNCHANGED <<revisions, slots, generation, contents, idempotency,
                    failNextEvent, reservations, waits, loc>>

ListActivationHistory(p) ==
  LET r == req[p]
      history == slots[r.slot].history
  IN /\ r.op = "history"
     /\ IF r.cursor # 0 /\ history # <<>> /\ r.cursor < history[1].generation
          THEN Finish(p, "CURSOR_EXPIRED", 0, <<>>)
          ELSE FinishRead(p, "OK", 0,
                 pageAfter([i \in 1..Len(history) |-> history[i].generation], r.cursor, r.limit))

Resolve(p) ==
  LET current == slots[req[p].slot].current
  IN /\ req[p].op = "resolve"
     /\ FinishRead(p, IF current.generation = 0 THEN "NOT_FOUND" ELSE "OK", current.generation, <<>>)

GetRevision(p) ==
  /\ req[p].op = "revision"
  /\ FinishRead(p, IF revisions[req[p].id] = Nil THEN "NOT_FOUND" ELSE "OK", 0, <<>>)

GetDataGeneration(p) ==
  /\ req[p].op = "generation"
  /\ FinishRead(p, "OK", generation, <<>>)

Read(p) ==
  /\ pc[p] = "read"
  /\ p \notin cancelled
  /\ \/ ListActivationHistory(p)
     \/ Resolve(p)
     \/ GetRevision(p)
     \/ GetDataGeneration(p)
  /\ UNCHANGED <<store, failNextEvent, reservations, waits, loc>>

-----------------------------------------------------------------------------
(* Callers and environment.                                                  *)

\* Cursors are authenticated: a caller holds only positions that were issued.
cursorIssued(r) ==
  /\ r.op = "events" => r.cursor <= highWater(events, expiredThrough)
  /\ r.op = "history" => r.cursor <= slots[r.slot].current.generation

entry(r) ==
  CASE r.op \in Mutations -> "reserve"
    [] r.op = "snapshot" -> "open"
    [] r.op = "events" -> "stamp"
    [] OTHER -> "read"

Call(p) ==
  /\ pc[p] = "idle"
  /\ \E r \in Requests :
       /\ cursorIssued(r)
       /\ req' = [req EXCEPT ![p] = r]
       /\ Goto(p, entry(r))
  /\ UNCHANGED <<store, failNextEvent, reservations, waits, loc, woken, cancelled, result>>

\* The context is found done before anything is held or registered.
GiveUp(p) ==
  /\ pc[p] \in {"reserve", "await", "open", "stamp", "list", "read"}
  /\ p \in cancelled
  /\ Goto(p, "done")
  /\ Answer(p, "CANCELLED", 0, <<>>)
  /\ woken' = woken \ {p}
  /\ UNCHANGED <<store, failNextEvent, reservations, waits, req, loc, cancelled>>

Return(p) ==
  /\ pc[p] = "done"
  /\ Goto(p, "idle")
  /\ req' = [req EXCEPT ![p] = NoRequest]
  /\ loc' = [loc EXCEPT ![p] = NoLocal]
  /\ result' = [result EXCEPT ![p] = NoResult]
  /\ cancelled' = cancelled \ {p}
  /\ UNCHANGED <<store, failNextEvent, reservations, waits, woken>>

Cancel(p) ==
  /\ pc[p] \notin {"idle", "done"}
  /\ cancelled' = cancelled \cup {p}
  /\ UNCHANGED <<store, failNextEvent, reservations, waits, pc, req, loc, woken, result>>

armNextEventFailure ==
  /\ failNextEvent' = TRUE
  /\ UNCHANGED <<store, reservations, waits, pc, req, loc, woken, cancelled, result>>

\* A commit or ListEvents in another namespace moves the shared clock only.
ElsewhereCommit ==
  /\ \E now \in Times : effectiveTime' = effectiveTimeLocked(now)
  /\ UNCHANGED <<revisions, slots, generation, contents, idempotency, events, expiredThrough,
                 failNextEvent, reservations, waits, pc, req, loc, woken, cancelled, result>>

\* What the scheduler owes a goroutine once its call is under way.
Step(p) ==
  \/ Reserve(p) \/ Awake(p) \/ FailEvent(p) \/ ReadClock(p) \/ ClockFails(p)
  \/ Abandon(p) \/ Commit(p) \/ Refuse(p) \/ Release(p)
  \/ OpenSnapshot(p) \/ Unpark(p) \/ Unregister(p)
  \/ ListEvents(p) \/ Read(p) \/ GiveUp(p)

Next ==
  \/ \E p \in Procs : Step(p) \/ Call(p) \/ Return(p) \/ Cancel(p)
  \/ armNextEventFailure
  \/ ElsewhereCommit

Spec == Init /\ [][Next]_vars

FairSpec == Spec /\ \A p \in Procs : WF_vars(Step(p))

-----------------------------------------------------------------------------
(* Properties.                                                               *)

\* Every variable keeps its type: counters stay within uint64 (no candidate can
\* overflow its generation), a control point is only reached by the calls that
\* have it, and each retained event is well formed.
TypeOK ==
  /\ revisions \in [RevisionIds -> Metadata \cup {Nil}]
  /\ slots \in [Slots -> SlotState]
  /\ generation \in Counter
  /\ contents \in SUBSET Paths
  /\ idempotency \in [IdempotencyKeys -> IdempotencyState \cup {NoRecord}]
  /\ events \in Seq(Event)
  /\ expiredThrough \in Counter
  /\ effectiveTime \in Times \cup {0}
  /\ failNextEvent \in BOOLEAN
  /\ reservations \in [ReservationKey -> Procs \cup {Nobody}]
  /\ waitRefs \in Int
  /\ waitOn \in [Procs -> {"none", "live", "closed", "orphan"}]
  /\ pc \in [Procs -> PC]
  /\ req \in [Procs -> Requests \cup {NoRequest}]
  /\ \A p \in Procs : req[p].op \in callsAt(pc[p])
  /\ loc \in [Procs -> Local]
  /\ woken \in SUBSET Procs
  /\ cancelled \in SUBSET Procs
  /\ result \in [Procs -> Result]

\* A goroutine between its first and third critical section owns the reservation
\* of its commit domain, and a reservation is never left behind by a goroutine
\* that is not there: every early return of a mutation releases what it took.
ReservationsExact ==
  /\ \A p \in Procs : pc[p] \in Holding => owns(p)
  /\ \A k \in ReservationKey : reservations[k] # Nobody =>
       pc[reservations[k]] \in Holding /\ keyOf(req[reservations[k]]) = k

\* Although Clock.Now runs without the mutex, what a mutation validated under its
\* first lock still holds when it commits: the reservation makes the second round
\* of checks redundant, except for the event sequence all domains share.
ValidatedStaysValid ==
  \A p \in Procs : pc[p] \in {"held", "clock", "commit"} =>
    commitVerdict(p) \in {"OK", "RESOURCE_EXHAUSTED"}
    /\ (commitVerdict(p) = "RESOURCE_EXHAUSTED" => sequencesExhausted)

\* Each generation from 1 to the current one was produced by exactly one
\* idempotency record, whatever replays, conflicts and cancellations happened.
GenerationsRecordedOnce ==
  /\ \A k \in IdempotencyKeys : idempotency[k].generation <= generation
  /\ \A j, k \in IdempotencyKeys :
       idempotency[j].generation = idempotency[k].generation /\ j # k
         => idempotency[j].generation = 0
  /\ \A g \in 1..generation : \E k \in IdempotencyKeys : idempotency[k].generation = g

\* Retained events carry consecutive sequences that continue where the expired
\* ones stopped, and their times never decrease although the clock may step back.
StreamContiguous ==
  /\ \A i \in 1..Len(events) : events[i].sequence = expiredThrough + i
  /\ \A i, j \in 1..Len(events) : i <= j => events[i].at <= events[j].at
  /\ \A i \in 1..Len(events) : events[i].at <= effectiveTime
  /\ Len(events) <= EventRetentionLimit

\* A slot's history is the newest consecutive generations, ends at the current
\* activation, and names only revisions that are published.
HistoryIsSuffix ==
  \A s \in Slots :
    LET history == slots[s].history
        current == slots[s].current
    IN /\ Len(history) = IF current.generation < HistoryRetention
                            THEN current.generation ELSE HistoryRetention
       /\ history # <<>> => history[Len(history)] = current
       /\ \A i \in 1..Len(history) :
            /\ history[i].generation = current.generation - Len(history) + i
            /\ revisions[history[i].revision] # Nil

\* No stored attribute path is a strict prefix of another, across any number of
\* writes by concurrent callers.
ContentsPrefixFree == PrefixFree(contents)

\* A snapshot opener that is parked on a wait nobody has closed is one whose
\* generation is not there yet, and the store still knows its wait, whoever left
\* the shared and counted wait before it, notified or cancelled.
NoLostWakeup ==
  \A p \in Procs : pc[p] = "park" /\ waitOn[p] # "closed" =>
    waitOn[p] = "live" /\ generation < req[p].minimum

\* A page that follows a cursor starts right after it and skips nothing; a
\* caller that fell behind retention gets CURSOR_EXPIRED instead.
PagesHaveNoGap ==
  \A p \in Procs :
    pc[p] = "done" /\ req[p].op \in {"events", "history"} /\ result[p].status = "OK" =>
      LET page == result[p].page
      IN \A i \in 1..Len(page) :
           page[i] = (IF req[p].cursor = 0 THEN page[1] ELSE req[p].cursor + 1) + i - 1

\* An acknowledged write stays acknowledged: its record carries the generation
\* the caller was given.
AcknowledgedWritesRecorded ==
  \A p \in Procs :
    req[p].op = "write" /\ result[p].status \in {"OK", "REPLAYED"} =>
      idempotency[req[p].key] = [fingerprint |-> FingerprintWriteData(req[p]),
                                 generation |-> result[p].generation]

\* A caller waiting for somebody else's reservation is always released from it.
AwaitersLeave == \A p \in Procs : pc[p] = "await" ~> pc[p] # "await"

\* An opener whose minimum generation is committed gets its answer.
SnapshotsOpen ==
  \A p \in Procs :
    pc[p] \in {"open", "park", "unpark"} /\ generation >= req[p].minimum ~> pc[p] = "done"

=============================================================================
