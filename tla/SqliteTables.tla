---------------------------- MODULE SqliteTables ----------------------------
(***************************************************************************)
(* store/sqlite: the tables of one namespace, the closures that the writer *)
(* runs over them in one transaction, and the pages that reads cut out of  *)
(* them.                                                                   *)
(***************************************************************************)
EXTENDS StoreTypes, FiniteSetsExt

-----------------------------------------------------------------------------
(* The database.  The namespace_heads row exists once a sequence was issued. *)

\* strictAttributePrefixes
strictPrefixes(path) == {SubSeq(path, 1, length) : length \in 1..(Len(path) - 1)}

Ancestors == UNION {strictPrefixes(path) : path \in Paths}

Tables ==
  [revisions : [RevisionIds -> Metadata \cup {Nil}], slots : [Slots -> SlotState],
   generation : Counter, contents : SUBSET Paths, ancestors : SUBSET (Paths \X Ancestors),
   idempotency : [IdempotencyKeys -> IdempotencyState \cup {NoRecord}],
   events : Seq(Event), sequence : Counter, expiredThrough : Counter,
   effectiveTime : Times \cup {0}]

EmptyTables ==
  [revisions |-> [id \in RevisionIds |-> Nil], slots |-> [s \in Slots |-> UnsetSlot],
   generation |-> 0, contents |-> {}, ancestors |-> {}, idempotency |-> [k \in IdempotencyKeys |-> NoRecord],
   events |-> <<>>, sequence |-> 0, expiredThrough |-> 0, effectiveTime |-> 0]

effectiveNow(t, candidate) == Larger(t.effectiveTime, candidate)

\* Rows are kept in the order of their primary key, so the ones whose key is at most
\* a bound come first: how many they are.
rowsUpTo(keys, bound) == Cardinality({i \in DOMAIN keys : keys[i] <= bound})

sequences(events) == [i \in DOMAIN events |-> events[i].sequence]
generations(history) == [i \in DOMAIN history |-> history[i].generation]

\* The newest sequence that is too old, and the newest beyond the retained count.
timeCutoff(t, now) ==
  Max({0} \cup {t.events[i].sequence :
                  i \in {j \in DOMAIN t.events : t.events[j].at <= now - EventRetention}})

countCutoff(t) ==
  IF Len(t.events) > EventRetentionLimit
    THEN t.events[Len(t.events) - EventRetentionLimit].sequence ELSE 0

pruneEvents(t, now) ==
  LET cutoff == Larger(timeCutoff(t, now), countCutoff(t))
      expired == rowsUpTo(sequences(t.events), cutoff)
  IN [t EXCEPT !.events = SubSeq(@, expired + 1, Len(@)), !.expiredThrough = Larger(@, cutoff)]

\* effectiveNow and appendStateEvent of one transaction.
appendStateEvent(t, event) ==
  pruneEvents([t EXCEPT !.sequence = event.sequence, !.effectiveTime = event.at,
                        !.events = Append(@, event)], event.at)

\* pruneActivationHistory keeps the newest rows from retainedTail on.
pruneActivationHistory(history) ==
  IF Len(history) < HistoryRetention THEN history
  ELSE LET retainedTail == history[Len(history) - HistoryRetention + 1].generation
           dropped == rowsUpTo(generations(history), retainedTail - 1)
       IN SubSeq(history, dropped + 1, Len(history))

-----------------------------------------------------------------------------
(* The closures, in the order of their checks.  A candidate time of 0 stands *)
(* for a clock that fails; an outcome carries the tables to commit.          *)

outcome(status, gen, t) == [status |-> status, generation |-> gen, tables |-> t]

\* Mutant: the sequence is taken to be endless.
stampVerdictEndless(t, candidate) == IF candidate = 0 THEN "INTERNAL" ELSE "OK"

\* effectiveNow, then nextEventSequence: the last two checks of each mutation.
stampVerdict(t, candidate) ==
  IF candidate = 0 THEN "INTERNAL"
  ELSE IF t.sequence = MaxUint64 THEN "RESOURCE_EXHAUSTED" ELSE "OK"

\* Mutant: an identical revision is published again.
republishVerdict(t, r, candidate) == stampVerdict(t, candidate)

putRevisionVerdict(t, r, candidate) ==
  IF t.revisions[r.id] # Nil THEN "EXISTS" ELSE stampVerdict(t, candidate)

PutRevision(t, r, candidate) ==
  LET verdict == putRevisionVerdict(t, r, candidate)
      event == RevisionPublished(t.sequence + 1, r.id, effectiveNow(t, candidate))
  IN outcome(verdict, 0,
       IF verdict = "OK"
         THEN appendStateEvent([t EXCEPT !.revisions[r.id] = r.metadata], event) ELSE t)

activateVerdict(t, r, candidate) ==
  LET slot == t.slots[r.slot]
  IN IF t.revisions[r.target] = Nil THEN "NOT_FOUND"
     ELSE IF ~ activationExpectationMatches(r.expectation, slot) THEN "CONFLICT"
     ELSE IF slot.current.generation >= MaxUint64 THEN "RESOURCE_EXHAUSTED"
     ELSE stampVerdict(t, candidate)

Activate(t, r, candidate) ==
  LET verdict == activateVerdict(t, r, candidate)
      slot == t.slots[r.slot]
      activation == [revision |-> r.target, generation |-> slot.current.generation + 1,
                     at |-> effectiveNow(t, candidate)]
      history == pruneActivationHistory(Append(slot.history, activation))
  IN IF verdict # "OK" THEN outcome(verdict, 0, t)
     ELSE outcome("OK", activation.generation,
            appendStateEvent([t EXCEPT !.slots[r.slot] =
                                [current |-> activation, history |-> history]],
                             SlotActivated(t.sequence + 1, r.slot, activation)))

\* Mutant: the ancestor rows of a deleted attribute stay.
afterDeletesNoCascade(t, r) == [t EXCEPT !.contents = @ \ r.deletes]

\* The rows of attributes and attribute_ancestors once the deletes of a request ran;
\* the foreign key deletes an attribute's ancestor rows with it.
afterDeletes(t, r) ==
  [t EXCEPT !.contents = @ \ r.deletes, !.ancestors = {row \in @ : row[1] \notin r.deletes}]

\* ensureNoAttributeConflict: a prefix of the path is an attribute, or the path is
\* the ancestor of one.
attributeConflict(t, path) ==
  \/ strictPrefixes(path) \cap t.contents # {}
  \/ \E row \in t.ancestors : row[2] = path

\* upsertAttribute replaces the row and its ancestor rows.
upsertAttributes(t, r) ==
  [t EXCEPT !.contents = @ \cup r.writes,
            !.ancestors = {row \in @ : row[1] \notin r.writes}
                          \cup UNION {{path} \X strictPrefixes(path) : path \in r.writes}]

\* No written path is refused.  A request's own paths never conflict (validWrite),
\* so the order of its upserts does not matter.
writesFit(t, r) == \A path \in r.writes : ~ attributeConflict(afterDeletes(t, r), path)

writeDataVerdict(t, r, candidate) ==
  LET record == t.idempotency[r.key]
  IN IF record.generation # 0
       THEN IF record.fingerprint = FingerprintWriteData(r) THEN "REPLAYED" ELSE "CONFLICT"
     ELSE IF t.revisions[r.revision] = Nil THEN "NOT_FOUND"
     ELSE IF r.expected # t.generation THEN "CONFLICT"
     ELSE IF t.generation = MaxUint64 THEN "RESOURCE_EXHAUSTED"
     ELSE IF ~ writesFit(t, r) THEN "CONFLICT"
     ELSE stampVerdict(t, candidate)

WriteData(t, r, candidate) ==
  LET verdict == writeDataVerdict(t, r, candidate)
      next == t.generation + 1
  IN CASE verdict = "OK" ->
            outcome("OK", next,
              appendStateEvent(
                [upsertAttributes(afterDeletes(t, r), r) EXCEPT
                   !.generation = next,
                   !.idempotency[r.key] = [fingerprint |-> FingerprintWriteData(r),
                                           generation |-> next]],
                DataWritten(t.sequence + 1, next, effectiveNow(t, candidate))))
       [] verdict = "REPLAYED" -> outcome("REPLAYED", t.idempotency[r.key].generation, t)
       [] OTHER -> outcome(verdict, 0, t)

\* A namespace without a head row has no events to prune.
pruneEventsForRead(t, candidate) ==
  LET now == effectiveNow(t, candidate)
  IN outcome("OK", 0, IF t.sequence = 0 THEN t
                      ELSE pruneEvents([t EXCEPT !.effectiveTime = now], now))

-----------------------------------------------------------------------------
(* What a mutation is and which verdicts commit it; pages.                   *)

Mutations == {"publish", "activate", "write"}

Accepted == {"OK", "EXISTS", "REPLAYED"}

\* The rows after the cursor, cut to the limit once it is known that more follow.
rowsAfter(positions, cursor, limit) ==
  LET start == rowsUpTo(positions, cursor)
  IN SubSeq(positions, start + 1, Min({start + limit, Len(positions)}))

=============================================================================
