------------------------- MODULE MemoryStore_proofs -------------------------
(***************************************************************************)
(* Lemmas about the in-memory store, for any number of goroutines, slots,  *)
(* keys and revisions and any bounds: types, reservations, waits for a     *)
(* generation and acknowledgements are kept by every step.                 *)
(***************************************************************************)
EXTENDS MemoryStore, Counting, TLAPS

-----------------------------------------------------------------------------
(* Facts about the pure helpers.                                             *)

\* The page of an answer that has none.
LEMMA EmptyList == \A S : <<>> \in Seq(S)
  OBVIOUS

\* What Append and SubSeq make of a sequence.
LEMMA Appended ==
  ASSUME NEW S, NEW s \in Seq(S), NEW x \in S
  PROVE  /\ Append(s, x) \in Seq(S) /\ Len(Append(s, x)) = Len(s) + 1 /\ Len(s) \in Nat
         /\ Append(s, x)[Len(s) + 1] = x
         /\ \A i \in 1..Len(s) : Append(s, x)[i] = s[i]
  OBVIOUS

\* A slice has the members it is cut out of.
LEMMA Sliced ==
  ASSUME NEW S, NEW s, NEW m \in Int, NEW n \in Int, \A i \in m..n : s[i] \in S
  PROVE  /\ SubSeq(s, m, n) \in Seq(S)
         /\ Len(SubSeq(s, m, n)) = IF m <= n THEN n - m + 1 ELSE 0
         /\ \A i \in 1..(n - m + 1) : SubSeq(s, m, n)[i] = s[m + i - 1]
  OBVIOUS

\* The numeric fields of an event are numbers.
LEMMA EventFields ==
  ASSUME NEW event \in Event
  PROVE  /\ event.at \in Times /\ event.at \in Nat \ {0}
         /\ event.sequence \in Counter /\ event.sequence \in Nat \ {0}
<1>1. event.at \in Times /\ event.sequence \in Counter \ {0}
  BY DEF Event
<1>2. event.at \in Nat \ {0}
  BY <1>1, TimesAssumption, Zenon
<1>3. event.sequence \in Counter /\ event.sequence \in Nat \ {0}
  BY <1>1, BoundsAssumption DEF Counter
<1> QED
  BY <1>1, <1>2, <1>3

\* pruneEventsLocked never cuts more events than there are.
LEMMA PruneCutBound ==
  ASSUME CountsPositions, NEW values \in Seq(Event), NEW now \in Int
  PROVE  pruneCut(values, now) \in 0..Len(values)
<1> DEFINE S == {i \in 1..Len(values) : values[i].at <= now - EventRetention}
<1>1. Len(values) \in Nat
  OBVIOUS
<1>2. Cardinality(S) \in 0..Len(values)
  BY <1>1 DEF CountsPositions
<1>3. timeCut(values, now) \in 0..Len(values)
  BY <1>2 DEF timeCut
<1>4. countCut(values) \in 0..Len(values)
  BY <1>1, BoundsAssumption DEF countCut
<1> QED
  BY <1>3, <1>4 DEF pruneCut, Larger

\* An event stamped with the time it is pruned against survives its own append.
LEMMA AppendCutBound ==
  ASSUME CountsPositions, NEW values \in Seq(Event), NEW event \in Event
  PROVE  pruneCut(Append(values, event), event.at) \in 0..Len(values)
<1> DEFINE all == Append(values, event)
           S == {i \in 1..Len(all) : all[i].at <= event.at - EventRetention}
<1>1. /\ all \in Seq(Event)
      /\ Len(all) = Len(values) + 1
      /\ Len(values) \in Nat
      /\ all[Len(values) + 1] = event
  BY Appended
<1>2. event.at \in Nat
  BY EventFields
<1>3. ~ (event.at <= event.at - EventRetention)
  BY <1>2, BoundsAssumption
<1>4. S \in SUBSET (1..Len(values))
  BY <1>1, <1>3
<1>5. timeCut(all, event.at) \in 0..Len(values)
  <2>1. Cardinality(S) \in 0..Len(values)
    BY <1>1, <1>4, Zenon DEF CountsPositions
  <2> QED
    BY <2>1, Zenon DEF timeCut
<1>6. countCut(all) \in 0..Len(values)
  BY <1>1, BoundsAssumption DEF countCut
<1> QED
  BY <1>5, <1>6 DEF pruneCut, Larger

\* Pruning keeps a suffix of the stream.
LEMMA PrunedStream ==
  ASSUME CountsPositions, NEW values \in Seq(Event), NEW now \in Int
  PROVE  LET cut == pruneCut(values, now)
         IN /\ prunedValues(values, now) \in Seq(Event)
            /\ Len(prunedValues(values, now)) = Len(values) - cut
            /\ \A i \in 1..(Len(values) - cut) : prunedValues(values, now)[i] = values[cut + i]
<1> DEFINE cut == pruneCut(values, now)
<1>1. cut \in 0..Len(values) /\ Len(values) \in Nat
  BY PruneCutBound
<1>2. \A i \in (cut + 1)..Len(values) : values[i] \in Event
  BY <1>1
<1> HIDE DEF cut
<1>3. /\ SubSeq(values, cut + 1, Len(values)) \in Seq(Event)
      /\ Len(SubSeq(values, cut + 1, Len(values))) =
           IF cut + 1 <= Len(values) THEN Len(values) - (cut + 1) + 1 ELSE 0
      /\ \A i \in 1..(Len(values) - (cut + 1) + 1) :
           SubSeq(values, cut + 1, Len(values))[i] = values[(cut + 1) + i - 1]
  <2>1. cut + 1 \in Int /\ Len(values) \in Int
    BY <1>1
  <2> QED
    BY <1>2, <2>1, Sliced
<1>4. prunedValues(values, now) = SubSeq(values, cut + 1, Len(values))
  BY DEF prunedValues, cut
<1>5. Len(prunedValues(values, now)) = Len(values) - cut
  BY <1>1, <1>3, <1>4
<1>6. \A i \in 1..(Len(values) - cut) : prunedValues(values, now)[i] = values[cut + i]
  BY <1>1, <1>3, <1>4
<1> QED
  BY <1>3, <1>4, <1>5, <1>6, Zenon DEF cut

\* A request has the fields of its operation.
LEMMA RequestShape ==
  ASSUME NEW r \in Requests \cup {NoRequest}
  PROVE  /\ r.op = "publish" => r.id \in RevisionIds /\ r.metadata \in Metadata
         /\ r.op = "activate" => /\ r.slot \in Slots /\ r.target \in RevisionIds
                                /\ r.expectation \in Expectation
         /\ r.op = "write" => /\ r.key \in IdempotencyKeys /\ r.revision \in RevisionIds
                             /\ r.expected \in Counter
                             /\ r.deletes \in SUBSET Paths /\ r.writes \in SUBSET Paths
                             /\ FingerprintWriteData(r) \in Fingerprint
         /\ r.op = "snapshot" => r.minimum \in Counter
         /\ r.op = "events" => r.cursor \in Counter /\ r.limit \in Nat \ {0}
         /\ r.op = "history" => /\ r.slot \in Slots /\ r.cursor \in Counter
                               /\ r.limit \in Nat \ {0}
         /\ r.op = "resolve" => r.slot \in Slots
         /\ r.op = "revision" => r.id \in RevisionIds
         /\ r \in Requests => r.op \in Mutations \cup {"snapshot", "events", "history",
                                                    "resolve", "revision", "generation"}
         /\ keyOf(r) \in ReservationKey
<1>1. CASE r \notin Requests
  BY <1>1 DEF NoRequest, keyOf, ReservationKey
<1>2. CASE r \in Requests
  <2>1. r \in Request
    BY <1>2, RequestsAssumption
  <2>2. CASE r.op \in {"publish", "activate", "write"}
    BY <2>1, <2>2 DEF Request, PublishRequest, ActivateRequest, WriteRequest, SnapshotRequest,
       ListEventsRequest, ListHistoryRequest, ResolveRequest, GetRevisionRequest,
       GetDataGenerationRequest, FingerprintWriteData, Fingerprint, keyOf, ReservationKey,
       Mutations
  <2>3. CASE r.op \notin {"publish", "activate", "write"}
    BY <2>1, <2>3 DEF Request, PublishRequest, ActivateRequest, WriteRequest, SnapshotRequest,
       ListEventsRequest, ListHistoryRequest, ResolveRequest, GetRevisionRequest,
       GetDataGenerationRequest, keyOf, ReservationKey, Mutations
  <2> QED
    BY <2>2, <2>3
<1> QED
  BY <1>1, <1>2

\* The last sequence issued is a counter value.
LEMMA HighWaterType ==
  ASSUME TypeOK
  PROVE  /\ highWater(events, expiredThrough) \in Counter
         /\ ~ sequencesExhausted => nextEventSequence \in Counter \ {0}
<1>1. highWater(events, expiredThrough) \in Counter
  <2>1. CASE events = <<>>
    BY <2>1, Zenon DEF highWater, TypeOK
  <2>2. CASE events # <<>>
    <3>1. Len(events) \in 1..Len(events)
      BY <2>2 DEF TypeOK
    <3>2. events[Len(events)] \in Event
      BY <3>1 DEF TypeOK
    <3> QED
      BY <2>2, <3>2 DEF highWater, Larger, TypeOK, Event, Counter
  <2> QED
    BY <2>1, <2>2
<1> QED
  BY <1>1, BoundsAssumption DEF sequencesExhausted, nextEventSequence, Counter

\* Appending a well-formed event keeps the stream well formed.
LEMMA AppendEventType ==
  ASSUME CountsPositions, TypeOK, NEW event \in Event, appendEvent(event)
  PROVE  /\ events' \in Seq(Event)
         /\ expiredThrough' \in Counter
         /\ effectiveTime' \in Times
<1> DEFINE values == Append(events, event)
           cut == pruneCut(values, event.at)
<1>1. values \in Seq(Event) /\ Len(values) = Len(events) + 1 /\ Len(events) \in Nat
  BY Appended DEF TypeOK
<1>2. event.at \in Times /\ event.at \in Int
  BY EventFields
<1>3. cut \in 0..Len(values)
  BY <1>1, <1>2, PruneCutBound, Zenon
<1>4. prunedValues(values, event.at) \in Seq(Event)
  BY <1>1, <1>2, PrunedStream, Zenon
<1>5. prunedThrough(values, expiredThrough, event.at) \in Counter
  <2>1. CASE cut = 0
    BY <2>1 DEF prunedThrough, TypeOK
  <2>2. CASE cut # 0
    <3>1. values[cut] \in Event
      BY <1>1, <1>3, <2>2
    <3> QED
      BY <2>2, <3>1, Zenon DEF prunedThrough, Larger, TypeOK, Event, Counter
  <2> QED
    BY <2>1, <2>2
<1> QED
  BY <1>2, <1>4, <1>5 DEF appendEvent

-----------------------------------------------------------------------------
(* Type correctness.                                                         *)

\* Activating a slot keeps it well formed.
LEMMA ActivatedType ==
  ASSUME NEW slot \in SlotState, NEW activation \in Activation
  PROVE  activated(slot, activation) \in SlotState
<1> DEFINE history == Append(slot.history, activation)
           dropped == IF Len(history) > HistoryRetention
                        THEN Len(history) - HistoryRetention ELSE 0
<1>1. slot.history \in Seq(Activation)
  BY DEF SlotState
<1>2. history \in Seq(Activation) /\ Len(history) \in Nat
  BY <1>1, Appended
<1>3. dropped \in Nat
  BY <1>2, BoundsAssumption
<1>4. \A i \in (dropped + 1)..Len(history) : history[i] \in Activation
  BY <1>2, <1>3
<1> HIDE DEF history, dropped
<1>5. SubSeq(history, dropped + 1, Len(history)) \in Seq(Activation)
  <2>1. dropped + 1 \in Int /\ Len(history) \in Int
    BY <1>2, <1>3
  <2> QED
    BY <1>4, <2>1, Sliced
<1> QED
  BY <1>5, Zenon DEF activated, SlotState, history, dropped

\* A candidate that keeps its reservation has room for one more generation.
LEMMA CandidateType ==
  ASSUME TypeOK, NEW r \in Requests, r.op \in Mutations, reserveVerdict(r) = "HOLD"
  PROVE  candidateOf(r) \in Local
<1>1. CASE r.op = "publish"
  BY <1>1, BoundsAssumption DEF candidateOf, Local, TypeOK
<1>2. CASE r.op = "activate"
  <2>1. slots[r.slot].current.generation \in Counter
    BY <1>2, RequestShape DEF TypeOK, SlotState, Activation
  <2>2. slots[r.slot].current.generation # MaxUint64
    BY <1>2, Zenon DEF reserveVerdict, activateVerdict
  <2>3. slots[r.slot].current.generation \in 0..(MaxUint64 - 1)
    BY <2>1, <2>2, BoundsAssumption DEF Counter
  <2> QED
    BY <1>2, <2>3, Zenon DEF candidateOf, Local, TypeOK
<1>3. CASE r.op = "write"
  <2>1. generation # MaxUint64
    BY <1>3 DEF reserveVerdict, writeVerdict, contendedVerdict, replayVerdict
  <2>2. generation \in 0..(MaxUint64 - 1)
    BY <2>1, BoundsAssumption DEF Counter, TypeOK
  <2>3. applyWrite(contents, r) \in SUBSET Paths
    BY <1>3, RequestShape DEF applyWrite, TypeOK
  <2> QED
    BY <1>3, <2>2, <2>3 DEF candidateOf, Local, TypeOK
<1> QED
  BY <1>1, <1>2, <1>3 DEF Mutations

\* The statuses a mutation can be refused with.
LEMMA VerdictStatus ==
  ASSUME NEW r, NEW p
  PROVE  /\ reserveVerdict(r) \in Status \cup {"HOLD", "WAIT"}
         /\ commitVerdict(p) \in Status
<1>1. reserveVerdict(r) \in Status \cup {"HOLD", "WAIT"}
  BY DEF reserveVerdict, publishVerdict, activateVerdict, writeVerdict, contendedVerdict,
         replayVerdict, Status
<1>2. commitVerdict(p) \in Status
  BY DEF commitVerdict, publishCommitVerdict, activateCommitVerdict, writeCommitVerdict,
         replayVerdict, Status
<1> QED
  BY <1>1, <1>2

\* A page is a piece of the list it is taken from.
LEMMA PageType ==
  ASSUME CountsPositions, NEW positions \in Seq(Counter), NEW cursor \in Counter, NEW limit \in Nat
  PROVE  pageAfter(positions, cursor, limit) \in Seq(Counter)
<1> DEFINE S == {i \in 1..Len(positions) : positions[i] <= cursor}
           start == Cardinality(S)
           end == IF start + limit <= Len(positions) THEN start + limit ELSE Len(positions)
<1>1. Len(positions) \in Nat
  OBVIOUS
<1>2. start \in 0..Len(positions)
  BY <1>1 DEF CountsPositions
<1> HIDE DEF S, start
<1>3. end \in 0..Len(positions)
  BY <1>1, <1>2
<1> HIDE DEF end
<1>4. \A i \in (start + 1)..end : positions[i] \in Counter
  BY <1>1, <1>2, <1>3
<1>5. SubSeq(positions, start + 1, end) \in Seq(Counter)
  <2>1. start + 1 \in Int /\ end \in Int
    BY <1>1, <1>2, <1>3
  <2> QED
    BY <1>4, <2>1, Sliced
<1> QED
  BY <1>5 DEF pageAfter, S, start, end

\* TypeOK in three groups, so that a step need only look at what it changes.
StoreTypeOK ==
  /\ revisions \in [RevisionIds -> Metadata \cup {Nil}]
  /\ slots \in [Slots -> SlotState]
  /\ generation \in Counter
  /\ contents \in SUBSET Paths
  /\ idempotency \in [IdempotencyKeys -> IdempotencyState \cup {NoRecord}]
  /\ events \in Seq(Event)
  /\ expiredThrough \in Counter
  /\ effectiveTime \in Times \cup {0}

SharedTypeOK ==
  /\ failNextEvent \in BOOLEAN
  /\ reservations \in [ReservationKey -> Procs \cup {Nobody}]
  /\ waitRefs \in Int
  /\ waitOn \in [Procs -> {"none", "live", "closed", "orphan"}]
  /\ loc \in [Procs -> Local]

CallTypeOK ==
  /\ pc \in [Procs -> PC]
  /\ req \in [Procs -> Requests \cup {NoRequest}]
  /\ \A p \in Procs : req[p].op \in callsAt(pc[p])
  /\ woken \in SUBSET Procs
  /\ cancelled \in SUBSET Procs
  /\ result \in [Procs -> Result]

\* The type invariant in three groups: stored state, shared control, calls.
LEMMA TypeGroups == TypeOK <=> StoreTypeOK /\ SharedTypeOK /\ CallTypeOK
  BY Zenon DEF TypeOK, StoreTypeOK, SharedTypeOK, CallTypeOK

\* The same grouping for the state after a step.
LEMMA TypeGroupsNext == TypeOK' <=> StoreTypeOK' /\ SharedTypeOK' /\ CallTypeOK'
  BY Zenon DEF TypeOK, StoreTypeOK, SharedTypeOK, CallTypeOK

\* A new store is well typed.
LEMMA TypeInit ==
  ASSUME Init
  PROVE  TypeOK
<1>1. 0 \in Counter /\ 0 \in 0..(MaxUint64 - 1)
  BY BoundsAssumption DEF Counter
<1>2. UnsetSlot \in SlotState
  <2>1. NoActivation \in Activation
    BY <1>1, Zenon DEF NoActivation, Activation
  <2> QED
    BY <2>1 DEF UnsetSlot, SlotState
<1>3. NoLocal \in Local /\ NoResult \in Result
  BY <1>1 DEF NoLocal, Local, NoResult, Result, Status
<1>4. StoreTypeOK
  BY <1>1, <1>2 DEF Init, StoreTypeOK
<1>5. SharedTypeOK
  <2>1. failNextEvent \in BOOLEAN
    BY Zenon DEF Init
  <2> QED
    BY <1>3, <2>1 DEF Init, SharedTypeOK
<1>6. CallTypeOK
  <2>1. callsAt("idle") = {"none"} /\ "idle" \in PC
    BY DEF callsAt, Holding, PC
  <2>2. NoRequest.op = "none"
    BY DEF NoRequest
  <2>3. \A p \in Procs : req[p].op \in callsAt(pc[p])
    BY <2>1, <2>2 DEF Init
  <2> QED
    BY <1>3, <2>1, <2>3 DEF Init, CallTypeOK
<1> QED
  BY <1>4, <1>5, <1>6, TypeGroups

\* Steps that do not touch the stored state.
LEMMA StoreUntouched ==
  ASSUME StoreTypeOK, UNCHANGED store
  PROVE  StoreTypeOK'
  BY DEF StoreTypeOK, store

\* A goroutine that moves to a control point its request belongs at.
LEMMA GotoType ==
  ASSUME CallTypeOK, NEW p \in Procs, NEW label \in PC, req[p].op \in callsAt(label),
         Goto(p, label), req' = req, woken' \in SUBSET Procs, cancelled' \in SUBSET Procs,
         result' \in [Procs -> Result]
  PROVE  CallTypeOK'
  BY Zenon DEF CallTypeOK, Goto

\* Recording an answer keeps the results well typed.
LEMMA AnswerType ==
  ASSUME CallTypeOK, NEW p \in Procs, NEW status \in Status, NEW gen \in Counter,
         NEW page \in Seq(Counter), Answer(p, status, gen, page)
  PROVE  result' \in [Procs -> Result]
<1>1. [status |-> status, generation |-> gen, page |-> page] \in Result
  BY Zenon DEF Result
<1> QED
  BY <1>1, Zenon DEF CallTypeOK, Answer

\* Where a call that is under way can be.
LEMMA CallPlaces ==
  ASSUME CallTypeOK, NEW p \in Procs
  PROVE  /\ pc[p] # "idle" => req[p] \in Requests /\ req[p].op \in callsAt("done")
         /\ pc[p] \in {"reserve", "await"} \cup Holding =>
              /\ req[p].op \in Mutations
              /\ \A label \in {"reserve", "await"} \cup Holding : req[p].op \in callsAt(label)
         /\ pc[p] \in {"open", "park", "unpark"} =>
              /\ req[p].op = "snapshot"
              /\ \A label \in {"open", "park", "unpark"} : req[p].op \in callsAt(label)
         /\ pc[p] \in {"stamp", "list"} => req[p].op = "events" /\ req[p].op \in callsAt("list")
<1>1. req[p].op \in callsAt(pc[p]) /\ pc[p] \in PC /\ req[p] \in Requests \cup {NoRequest}
  BY DEF CallTypeOK
<1>2. pc[p] # "idle" => req[p].op # "none"
  BY <1>1, Zenon DEF callsAt, Holding, Mutations, PC
<1>3. pc[p] # "idle" => req[p] \in Requests
  BY <1>1, <1>2 DEF NoRequest
<1>4. pc[p] # "idle" => req[p].op \in callsAt("done")
  <2>1. callsAt("done") = Mutations \cup {"snapshot", "events", "history", "resolve",
                                         "revision", "generation"}
    BY Zenon DEF callsAt, Holding
  <2>2. ASSUME pc[p] # "idle"
        PROVE  req[p].op \in Mutations \cup {"snapshot", "events", "history", "resolve",
                                            "revision", "generation"}
    BY <1>3, <2>2, RequestShape
  <2> QED
    BY <2>1, <2>2
<1>5. pc[p] \in {"reserve", "await"} \cup Holding => req[p].op \in Mutations
  BY <1>1 DEF callsAt, Holding
<1>6. pc[p] \in {"open", "park", "unpark"} => req[p].op = "snapshot"
  BY <1>1 DEF callsAt, Holding
<1>7. pc[p] \in {"stamp", "list"} => req[p].op = "events"
  BY <1>1, Zenon DEF callsAt, Holding
<1> QED
  BY <1>3, <1>4, <1>5, <1>6, <1>7 DEF callsAt, Holding

\* A call that returns without a reservation stays well typed.
LEMMA FinishType ==
  ASSUME CallTypeOK, NEW p \in Procs, NEW status \in Status, NEW gen \in Counter,
         NEW page \in Seq(Counter), Finish(p, status, gen, page), pc[p] # "idle"
  PROVE  CallTypeOK'
<1>1. result' \in [Procs -> Result]
  BY AnswerType, Zenon DEF Finish
<1>2. "done" \in PC /\ req[p].op \in callsAt("done")
  BY CallPlaces, Zenon DEF PC
<1> QED
  BY <1>1, <1>2, GotoType DEF Finish, CallTypeOK

\* So does a mutation whose outcome is decided.
LEMMA DecideType ==
  ASSUME CallTypeOK, NEW p \in Procs, NEW status \in Status, NEW gen \in Counter,
         Decide(p, status, gen), pc[p] \in Holding
  PROVE  CallTypeOK'
<1>1. result' \in [Procs -> Result]
  BY AnswerType, EmptyList, Zenon DEF Decide
<1>2. "release" \in PC /\ req[p].op \in callsAt("release")
  BY CallPlaces DEF PC, Holding
<1> QED
  BY <1>1, <1>2, GotoType DEF Decide, CallTypeOK

\* Steps of one goroutine that leave the stored state, the reservations, the
\* event-failure flag and the waits alone.
LEMMA TypeControl ==
  ASSUME TypeOK, NEW p \in Procs,
         Awake(p) \/ ReadClock(p) \/ ClockFails(p) \/ Abandon(p) \/ GiveUp(p)
           \/ Return(p) \/ Cancel(p) \/ Call(p) \/ Unpark(p)
  PROVE  TypeOK'
<1> USE TypeGroups, TypeGroupsNext
<1>1. StoreTypeOK'
  BY StoreUntouched, Zenon DEF Awake, ReadClock, ClockFails, Abandon, GiveUp, Return, Cancel, Call, Unpark
<1>2. SharedTypeOK'
  <2>1. CASE loc' = loc
    BY <2>1 DEF SharedTypeOK, Awake, ReadClock, ClockFails, Abandon, GiveUp, Return, Cancel, Call,
           Unpark, waits
  <2>2. CASE ReadClock(p)
    <3>1. loc' \in [Procs -> Local] /\ UNCHANGED <<failNextEvent, reservations, waitRefs, waitOn>>
      BY <2>2 DEF SharedTypeOK, ReadClock, waits, Local
    <3> QED
      BY <3>1, Zenon DEF SharedTypeOK
  <2>3. CASE Return(p)
    <3>1. NoLocal \in Local
      BY BoundsAssumption DEF NoLocal, Local
    <3>2. loc' \in [Procs -> Local] /\ UNCHANGED <<failNextEvent, reservations, waitRefs, waitOn>>
      BY <2>3, <3>1, Zenon DEF SharedTypeOK, Return, waits
    <3> QED
      BY <3>2 DEF SharedTypeOK
  <2> QED
    BY <2>1, <2>2, <2>3, Zenon DEF Awake, ClockFails, Abandon, GiveUp, Cancel, Call, Unpark
<1>3. CallTypeOK'
  <2>0. 0 \in Counter /\ <<>> \in Seq(Counter) /\ "CANCELLED" \in Status /\ "INTERNAL" \in Status
    BY BoundsAssumption DEF Counter, Status
  <2>1. CASE Awake(p)
    <3>1. "reserve" \in PC /\ req[p].op \in callsAt("reserve")
      BY <2>1, CallPlaces, Zenon DEF Awake, PC
    <3> QED
      BY <2>1, <3>1, GotoType, Zenon DEF Awake, CallTypeOK
  <2>2. CASE ReadClock(p)
    <3>1. PICK label \in {"list", "commit"} :
            Goto(p, label) /\ (label = "list" <=> pc[p] = "stamp")
      BY <2>2 DEF ReadClock
    <3>2. label \in PC /\ req[p].op \in callsAt(label)
      BY <2>2, <3>1, CallPlaces, Zenon DEF ReadClock, PC, Holding
    <3> QED
      BY <2>2, <3>1, <3>2, GotoType DEF ReadClock, CallTypeOK
  <2>3. CASE ClockFails(p)
    <3>1. CASE Decide(p, "INTERNAL", 0) /\ pc[p] \in Holding
      BY <2>0, <3>1, DecideType
    <3>2. CASE Finish(p, "INTERNAL", 0, <<>>) /\ pc[p] # "idle"
      BY <2>0, <3>2, FinishType, Zenon
    <3> QED
      BY <2>3, <3>1, <3>2 DEF ClockFails, Holding
  <2>4. CASE Abandon(p)
    BY <2>0, <2>4, DecideType DEF Abandon, Holding
  <2>5. CASE GiveUp(p)
    <3>1. "done" \in PC /\ req[p].op \in callsAt("done")
      BY <2>5, CallPlaces, Zenon DEF GiveUp, PC
    <3>2. result' \in [Procs -> Result]
      BY <2>0, <2>5, AnswerType, Zenon DEF GiveUp
    <3> QED
      BY <2>5, <3>1, <3>2, GotoType, Zenon DEF GiveUp, CallTypeOK
  <2>6. CASE Return(p)
    <3>1. NoResult \in Result
      BY <2>0 DEF NoResult, Result, Status
    <3>2. "idle" \in PC /\ NoRequest.op \in callsAt("idle")
      BY DEF PC, NoRequest, callsAt, Holding
    <3> QED
      BY <2>6, <3>1, <3>2, Zenon DEF CallTypeOK, Return, Goto
  <2>7. CASE Cancel(p)
    BY <2>7, ZenonT(40) DEF CallTypeOK, Cancel
  <2>8. CASE Call(p)
    <3>1. PICK r \in Requests : req' = [req EXCEPT ![p] = r] /\ Goto(p, entry(r))
      BY <2>8, ZenonT(40) DEF Call
    <3>2. r.op \in Mutations \cup {"snapshot", "events", "history", "resolve", "revision",
                                 "generation"}
      BY RequestShape
    <3>3. entry(r) \in PC /\ r.op \in callsAt(entry(r))
      BY <3>2 DEF PC, callsAt, Holding, Mutations, entry
    <3> QED
      BY <2>8, <3>1, <3>3 DEF CallTypeOK, Call, Goto
  <2>9. CASE Unpark(p)
    <3>1. "unpark" \in PC /\ req[p].op \in callsAt("unpark")
      BY <2>9, CallPlaces DEF Unpark, PC
    <3>2. result' \in [Procs -> Result]
      BY <2>0, <2>9, AnswerType, Zenon DEF Unpark, CallTypeOK
    <3> QED
      BY <2>9, <3>1, <3>2, GotoType, Zenon DEF Unpark, CallTypeOK
  <2> QED
    BY <2>1, <2>2, <2>3, <2>4, <2>5, <2>6, <2>7, <2>8, <2>9
<1> QED
  BY <1>1, <1>2, <1>3

\* So does a read, answered or cancelled after its unlock.
LEMMA FinishReadType ==
  ASSUME CallTypeOK, NEW p \in Procs, NEW status \in Status, NEW gen \in Counter,
         NEW page \in Seq(Counter), FinishRead(p, status, gen, page), pc[p] # "idle"
  PROVE  CallTypeOK'
<1>1. 0 \in Counter /\ <<>> \in Seq(Counter) /\ "CANCELLED" \in Status
  BY BoundsAssumption DEF Counter, Status
<1>2. CASE Finish(p, status, gen, page)
  BY <1>2, FinishType
<1>3. CASE Finish(p, "CANCELLED", 0, <<>>)
  BY <1>1, <1>3, FinishType, Zenon
<1> QED
  BY <1>2, <1>3 DEF FinishRead

\* The original generation a replay is answered with is a counter value.
LEMMA RecordedGenerationType ==
  ASSUME StoreTypeOK, NEW k \in IdempotencyKeys
  PROVE  idempotency[k].generation \in Counter
<1>1. idempotency[k] \in IdempotencyState \cup {NoRecord}
  BY Zenon DEF StoreTypeOK
<1> QED
  BY <1>1, BoundsAssumption DEF IdempotencyState, NoRecord, Counter

\* Only a write is ever found to be a replay.
LEMMA ReplayIsWrite ==
  ASSUME CallTypeOK, NEW p \in Procs, req[p].op \in Mutations,
         reserveVerdict(req[p]) = "REPLAYED" \/ commitVerdict(p) = "REPLAYED"
  PROVE  req[p].key \in IdempotencyKeys
<1>1. req[p].op = "write"
  <2>1. CASE req[p].op = "publish"
    BY <2>1 DEF reserveVerdict, commitVerdict, publishVerdict, publishCommitVerdict
  <2>2. CASE req[p].op = "activate"
    BY <2>2 DEF reserveVerdict, commitVerdict, activateVerdict, activateCommitVerdict
  <2> QED
    BY <2>1, <2>2 DEF Mutations
<1>2. req[p] \in Requests \cup {NoRequest}
  BY DEF CallTypeOK
<1> QED
  BY <1>1, <1>2, RequestShape, Zenon

\* The first critical section keeps the types.
LEMMA TypeReserve ==
  ASSUME TypeOK, NEW p \in Procs, Reserve(p)
  PROVE  TypeOK'
<1> USE TypeGroups, TypeGroupsNext
<1> DEFINE r == req[p]
<1>0. /\ 0 \in Counter /\ <<>> \in Seq(Counter) /\ "EXISTS" \in Status
      /\ r \in Requests /\ r.op \in Mutations /\ pc[p] # "idle"
      /\ \A label \in {"reserve", "await"} \cup Holding : r.op \in callsAt(label)
  <2>1. 0 \in Counter /\ <<>> \in Seq(Counter) /\ "EXISTS" \in Status
    BY BoundsAssumption DEF Counter, Status
  <2>2. pc[p] = "reserve"
    BY Zenon DEF Reserve
  <2> QED
    BY <2>1, <2>2, CallPlaces
<1>1. StoreTypeOK'
  BY StoreUntouched DEF Reserve
<1>2. CASE reserveVerdict(r) = "HOLD"
  <2>1. candidateOf(r) \in Local /\ keyOf(r) \in ReservationKey
    BY <1>0, <1>2, CandidateType, RequestShape, Zenon
  <2>2. /\ reservations' = [reservations EXCEPT ![keyOf(r)] = p]
        /\ loc' = [loc EXCEPT ![p] = candidateOf(r)]
        /\ Goto(p, "held")
        /\ UNCHANGED <<req, woken, cancelled, result, failNextEvent, waits>>
    BY <1>2, Zenon DEF Reserve
  <2>3. SharedTypeOK'
    BY <2>1, <2>2 DEF SharedTypeOK, waits
  <2>4. CallTypeOK'
    <3>1. "held" \in PC /\ r.op \in callsAt("held")
      BY <1>0, Zenon DEF PC, Holding
    <3> QED
      BY <2>2, <3>1, GotoType, Zenon DEF CallTypeOK
  <2> QED
    BY <1>1, <2>3, <2>4
<1>3. CASE reserveVerdict(r) # "HOLD"
  <2>1. SharedTypeOK'
    BY <1>3, Zenon DEF Reserve, SharedTypeOK, waits
  <2>2. CASE reserveVerdict(r) = "WAIT"
    <3>1. "await" \in PC /\ r.op \in callsAt("await")
      BY <1>0 DEF PC
    <3>2. Goto(p, "await") /\ UNCHANGED <<req, woken, cancelled, result>>
      BY <2>2, Zenon DEF Reserve
    <3>3. CallTypeOK'
      BY <3>1, <3>2, GotoType, ZenonT(40) DEF CallTypeOK
    <3> QED
      BY <1>1, <2>1, <3>3
  <2>3. CASE reserveVerdict(r) = "EXISTS"
    <3>1. FinishRead(p, "EXISTS", 0, <<>>)
      BY <2>3 DEF Reserve
    <3>2. CallTypeOK'
      BY <1>0, <3>1, FinishReadType, Zenon
    <3> QED
      BY <1>1, <2>1, <3>2
  <2>4. CASE reserveVerdict(r) \notin {"HOLD", "WAIT", "EXISTS"}
    <3> DEFINE gen == IF reserveVerdict(r) = "REPLAYED" THEN idempotency[r.key].generation ELSE 0
    <3>1. Finish(p, reserveVerdict(r), gen, <<>>)
      BY <2>4, Zenon DEF Reserve
    <3>2. reserveVerdict(r) \in Status
      BY <2>4, VerdictStatus, Zenon
    <3>3. gen \in Counter
      BY <1>0, ReplayIsWrite, RecordedGenerationType
    <3> HIDE DEF gen
    <3>4. CallTypeOK'
      BY <1>0, <3>1, <3>2, <3>3, FinishType, Zenon
    <3> QED
      BY <1>1, <2>1, <3>4
  <2> QED
    BY <1>3, <2>2, <2>3, <2>4
<1> QED
  BY <1>2, <1>3, Zenon

\* So does consuming the armed event failure.
LEMMA TypeFailEvent ==
  ASSUME TypeOK, NEW p \in Procs, FailEvent(p)
  PROVE  TypeOK'
<1> USE TypeGroups, TypeGroupsNext
<1>1. StoreTypeOK'
  BY StoreUntouched DEF FailEvent
<1>2. failNextEvent' \in BOOLEAN
  BY Zenon DEF FailEvent
<1>3. SharedTypeOK'
  BY <1>2 DEF FailEvent, SharedTypeOK, waits
<1>4. CallTypeOK'
  <2>1. /\ 0 \in Counter /\ "UNAVAILABLE" \in Status /\ "INTERNAL" \in Status
        /\ pc[p] \in Holding /\ "clock" \in PC /\ req[p].op \in callsAt("clock")
    <3>1. 0 \in Counter /\ "UNAVAILABLE" \in Status /\ "INTERNAL" \in Status
      BY BoundsAssumption DEF Counter, Status
    <3>2. pc[p] \in Holding /\ "clock" \in Holding /\ "clock" \in PC
      BY ZenonT(40) DEF FailEvent, Holding, PC
    <3> QED
      BY <3>1, <3>2, CallPlaces, Zenon
  <2>2. CASE Goto(p, "clock") /\ UNCHANGED <<req, woken, cancelled, result>>
    <3>1. CallTypeOK
      BY ZenonT(40)
    <3> QED
      BY <2>1, <2>2, <3>1, GotoType DEF CallTypeOK
  <2>3. CASE Decide(p, "UNAVAILABLE", 0) \/ Decide(p, "INTERNAL", 0)
    BY <2>1, <2>3, DecideType
  <2>4. \/ Goto(p, "clock") /\ UNCHANGED <<req, woken, cancelled, result>>
        \/ Decide(p, "UNAVAILABLE", 0) \/ Decide(p, "INTERNAL", 0)
    BY Zenon DEF FailEvent
  <2> QED
    BY <2>2, <2>3, <2>4, Zenon
<1> QED
  BY <1>1, <1>3, <1>4

\* Whatever the clock says, the effective time is a clock reading.
LEMMA EffectiveTimeType ==
  ASSUME StoreTypeOK, NEW now \in Times
  PROVE  effectiveTimeLocked(now) \in Times
<1>1. now \in Nat \ {0} /\ effectiveTime \in Times \cup {0}
  BY TimesAssumption DEF StoreTypeOK
<1>2. CASE effectiveTime = 0
  BY <1>1, <1>2 DEF effectiveTimeLocked
<1>3. CASE effectiveTime \in Times
  BY <1>3, ZenonT(40) DEF effectiveTimeLocked
<1> QED
  BY <1>1, <1>2, <1>3, Zenon

\* A goroutine at its commit has read the clock.
ClockRead == \A p \in Procs : pc[p] \in {"commit", "list"} => loc[p].now \in Times

\* Every way to the commit and to the listing leads through the clock.
LEMMA ClockReadStep ==
  ASSUME TypeOK, ClockRead, [Next]_vars
  PROVE  ClockRead'
<1>0. pc \in [Procs -> PC] /\ loc \in [Procs -> Local]
  BY DEF TypeOK
<1>1. ASSUME NEW p \in Procs, ReadClock(p)
      PROVE  ClockRead'
  BY <1>0, <1>1 DEF ReadClock, ClockRead, Goto, Local
<1>2. ASSUME NEW p \in Procs, loc' = loc, NEW label \in PC \ {"commit", "list"}, Goto(p, label)
      PROVE  ClockRead'
  BY <1>0, <1>2 DEF ClockRead, Goto
<1>3. ASSUME NEW p \in Procs, Reserve(p)
      PROVE  ClockRead'
  <2>1. PICK label \in {"held", "await", "done"} : Goto(p, label)
    BY <1>3 DEF Reserve, FinishRead, Finish
  <2>2. \A q \in Procs \ {p} : loc'[q] = loc[q]
    BY <1>0, <1>3, Zenon DEF Reserve
  <2> QED
    BY <1>0, <2>1, <2>2, ZenonT(40) DEF ClockRead, Goto
<1>4. ASSUME NEW p \in Procs, Return(p)
      PROVE  ClockRead'
  BY <1>0, <1>4, Zenon DEF Return, ClockRead, Goto
<1>5. ASSUME UNCHANGED <<pc, loc>>
      PROVE  ClockRead'
  BY <1>5 DEF ClockRead
<1>6. ASSUME NEW p \in Procs,
             Awake(p) \/ FailEvent(p) \/ ClockFails(p) \/ Abandon(p) \/ Commit(p) \/ Refuse(p)
             \/ Release(p) \/ OpenSnapshot(p) \/ Unpark(p) \/ Unregister(p) \/ ListEvents(p)
             \/ Read(p) \/ GiveUp(p) \/ Call(p)
      PROVE  ClockRead'
  <2>1. loc' = loc
    BY <1>6, Zenon DEF Awake, FailEvent, ClockFails, Abandon, Commit, Refuse, Release, OpenSnapshot,
       Unpark, Unregister, ListEvents, Read, GiveUp, Call
  <2>2. CASE Call(p)
    <3>1. PICK r \in Requests : Goto(p, entry(r))
      BY <2>2 DEF Call
    <3>2. entry(r) \in PC \ {"commit", "list"}
      BY Zenon DEF entry, PC
    <3> QED
      BY <1>2, <2>1, <3>1, <3>2, Zenon
  <2>3. CASE ~ Call(p)
    <3>1. PICK label \in {"reserve", "clock", "release", "done", "park", "unpark", "open"} :
            Goto(p, label)
      BY <1>6, <2>3, Zenon DEF Awake, FailEvent, ClockFails, Abandon, Commit, CommitRevision,
         CommitActivation, CommitData, Refuse, Release, OpenSnapshot, Unpark, Unregister,
         ListEvents, Read, ListActivationHistory, Resolve, GetRevision, GetDataGeneration,
         GiveUp, Decide, Finish, FinishRead
    <3>2. label \in PC \ {"commit", "list"}
      BY DEF PC, Holding
    <3> QED
      BY <1>2, <2>1, <3>1, <3>2
  <2> QED
    BY <2>2, <2>3
<1> QED
  BY <1>1, <1>3, <1>4, <1>5, <1>6
     DEF Next, Step, vars, Cancel, armNextEventFailure, ElsewhereCommit

\* What a commit that goes through has established.
LEMMA CommitFacts ==
  ASSUME TypeOK, ClockRead, NEW p \in Procs, Commit(p)
  PROVE  /\ req[p] \in Requests /\ req[p].op \in Mutations /\ pc[p] \in Holding
         /\ effectiveTimeLocked(loc[p].now) \in Times
         /\ nextEventSequence \in Counter \ {0}
         /\ ~ sequencesExhausted
         /\ loc[p].generation + 1 \in Counter \ {0}
         /\ loc[p].contents \in SUBSET Paths
<1>1. req[p] \in Requests /\ req[p].op \in Mutations /\ pc[p] \in Holding
  BY TypeGroups, CallPlaces DEF Commit, Holding
<1>2. effectiveTimeLocked(loc[p].now) \in Times
  BY TypeGroups, EffectiveTimeType, Zenon DEF Commit, ClockRead
<1>3. ~ sequencesExhausted
  <2>1. CASE req[p].op = "publish"
    BY <2>1, Zenon DEF Commit, commitVerdict, publishCommitVerdict
  <2>2. CASE req[p].op = "activate"
    BY <2>2 DEF Commit, commitVerdict, activateCommitVerdict
  <2>3. CASE req[p].op = "write"
    BY <2>3 DEF Commit, commitVerdict, writeCommitVerdict, replayVerdict
  <2> QED
    BY <1>1, <2>1, <2>2, <2>3 DEF Mutations
<1>4. nextEventSequence \in Counter \ {0}
  BY <1>3, HighWaterType
<1>5. loc[p] \in Local
  BY Zenon DEF TypeOK
<1>6. loc[p].generation + 1 \in Counter \ {0} /\ loc[p].contents \in SUBSET Paths
  BY <1>5, BoundsAssumption DEF Local, Counter
<1> QED
  BY <1>1, <1>2, <1>3, <1>4, <1>6, Zenon

\* The second critical section keeps the types: no counter overflows.
LEMMA TypeCommit ==
  ASSUME CountsPositions, TypeOK, ClockRead, NEW p \in Procs, Commit(p)
  PROVE  TypeOK'
<1> USE TypeGroups, TypeGroupsNext
<1> DEFINE now == effectiveTimeLocked(loc[p].now)
<1>0. /\ now \in Times /\ 0 \in Counter /\ "OK" \in Status
      /\ req[p] \in Requests /\ pc[p] \in Holding
      /\ nextEventSequence \in Counter \ {0}
      /\ loc[p].generation + 1 \in Counter \ {0}
  BY CommitFacts, BoundsAssumption DEF Counter, Status
<1> HIDE DEF now
<1>1. CASE CommitRevision(p, now)
  <2> DEFINE event == RevisionPublished(nextEventSequence, req[p].id, now)
  <2>1. req[p].op = "publish" /\ req[p].id \in RevisionIds /\ req[p].metadata \in Metadata
    BY <1>0, <1>1, RequestShape, Zenon DEF CommitRevision
  <2>2. event \in Event
    BY <1>0, <2>1, Zenon DEF RevisionPublished, Event
  <2>3. events' \in Seq(Event) /\ expiredThrough' \in Counter /\ effectiveTime' \in Times
    <3>1. appendEvent(event)
      BY <1>1 DEF CommitRevision
    <3> HIDE DEF event
    <3> QED
      BY <2>2, <3>1, AppendEventType, ZenonT(40)
  <2>4. StoreTypeOK'
    BY <1>1, <2>1, <2>3, Zenon DEF CommitRevision, StoreTypeOK
  <2>5. SharedTypeOK'
    BY <1>1, Zenon DEF Commit, CommitRevision, SharedTypeOK, waits
  <2>6. CallTypeOK'
    BY <1>0, <1>1, DecideType, Zenon DEF CommitRevision
  <2> QED
    BY <2>4, <2>5, <2>6
<1>2. CASE CommitActivation(p, now)
  <2> DEFINE activation == [revision |-> req[p].target, generation |-> loc[p].generation + 1,
                            at |-> now]
             event == SlotActivated(nextEventSequence, req[p].slot, activation)
  <2>1. req[p].op = "activate" /\ req[p].slot \in Slots /\ req[p].target \in RevisionIds
    BY <1>0, <1>2, RequestShape, Zenon DEF CommitActivation
  <2>2. activation \in Activation
    BY <1>0, <2>1, Zenon DEF Activation
  <2>3. event \in Event
    BY <1>0, <2>1, Zenon DEF SlotActivated, Event
  <2>4. events' \in Seq(Event) /\ expiredThrough' \in Counter /\ effectiveTime' \in Times
    <3>1. appendEvent(event)
      BY <1>2, Zenon DEF CommitActivation
    <3> HIDE DEF event
    <3> QED
      BY <2>3, <3>1, AppendEventType
  <2>5. slots' \in [Slots -> SlotState]
    <3>1. slots[req[p].slot] \in SlotState /\ slots \in [Slots -> SlotState]
      BY <2>1, Zenon DEF StoreTypeOK
    <3>2. slots' = [slots EXCEPT ![req[p].slot] = activated(slots[req[p].slot], activation)]
      BY <1>2, Zenon DEF CommitActivation
    <3> HIDE DEF activation
    <3>3. activated(slots[req[p].slot], activation) \in SlotState
      BY <2>2, <3>1, ActivatedType
    <3> QED
      BY <3>1, <3>2, <3>3, Zenon
  <2>6. StoreTypeOK'
    BY <1>2, <2>4, <2>5, Zenon DEF CommitActivation, StoreTypeOK
  <2>7. SharedTypeOK'
    BY <1>2, Zenon DEF Commit, CommitActivation, SharedTypeOK, waits
  <2>8. CallTypeOK'
    <3>1. Decide(p, "OK", loc[p].generation + 1)
      BY <1>2, Zenon DEF CommitActivation
    <3> QED
      BY <1>0, <3>1, DecideType, Zenon
  <2> QED
    BY <2>6, <2>7, <2>8
<1>3. CASE CommitData(p, now)
  <2> DEFINE next == loc[p].generation + 1
             event == DataWritten(nextEventSequence, next, now)
  <2>1. /\ req[p].op = "write" /\ req[p].key \in IdempotencyKeys
        /\ FingerprintWriteData(req[p]) \in Fingerprint
    BY <1>0, <1>3, RequestShape, Zenon DEF CommitData
  <2>2. event \in Event
    BY <1>0, Zenon DEF DataWritten, Event
  <2>3. events' \in Seq(Event) /\ expiredThrough' \in Counter /\ effectiveTime' \in Times
    <3>1. appendEvent(event)
      BY <1>3, Zenon DEF CommitData
    <3> HIDE DEF event
    <3> QED
      BY <2>2, <3>1, AppendEventType
  <2>4. idempotency' \in [IdempotencyKeys -> IdempotencyState \cup {NoRecord}]
    <3>1. [fingerprint |-> FingerprintWriteData(req[p]), generation |-> next] \in IdempotencyState
      BY <1>0, <2>1, Zenon DEF IdempotencyState
    <3> QED
      BY <1>3, <2>1, <3>1, Zenon DEF CommitData, StoreTypeOK
  <2>5. generation' \in Counter /\ contents' \in SUBSET Paths
    BY <1>0, <1>3, CommitFacts, Zenon DEF CommitData
  <2>6. StoreTypeOK'
    BY <1>3, <2>3, <2>4, <2>5, Zenon DEF CommitData, StoreTypeOK
  <2>7. SharedTypeOK'
    <3>1. waitOn' \in [Procs -> {"none", "live", "closed", "orphan"}] /\ waitRefs' = 0
      BY <1>3 DEF CommitData, SharedTypeOK, notifyGenerationWaiters
    <3>2. UNCHANGED <<failNextEvent, reservations, loc>>
      BY Zenon DEF Commit
    <3> QED
      BY <3>1, <3>2 DEF SharedTypeOK
  <2>8. CallTypeOK'
    <3>1. Decide(p, "OK", loc[p].generation + 1)
      BY <1>3 DEF CommitData
    <3> QED
      BY <1>0, <3>1, DecideType, Zenon
  <2> QED
    BY <2>6, <2>7, <2>8
<1> QED
  BY <1>1, <1>2, <1>3, Zenon DEF Commit, now

\* A failed revalidation keeps the types.
LEMMA TypeRefuse ==
  ASSUME TypeOK, NEW p \in Procs, Refuse(p)
  PROVE  TypeOK'
<1> USE TypeGroups, TypeGroupsNext
<1> DEFINE gen == IF commitVerdict(p) = "REPLAYED" THEN idempotency[req[p].key].generation ELSE 0
<1>1. StoreTypeOK' /\ SharedTypeOK'
  BY StoreUntouched, Zenon DEF Refuse, SharedTypeOK, waits
<1>2. pc[p] \in Holding /\ req[p].op \in Mutations
  BY CallPlaces, Zenon DEF Refuse, Holding
<1>3. gen \in Counter
  <2>1. 0 \in Counter
    BY BoundsAssumption DEF Counter
  <2> QED
    BY <1>2, <2>1, ReplayIsWrite, RecordedGenerationType
<1>4. Decide(p, commitVerdict(p), gen)
  BY DEF Refuse
<1> HIDE DEF gen
<1>5. CallTypeOK'
  BY <1>2, <1>3, <1>4, VerdictStatus, DecideType, Zenon
<1> QED
  BY <1>1, <1>5

\* The third critical section keeps the types.
LEMMA TypeRelease ==
  ASSUME TypeOK, NEW p \in Procs, Release(p)
  PROVE  TypeOK'
<1> USE TypeGroups, TypeGroupsNext
<1>1. StoreTypeOK'
  BY StoreUntouched, ZenonT(40) DEF Release
<1>2. SharedTypeOK'
  BY DEF Release, SharedTypeOK, waits
<1>3. CallTypeOK'
  <2>1. "done" \in PC /\ req[p].op \in callsAt("done")
    BY CallPlaces, Zenon DEF Release, PC
  <2>2. woken' \in SUBSET Procs
    BY DEF Release, CallTypeOK
  <2>3. Goto(p, "done") /\ UNCHANGED <<req, cancelled, result>>
    BY Zenon DEF Release
  <2> QED
    BY <2>1, <2>2, <2>3, GotoType, Zenon DEF CallTypeOK
<1> QED
  BY <1>1, <1>2, <1>3

\* Opening a snapshot, parking and unregistering keep the types.
LEMMA TypeSnapshot ==
  ASSUME TypeOK, NEW p \in Procs, OpenSnapshot(p) \/ Unregister(p)
  PROVE  TypeOK'
<1> USE TypeGroups, TypeGroupsNext
<1>1. StoreTypeOK'
  BY StoreUntouched DEF OpenSnapshot, Unregister
<1>2. SharedTypeOK'
  <2>1. waitRefs' \in Int /\ waitOn' \in [Procs -> {"none", "live", "closed", "orphan"}]
    <3>1. waitRefs \in Int /\ waitOn \in [Procs -> {"none", "live", "closed", "orphan"}]
      BY ZenonT(40) DEF SharedTypeOK
    <3>2. CASE OpenSnapshot(p)
      BY <3>1, <3>2 DEF OpenSnapshot, waits
    <3>3. CASE Unregister(p)
      BY <3>1, <3>3 DEF Unregister, unregisterGenerationWait
    <3> QED
      BY <3>2, <3>3
  <2> QED
    BY <2>1, Zenon DEF OpenSnapshot, Unregister, SharedTypeOK
<1>3. CallTypeOK'
  <2>1. /\ pc[p] # "idle"
        /\ \A label \in {"open", "park", "unpark"} : req[p].op \in callsAt(label)
        /\ req[p].op \in callsAt("done")
    BY CallPlaces, Zenon DEF OpenSnapshot, Unregister
  <2>2. "OK" \in Status /\ generation \in Counter /\ <<>> \in Seq(Counter)
    BY DEF Status, StoreTypeOK
  <2>3. CASE FinishRead(p, "OK", generation, <<>>)
    BY <2>1, <2>2, <2>3, FinishReadType, ZenonT(40)
  <2>4. ASSUME NEW label \in {"park", "open", "done"}, Goto(p, label),
               UNCHANGED <<req, woken, cancelled, result>>
        PROVE  CallTypeOK'
    <3>1. label \in PC /\ req[p].op \in callsAt(label)
      BY <2>1, <2>4, Zenon DEF PC
    <3> QED
      BY <2>4, <3>1, GotoType DEF CallTypeOK
  <2> QED
    BY <2>3, <2>4, Zenon DEF OpenSnapshot, Unregister
<1> QED
  BY <1>1, <1>2, <1>3, Zenon

\* The positions a page is cut from are counters.
LEMMA PositionTypes ==
  /\ \A values \in Seq(Event) : [i \in 1..Len(values) |-> values[i].sequence] \in Seq(Counter)
  /\ \A history \in Seq(Activation) :
       [i \in 1..Len(history) |-> history[i].generation] \in Seq(Counter)
<1>1. ASSUME NEW values \in Seq(Event)
      PROVE  [i \in 1..Len(values) |-> values[i].sequence] \in Seq(Counter)
  <2>1. Len(values) \in Nat /\ \A i \in 1..Len(values) : values[i].sequence \in Counter
    BY EventFields
  <2> QED
    BY <2>1
<1>2. ASSUME NEW history \in Seq(Activation)
      PROVE  [i \in 1..Len(history) |-> history[i].generation] \in Seq(Counter)
  <2>0. \A i \in 1..Len(history) : history[i] \in Activation
    OBVIOUS
  <2>1. Len(history) \in Nat /\ \A i \in 1..Len(history) : history[i].generation \in Counter
    BY <2>0 DEF Activation
  <2>2. [i \in 1..Len(history) |-> history[i].generation] \in [1..Len(history) -> Counter]
    BY <2>1
  <2> QED
    BY <2>1, <2>2
<1> QED
  BY <1>1, <1>2

\* Listing events, which also prunes them, keeps the types.
LEMMA TypeListEvents ==
  ASSUME CountsPositions, TypeOK, ClockRead, NEW p \in Procs, ListEvents(p)
  PROVE  TypeOK'
<1>0. effectiveTimeLocked(loc[p].now) \in Times
  BY TypeGroups, EffectiveTimeType, Zenon DEF ListEvents, ClockRead
<1> USE TypeGroups, TypeGroupsNext
<1> DEFINE r == req[p]
           now == effectiveTimeLocked(loc[p].now)
           values == prunedValues(events, now)
           through == prunedThrough(events, expiredThrough, now)
           page == pageAfter([i \in 1..Len(values) |-> values[i].sequence], r.cursor, r.limit)
<1>1. now \in Times /\ now \in Int
  <2>1. \A t \in Times : t \in Int
    BY TimesAssumption
  <2>2. now \in Times
    BY <1>0
  <2> HIDE DEF now
  <2> QED
    BY <2>1, <2>2, Zenon
<1>2. /\ r.op = "events" /\ r \in Requests /\ r.cursor \in Counter /\ r.limit \in Nat
      /\ pc[p] # "idle"
  <2>1. r.op = "events" /\ r \in Requests /\ pc[p] # "idle"
    BY CallPlaces, Zenon DEF ListEvents
  <2> QED
    BY <2>1, RequestShape, Zenon
<1>3. events \in Seq(Event) /\ Len(events) \in Nat /\ expiredThrough \in Counter
  BY DEF StoreTypeOK
<1> HIDE DEF now
<1>4. values \in Seq(Event)
  BY <1>1, <1>3, PrunedStream, Zenon
<1>5. through \in Counter
  <2>1. pruneCut(events, now) \in 0..Len(events)
    BY <1>1, <1>3, PruneCutBound, Zenon
  <2>2. CASE pruneCut(events, now) # 0
    <3>1. events[pruneCut(events, now)] \in Event
      BY <1>3, <2>1, <2>2
    <3> QED
      BY <1>3, <2>2, <3>1, EventFields, Zenon DEF prunedThrough, Larger
  <2> QED
    BY <1>3, <2>2 DEF prunedThrough
<1> HIDE DEF values, through
<1>6. page \in Seq(Counter)
  BY <1>2, <1>4, PositionTypes, PageType, Zenon
<1> HIDE DEF page
<1>7. StoreTypeOK'
  BY <1>1, <1>4, <1>5, Zenon DEF ListEvents, StoreTypeOK, now, values, through
<1>8. SharedTypeOK'
  BY Zenon DEF ListEvents, SharedTypeOK, waits
<1>9. CallTypeOK'
  <2>1. /\ 0 \in Counter /\ <<>> \in Seq(Counter) /\ "OK" \in Status
        /\ "CURSOR_EXPIRED" \in Status
    BY BoundsAssumption DEF Counter, Status
  <2>2. Finish(p, "CURSOR_EXPIRED", 0, <<>>) \/ FinishRead(p, "OK", 0, page)
    BY Zenon DEF ListEvents, now, values, through, page
  <2>3. CASE Finish(p, "CURSOR_EXPIRED", 0, <<>>)
    BY <1>2, <2>1, <2>3, FinishType, Zenon
  <2>4. CASE FinishRead(p, "OK", 0, page)
    BY <1>2, <1>6, <2>1, <2>4, FinishReadType, Zenon
  <2> QED
    BY <2>2, <2>3, <2>4, Zenon
<1> QED
  BY <1>7, <1>8, <1>9

\* The reads under one lock keep the types.
LEMMA TypeRead ==
  ASSUME CountsPositions, TypeOK, NEW p \in Procs, Read(p)
  PROVE  TypeOK'
<1> USE TypeGroups, TypeGroupsNext
<1>1. StoreTypeOK'
  BY StoreUntouched, Zenon DEF Read
<1>2. SharedTypeOK'
  BY Zenon DEF Read, SharedTypeOK, waits
<1>3. /\ 0 \in Counter /\ <<>> \in Seq(Counter) /\ pc[p] # "idle"
      /\ "OK" \in Status /\ "NOT_FOUND" \in Status /\ "CURSOR_EXPIRED" \in Status
  BY BoundsAssumption DEF Counter, Status, Read
<1>4. req[p] \in Requests
  BY <1>3, CallPlaces, Zenon
<1>5. CASE ListActivationHistory(p)
  <2> DEFINE r == req[p]
             history == slots[r.slot].history
             page == pageAfter([i \in 1..Len(history) |-> history[i].generation], r.cursor, r.limit)
  <2>1. r.slot \in Slots /\ r.cursor \in Counter /\ r.limit \in Nat
    BY <1>4, <1>5, RequestShape, Zenon DEF ListActivationHistory
  <2>2. history \in Seq(Activation)
    BY <2>1, Zenon DEF StoreTypeOK, SlotState
  <2> HIDE DEF history
  <2>3. page \in Seq(Counter)
    BY <2>1, <2>2, PositionTypes, PageType, Zenon
  <2> HIDE DEF page
  <2>4. Finish(p, "CURSOR_EXPIRED", 0, <<>>) \/ FinishRead(p, "OK", 0, page)
    BY <1>5, Zenon DEF ListActivationHistory, history, page
  <2>5. ASSUME Finish(p, "CURSOR_EXPIRED", 0, <<>>)
        PROVE  CallTypeOK'
    BY <1>3, <2>5, FinishType, Zenon
  <2>6. ASSUME FinishRead(p, "OK", 0, page)
        PROVE  CallTypeOK'
    BY <1>3, <2>3, <2>6, FinishReadType
  <2>7. CallTypeOK'
    BY <2>4, <2>5, <2>6, Zenon
  <2> QED
    BY <1>1, <1>2, <2>7
<1>6. CASE Resolve(p)
  <2> DEFINE current == slots[req[p].slot].current
             status == IF current.generation = 0 THEN "NOT_FOUND" ELSE "OK"
  <2>1. current.generation \in Counter
    <3>1. req[p].slot \in Slots
      BY <1>4, <1>6, RequestShape, Zenon DEF Resolve
    <3> QED
      BY <3>1 DEF StoreTypeOK, SlotState, Activation
  <2>2. status \in Status
    BY <1>3, Zenon
  <2>3. FinishRead(p, status, current.generation, <<>>)
    BY <1>6, Zenon DEF Resolve
  <2> HIDE DEF current, status
  <2>4. CallTypeOK'
    BY <1>3, <2>1, <2>2, <2>3, FinishReadType, Zenon
  <2> QED
    BY <1>1, <1>2, <2>4
<1>7. CASE GetRevision(p)
  <2>1. FinishRead(p, "NOT_FOUND", 0, <<>>) \/ FinishRead(p, "OK", 0, <<>>)
    BY <1>7 DEF GetRevision
  <2>2. CallTypeOK'
    BY <1>3, <2>1, FinishReadType, Zenon
  <2> QED
    BY <1>1, <1>2, <2>2
<1>8. CASE GetDataGeneration(p)
  <2>1. FinishRead(p, "OK", generation, <<>>) /\ generation \in Counter
    BY <1>8, Zenon DEF GetDataGeneration, StoreTypeOK
  <2>2. CallTypeOK'
    BY <1>3, <2>1, FinishReadType, Zenon
  <2> QED
    BY <1>1, <1>2, <2>2
<1> QED
  BY <1>5, <1>6, <1>7, <1>8 DEF Read

\* So do the steps outside every call.
LEMMA TypeEnvironment ==
  ASSUME TypeOK, armNextEventFailure \/ ElsewhereCommit \/ UNCHANGED vars
  PROVE  TypeOK'
<1>1. CASE armNextEventFailure
  <2>1. failNextEvent' \in BOOLEAN
    BY <1>1, Zenon DEF armNextEventFailure
  <2> QED
    BY <1>1, <2>1 DEF armNextEventFailure, TypeOK, store, waits
<1>2. CASE ElsewhereCommit
  <2>1. PICK now \in Times : effectiveTime' = effectiveTimeLocked(now)
    BY <1>2 DEF ElsewhereCommit
  <2>2. effectiveTime' \in Times \cup {0}
    BY <2>1, TypeGroups, EffectiveTimeType, ZenonT(40)
  <2> QED
    BY <1>2, <2>2, Zenon DEF ElsewhereCommit, TypeOK, waits
<1>3. CASE UNCHANGED vars
  BY <1>3 DEF vars, store, waits, TypeOK
<1> QED
  BY <1>1, <1>2, <1>3, ZenonT(40)

\* Every step keeps the types: no counter overflows, and no call is found at a
\* control point that is not its own.
LEMMA TypeStep ==
  ASSUME CountsPositions, TypeOK, ClockRead, [Next]_vars
  PROVE  TypeOK' /\ ClockRead'
<1>1. ClockRead'
  BY ClockReadStep, ZenonT(40)
<1>2. TypeOK'
  BY TypeControl, TypeReserve, TypeFailEvent, TypeCommit, TypeRefuse, TypeRelease,
     TypeSnapshot, TypeListEvents, TypeRead, TypeEnvironment DEF Next, Step
<1> QED
  BY <1>1, <1>2

-----------------------------------------------------------------------------
(* Every reservation has its owner, every owner its reservation.             *)

\* A step that moves one goroutine within, or outside of, its critical region
\* and leaves the reservation table alone.
LEMMA ReservationFrame ==
  ASSUME ReservationsExact, NEW p \in Procs,
         reservations \in [ReservationKey -> Procs \cup {Nobody}],
         reservations' = reservations,
         pc[p] \in Holding <=> pc'[p] \in Holding,
         pc[p] \in Holding => req'[p] = req[p],
         \A q \in Procs \ {p} : pc'[q] = pc[q] /\ req'[q] = req[q]
  PROVE  ReservationsExact'
<1>1. ASSUME NEW q \in Procs, pc'[q] \in Holding
      PROVE  owns(q)'
  <2>1. pc[q] \in Holding /\ req'[q] = req[q]
    BY <1>1, Zenon
  <2> QED
    BY <2>1, Zenon DEF ReservationsExact, owns
<1>2. ASSUME NEW k \in ReservationKey, reservations'[k] # Nobody
      PROVE  pc'[reservations'[k]] \in Holding /\ keyOf(req'[reservations'[k]]) = k
  <2>1. reservations[k] \in Procs /\ pc[reservations[k]] \in Holding /\ keyOf(req[reservations[k]]) = k
    BY <1>2, Zenon DEF ReservationsExact
  <2>2. CASE reservations[k] = p
    BY <2>1, <2>2, Zenon
  <2>3. CASE reservations[k] # p
    BY <2>1, <2>3, Zenon
  <2> QED
    BY <2>2, <2>3, Zenon
<1> QED
  BY <1>1, <1>2, Zenon DEF ReservationsExact

\* HOLD and WAIT tell whether the commit domain was free.
LEMMA VerdictAndTable ==
  ASSUME NEW r
  PROVE  /\ reserveVerdict(r) = "HOLD" => reservations[keyOf(r)] = Nobody
         /\ reserveVerdict(r) = "WAIT" => reservations[keyOf(r)] # Nobody
<1>1. CASE r.op = "publish"
  BY <1>1 DEF reserveVerdict, publishVerdict
<1>2. CASE r.op = "activate"
  BY <1>2, ZenonT(40) DEF reserveVerdict, activateVerdict
<1>3. CASE r.op \notin {"publish", "activate"}
  <2>1. reserveVerdict(r) = writeVerdict(r)
    BY <1>3, Zenon DEF reserveVerdict
  <2>2. replayVerdict(r) \in {"REPLAYED", "CONFLICT"}
    BY Zenon DEF replayVerdict
  <2>3. contendedVerdict(r, reservations[keyOf(r)]) \in {"WAIT", "CONFLICT"}
    BY DEF contendedVerdict
  <2> QED
    BY <2>1, <2>2, <2>3 DEF writeVerdict
<1> QED
  BY <1>1, <1>2, <1>3

\* The key of a mutation is a key of the reservation table.
LEMMA KeyType ==
  ASSUME NEW r \in Requests, r.op \in Mutations
  PROVE  keyOf(r) \in ReservationKey
BY RequestShape, Zenon DEF keyOf, ReservationKey, Mutations

\* Taking a free reservation.
LEMMA ReservationTaken ==
  ASSUME TypeOK, ReservationsExact, NEW p \in Procs, pc[p] = "reserve",
         reserveVerdict(req[p]) = "HOLD",
         reservations' = [reservations EXCEPT ![keyOf(req[p])] = p],
         Goto(p, "held"), UNCHANGED req
  PROVE  ReservationsExact'
<1> DEFINE key == keyOf(req[p])
<1>1. reservations[key] = Nobody /\ reservations \in [ReservationKey -> Procs \cup {Nobody}]
  BY VerdictAndTable DEF TypeOK
<1>2. key \in ReservationKey
  BY TypeGroups, CallPlaces, KeyType, Zenon
<1>3. pc' = [pc EXCEPT ![p] = "held"] /\ pc \in [Procs -> PC]
  BY Zenon DEF Goto, TypeOK
<1> HIDE DEF key
<1>4. ASSUME NEW q \in Procs, pc'[q] \in Holding
      PROVE  owns(q)'
  <2>1. CASE q = p
    BY <1>1, <1>2, <2>1, ZenonT(40) DEF owns, key
  <2>2. CASE q # p
    <3>1. pc[q] \in Holding
      BY <1>3, <1>4, <2>2, ZenonT(40)
    <3>2. reservations[keyOf(req[q])] = q
      BY <3>1 DEF ReservationsExact, owns
    <3>3. keyOf(req[q]) # key
      BY <1>1, <3>2, ProcsAssumption, Zenon
    <3> QED
      BY <1>1, <3>2, <3>3 DEF owns, key
  <2> QED
    BY <2>1, <2>2, Zenon
<1>5. ASSUME NEW k \in ReservationKey, reservations'[k] # Nobody
      PROVE  pc'[reservations'[k]] \in Holding /\ keyOf(req'[reservations'[k]]) = k
  <2>1. CASE k = key
    BY <1>1, <1>2, <1>3, <2>1, Zenon DEF Holding, key
  <2>2. CASE k # key
    <3>1. reservations'[k] = reservations[k] /\ reservations[k] \in Procs
      BY <1>1, <1>5, <2>2, Zenon DEF key
    <3>2. pc[reservations[k]] \in Holding /\ keyOf(req[reservations[k]]) = k
      BY <1>5, <3>1 DEF ReservationsExact
    <3> QED
      BY <1>3, <3>1, <3>2 DEF Holding
  <2> QED
    BY <2>1, <2>2, Zenon
<1> QED
  BY <1>4, <1>5, Zenon DEF ReservationsExact

\* Giving it back.
LEMMA ReservationReleased ==
  ASSUME TypeOK, ReservationsExact, NEW p \in Procs, Release(p)
  PROVE  ReservationsExact'
<1> DEFINE key == keyOf(req[p])
<1>1. reservations[key] = p /\ reservations \in [ReservationKey -> Procs \cup {Nobody}]
  BY DEF TypeOK, ReservationsExact, Release, owns, Holding
<1>2. key \in ReservationKey
  BY TypeGroups, CallPlaces, KeyType, Zenon DEF Release, Holding
<1>3. /\ pc' = [pc EXCEPT ![p] = "done"] /\ pc \in [Procs -> PC] /\ req' = req
      /\ reservations' = [reservations EXCEPT ![key] = Nobody]
  BY <1>1, Zenon DEF Goto, TypeOK, Release, owns
<1>4. ASSUME NEW q \in Procs, pc'[q] \in Holding
      PROVE  owns(q)'
  <2>1. q # p /\ pc[q] \in Holding
    BY <1>3, <1>4 DEF Holding
  <2>2. reservations[keyOf(req[q])] = q
    BY <2>1, Zenon DEF ReservationsExact, owns
  <2>3. keyOf(req[q]) # key
    BY <1>1, <2>1, <2>2, Zenon
  <2> QED
    BY <1>1, <1>3, <2>2, <2>3 DEF owns
<1>5. ASSUME NEW k \in ReservationKey, reservations'[k] # Nobody
      PROVE  pc'[reservations'[k]] \in Holding /\ keyOf(req'[reservations'[k]]) = k
  <2>1. k # key /\ reservations'[k] = reservations[k] /\ reservations[k] \in Procs
    BY <1>1, <1>2, <1>3, <1>5, ZenonT(40)
  <2>2. pc[reservations[k]] \in Holding /\ keyOf(req[reservations[k]]) = k
    BY <1>5, <2>1 DEF ReservationsExact
  <2>3. reservations[k] # p
    BY <2>1, <2>2, Zenon
  <2> QED
    BY <1>3, <2>1, <2>2, <2>3
<1> QED
  BY <1>4, <1>5, ZenonT(40) DEF ReservationsExact

\* ReservationFrame for a step described by the control point it goes to.
LEMMA ReservationGoto ==
  ASSUME TypeOK, ReservationsExact, NEW p \in Procs, NEW label,
         Goto(p, label), UNCHANGED <<reservations, req>>,
         pc[p] \in Holding <=> label \in Holding
  PROVE  ReservationsExact'
<1>1. /\ pc'[p] = label
      /\ \A q \in Procs \ {p} : pc'[q] = pc[q]
      /\ reservations \in [ReservationKey -> Procs \cup {Nobody}]
  BY Zenon DEF Goto, TypeOK
<1> QED
  BY <1>1, ReservationFrame, Zenon

\* No step breaks the correspondence: early returns go through the release.
LEMMA ReservationStep ==
  ASSUME TypeOK, ReservationsExact, [Next]_vars
  PROVE  ReservationsExact'
<1>1. ASSUME NEW p \in Procs, Reserve(p)
      PROVE  ReservationsExact'
  <2>1. \/ /\ reserveVerdict(req[p]) = "HOLD"
           /\ reservations' = [reservations EXCEPT ![keyOf(req[p])] = p]
           /\ Goto(p, "held") /\ UNCHANGED req
        \/ (Goto(p, "await") \/ Goto(p, "done")) /\ UNCHANGED <<reservations, req>>
    BY <1>1, Zenon DEF Reserve, FinishRead, Finish
  <2>2. pc[p] = "reserve" /\ {"reserve", "await", "done"} \cap Holding = {}
    BY <1>1, Zenon DEF Reserve, Holding
  <2> QED
    BY <2>1, <2>2, ReservationTaken, ReservationGoto, Zenon
<1>2. ASSUME NEW p \in Procs, FailEvent(p) \/ ReadClock(p) \/ ClockFails(p) \/ Abandon(p)
      PROVE  ReservationsExact'
  <2>1. PICK label : /\ Goto(p, label) /\ UNCHANGED <<reservations, req>>
                     /\ pc[p] \in Holding <=> label \in Holding
    BY <1>2 DEF FailEvent, ReadClock, ClockFails, Abandon, Decide, Finish, Holding
  <2> QED
    BY <2>1, ReservationGoto, Zenon
<1>3. ASSUME NEW p \in Procs, Commit(p) \/ Refuse(p)
      PROVE  ReservationsExact'
  <2>1. Goto(p, "release") /\ UNCHANGED <<reservations, req>> /\ pc[p] = "commit"
    BY <1>3, Zenon DEF Commit, CommitRevision, CommitActivation, CommitData, Refuse, Decide
  <2> QED
    BY <2>1, ReservationGoto DEF Holding
<1>4. ASSUME NEW p \in Procs, \/ Awake(p) \/ OpenSnapshot(p) \/ Unpark(p) \/ Unregister(p)
                              \/ ListEvents(p) \/ GiveUp(p)
      PROVE  ReservationsExact'
  <2>1. PICK label \in {"reserve", "park", "unpark", "open", "done"} : Goto(p, label)
    BY <1>4, Zenon DEF Awake, OpenSnapshot, Unpark, Unregister, ListEvents, GiveUp, Finish, FinishRead
  <2>2. UNCHANGED <<reservations, req>>
    BY <1>4, Zenon DEF Awake, OpenSnapshot, Unpark, Unregister, ListEvents, GiveUp, Finish, FinishRead
  <2>3. pc[p] \notin Holding
    BY <1>4, Zenon DEF Awake, OpenSnapshot, Unpark, Unregister, ListEvents, GiveUp, Holding
  <2> QED
    BY <2>1, <2>2, <2>3, ReservationGoto DEF Holding
<1>5. ASSUME NEW p \in Procs, Read(p)
      PROVE  ReservationsExact'
  <2>1. Goto(p, "done") /\ UNCHANGED <<reservations, req>> /\ pc[p] = "read"
    BY <1>5, Zenon DEF Read, ListActivationHistory, Resolve, GetRevision, GetDataGeneration,
                Finish, FinishRead
  <2> QED
    BY <2>1, ReservationGoto DEF Holding
<1>6. ASSUME NEW p \in Procs, Call(p) \/ Return(p)
      PROVE  ReservationsExact'
  <2>1. /\ reservations' = reservations
        /\ pc[p] \notin Holding /\ pc'[p] \notin Holding
        /\ \A q \in Procs \ {p} : pc'[q] = pc[q] /\ req'[q] = req[q]
        /\ reservations \in [ReservationKey -> Procs \cup {Nobody}]
    <3>1. pc \in [Procs -> PC] /\ reservations \in [ReservationKey -> Procs \cup {Nobody}]
          /\ req \in [Procs -> Requests \cup {NoRequest}]
      BY Zenon DEF TypeOK
    <3> QED
      BY <1>6, <3>1 DEF Call, Return, Goto, entry, Holding
  <2> QED
    BY <2>1, ReservationFrame, Zenon
<1>7. ASSUME UNCHANGED <<reservations, pc, req>>
      PROVE  ReservationsExact'
  BY <1>7, Zenon DEF ReservationsExact, owns
<1>8. ASSUME \/ armNextEventFailure \/ ElsewhereCommit \/ UNCHANGED vars
             \/ \E p \in Procs : Cancel(p)
      PROVE  UNCHANGED <<reservations, pc, req>>
  BY <1>8, Zenon DEF armNextEventFailure, ElsewhereCommit, vars, Cancel
<1> QED
  BY <1>1, <1>2, <1>3, <1>4, <1>5, <1>6, <1>7, <1>8, ReservationReleased DEF Next, Step

-----------------------------------------------------------------------------
(* Validation survives the unlocked clock call.                              *)

\* What a mutation checked under its first lock and its reservation protects.
Validated(p) ==
  LET r == req[p]
  IN CASE r.op = "publish" -> revisions[r.id] = Nil
       [] r.op = "activate" ->
            /\ revisions[r.target] # Nil
            /\ activationExpectationMatches(r.expectation, slots[r.slot])
            /\ slots[r.slot].current.generation # MaxUint64
            /\ slots[r.slot].current.generation = loc[p].generation
       [] OTHER ->
            /\ generation = r.expected /\ generation = loc[p].generation
            /\ revisions[r.revision] # Nil
            /\ idempotency[r.key].generation = 0
            /\ loc[p].contents = applyWrite(contents, r)
            /\ PrefixFree(loc[p].contents)

Uncommitted == {"held", "clock", "commit"}

ReservedStateFixed == \A p \in Procs : pc[p] \in Uncommitted => Validated(p)

\* Whatever is still valid passes the checks of the second critical section.
LEMMA ValidatedPasses ==
  ASSUME TypeOK, ReservationsExact, ReservedStateFixed
  PROVE  ValidatedStaysValid
<1> SUFFICES ASSUME NEW p \in Procs, pc[p] \in Uncommitted
             PROVE  /\ commitVerdict(p) \in {"OK", "RESOURCE_EXHAUSTED"}
                    /\ commitVerdict(p) = "RESOURCE_EXHAUSTED" => sequencesExhausted
  BY Zenon DEF ValidatedStaysValid, Uncommitted
<1>1. owns(p) /\ Validated(p) /\ pc[p] \in Holding
  BY DEF ReservationsExact, ReservedStateFixed, Uncommitted, Holding
<1>2. req[p].op \in Mutations
  BY <1>1, TypeGroups, CallPlaces, Zenon
<1>3. CASE req[p].op = "publish"
  BY <1>1, <1>3, Zenon DEF commitVerdict, publishCommitVerdict, Validated
<1>4. CASE req[p].op = "activate"
  BY <1>1, <1>4 DEF commitVerdict, activateCommitVerdict, Validated
<1>5. CASE req[p].op = "write"
  BY <1>1, <1>5, Zenon DEF commitVerdict, writeCommitVerdict, Validated
<1> QED
  BY <1>2, <1>3, <1>4, <1>5 DEF Mutations

\* The first critical section validates what it reserves.
LEMMA HoldValidates ==
  ASSUME TypeOK, NEW p \in Procs, pc[p] = "reserve", reserveVerdict(req[p]) = "HOLD",
         loc' = [loc EXCEPT ![p] = candidateOf(req[p])], UNCHANGED <<store, req>>
  PROVE  Validated(p)'
<1>1. req[p] \in Requests /\ req[p].op \in Mutations
  BY TypeGroups, CallPlaces, Zenon
<1>2. loc'[p] = candidateOf(req[p]) /\ req'[p] = req[p]
  BY DEF TypeOK
<1>3. CASE req[p].op = "publish"
  BY <1>2, <1>3, Zenon DEF reserveVerdict, publishVerdict, Validated, store
<1>4. CASE req[p].op = "activate"
  <2>1. loc'[p].generation = slots[req[p].slot].current.generation
    BY <1>2, <1>4 DEF candidateOf
  <2> QED
    BY <1>2, <1>4, <2>1, Zenon DEF reserveVerdict, activateVerdict, Validated, store,
       activationExpectationMatches
<1>5. CASE req[p].op = "write"
  <2>1. loc'[p].generation = generation /\ loc'[p].contents = applyWrite(contents, req[p])
    BY <1>2, <1>5 DEF candidateOf
  <2>2. writeVerdict(req[p]) = "HOLD"
    BY <1>5 DEF reserveVerdict
  <2>3. /\ idempotency[req[p].key].generation = 0
        /\ revisions[req[p].revision] # Nil
        /\ generation = req[p].expected
        /\ PrefixFree(applyWrite(contents, req[p]))
    BY <2>2, Zenon DEF writeVerdict, contendedVerdict, replayVerdict
  <2> QED
    BY <1>2, <1>5, <2>1, <2>3 DEF Validated, store, PrefixFree, applyWrite
<1> QED
  BY <1>1, <1>3, <1>4, <1>5, Zenon DEF Mutations

\* A step that leaves the stored state alone and goroutine p where it was, or
\* advances it without touching the candidate.
LEMMA ValidatedFrame ==
  ASSUME NEW p \in Procs, Validated(p), UNCHANGED store, req'[p] = req[p],
         loc'[p].generation = loc[p].generation, loc'[p].contents = loc[p].contents
  PROVE  Validated(p)'
<1>1. CASE req[p].op = "publish"
  BY <1>1, Zenon DEF Validated, store
<1>2. CASE req[p].op = "activate"
  BY <1>2, Zenon DEF Validated, store, activationExpectationMatches
<1>3. CASE req[p].op \notin {"publish", "activate"}
  BY <1>3, Zenon DEF Validated, store, PrefixFree, applyWrite
<1> QED
  BY <1>1, <1>2, <1>3

\* Two goroutines that hold reservations hold different ones.
LEMMA HoldersDiffer ==
  ASSUME ReservationsExact, NEW p \in Procs, NEW q \in Procs, p # q,
         pc[p] \in Holding, pc[q] \in Holding
  PROVE  keyOf(req[p]) # keyOf(req[q])
BY DEF ReservationsExact, owns

\* A commit changes only what its own commit domain covers, and adds revisions.
LEMMA CommitKeepsOthersValid ==
  ASSUME TypeOK, ReservationsExact, ReservedStateFixed, ClockRead,
         NEW p \in Procs, Commit(p), NEW q \in Procs, q # p, pc[q] \in Uncommitted
  PROVE  Validated(q)'
<1>1. Validated(q) /\ pc[q] \in Holding /\ pc[p] \in Holding
  BY Zenon DEF ReservedStateFixed, Uncommitted, Holding, Commit
<1>2. keyOf(req[p]) # keyOf(req[q])
  BY <1>1, HoldersDiffer, Zenon
<1>3. req[q] \in Requests /\ req[q].op \in Mutations /\ req[p] \in Requests
  <2>1. CallTypeOK
    BY TypeGroups
  <2>2. pc[p] # "idle" /\ pc[q] # "idle"
    BY <1>1, Zenon DEF Holding
  <2> QED
    BY <1>1, <2>1, <2>2, CallPlaces, Zenon
<1>4. /\ req' = req /\ loc' = loc
      /\ slots \in [Slots -> SlotState] /\ revisions \in [RevisionIds -> Metadata \cup {Nil}]
  <2>1. req' = req /\ loc' = loc
    BY Zenon DEF Commit, CommitRevision, CommitActivation, CommitData, Decide
  <2> QED
    BY <2>1, Zenon DEF TypeOK
<1> DEFINE now == effectiveTimeLocked(loc[p].now)
<1> HIDE DEF now
<1>5. CASE CommitRevision(p, now)
  <2>1. /\ req[p].op = "publish" /\ req[p].id \in RevisionIds /\ req[p].metadata \in Metadata
        /\ revisions' = [revisions EXCEPT ![req[p].id] = req[p].metadata]
        /\ UNCHANGED <<slots, generation, contents, idempotency>>
    BY <1>3, <1>5, RequestShape, Zenon DEF CommitRevision
  <2>2. \A id \in RevisionIds : revisions[id] # Nil => revisions'[id] # Nil
    BY <1>4, <2>1, NilAssumption, Zenon
  <2>3. req[q].op # "publish"
    BY <1>2, <2>1 DEF keyOf
  <2>4. CASE req[q].op = "activate"
    <3>1. req[q].target \in RevisionIds
      BY <1>3, <2>4, RequestShape
    <3> QED
      BY <1>1, <1>4, <2>1, <2>2, <2>4, <3>1, ZenonT(40) DEF Validated, activationExpectationMatches
  <2>5. CASE req[q].op = "write"
    <3>1. req[q].revision \in RevisionIds
      BY <1>3, <2>5, RequestShape, Zenon
    <3> QED
      BY <1>1, <1>4, <2>1, <2>2, <2>5, <3>1, Zenon DEF Validated, PrefixFree, applyWrite
  <2> QED
    BY <1>3, <2>3, <2>4, <2>5 DEF Mutations
<1>6. CASE CommitActivation(p, now)
  <2>1. /\ req[p].op = "activate" /\ req[p].slot \in Slots
        /\ \A s \in Slots \ {req[p].slot} : slots'[s] = slots[s]
        /\ UNCHANGED <<revisions, generation, contents, idempotency>>
    BY <1>3, <1>4, <1>6, RequestShape, Zenon DEF CommitActivation
  <2>2. CASE req[q].op = "activate"
    <3>1. req[q].slot \in Slots /\ req[q].slot # req[p].slot
      BY <1>2, <1>3, <2>1, <2>2, RequestShape, Zenon DEF keyOf
    <3> QED
      BY <1>1, <1>4, <2>1, <2>2, <3>1, Zenon DEF Validated, activationExpectationMatches
  <2>3. CASE req[q].op = "publish"
    BY <1>1, <1>4, <2>1, <2>3, Zenon DEF Validated
  <2>4. CASE req[q].op = "write"
    BY <1>1, <1>4, <2>1, <2>4 DEF Validated, PrefixFree, applyWrite
  <2> QED
    BY <1>3, <2>2, <2>3, <2>4, Zenon DEF Mutations
<1>7. CASE CommitData(p, now)
  <2>1. req[p].op = "write" /\ UNCHANGED <<revisions, slots>>
    BY <1>7 DEF CommitData
  <2>2. req[q].op # "write"
    BY <1>2, <2>1 DEF keyOf
  <2>3. CASE req[q].op = "publish"
    BY <1>1, <1>4, <2>1, <2>3, Zenon DEF Validated
  <2>4. CASE req[q].op = "activate"
    BY <1>1, <1>4, <2>1, <2>4, Zenon DEF Validated, activationExpectationMatches
  <2> QED
    BY <1>3, <2>2, <2>3, <2>4, ZenonT(40) DEF Mutations
<1> QED
  BY <1>5, <1>6, <1>7, Zenon DEF Commit, now

\* What is reserved stays as it was validated, whatever runs during Clock.Now.
LEMMA ReservedStateStep ==
  ASSUME TypeOK, ReservationsExact, ClockRead, ReservedStateFixed, [Next]_vars
  PROVE  ReservedStateFixed'
<1>0. pc \in [Procs -> PC] /\ loc \in [Procs -> Local]
      /\ req \in [Procs -> Requests \cup {NoRequest}]
  BY Zenon DEF TypeOK
<1>a. ASSUME NEW p \in Procs, NEW label, Goto(p, label),
             label \in Uncommitted => pc[p] \in Uncommitted,
             UNCHANGED <<store, req, loc>>
      PROVE  ReservedStateFixed'
  <2> SUFFICES ASSUME NEW q \in Procs, pc'[q] \in Uncommitted
               PROVE  Validated(q)'
    BY Zenon DEF ReservedStateFixed
  <2>1. pc[q] \in Uncommitted
    BY <1>0, <1>a, Zenon DEF Goto
  <2> QED
    BY <1>a, <2>1, ValidatedFrame, Zenon DEF ReservedStateFixed
<1>1. ASSUME NEW p \in Procs, Reserve(p)
      PROVE  ReservedStateFixed'
  <2>1. \/ /\ reserveVerdict(req[p]) = "HOLD" /\ loc' = [loc EXCEPT ![p] = candidateOf(req[p])]
           /\ Goto(p, "held")
        \/ (Goto(p, "await") \/ Goto(p, "done")) /\ loc' = loc
    BY <1>1, Zenon DEF Reserve, FinishRead, Finish
  <2>2. UNCHANGED <<store, req>> /\ pc[p] = "reserve"
    BY <1>1, Zenon DEF Reserve, FinishRead, Finish
  <2>3. CASE reserveVerdict(req[p]) = "HOLD" /\ loc' = [loc EXCEPT ![p] = candidateOf(req[p])]
             /\ Goto(p, "held")
    <3> SUFFICES ASSUME NEW q \in Procs, pc'[q] \in Uncommitted
                 PROVE  Validated(q)'
      BY Zenon DEF ReservedStateFixed
    <3>1. CASE q = p
      BY <2>2, <2>3, <3>1, HoldValidates, Zenon
    <3>2. CASE q # p
      <4>1. pc[q] \in Uncommitted /\ loc'[q] = loc[q]
        BY <1>0, <2>3, <3>2 DEF Goto
      <4> QED
        BY <2>2, <4>1, ValidatedFrame, Zenon DEF ReservedStateFixed
    <3> QED
      BY <3>1, <3>2
  <2>4. CASE (Goto(p, "await") \/ Goto(p, "done")) /\ loc' = loc
    BY <1>a, <2>2, <2>4, Zenon DEF Uncommitted
  <2> QED
    BY <2>1, <2>3, <2>4
<1>2. ASSUME NEW p \in Procs, ReadClock(p)
      PROVE  ReservedStateFixed'
  <2> SUFFICES ASSUME NEW q \in Procs, pc'[q] \in Uncommitted
               PROVE  Validated(q)'
    BY DEF ReservedStateFixed
  <2>1. pc[q] \in Uncommitted
    BY <1>0, <1>2 DEF ReadClock, Goto, Uncommitted
  <2>2. loc'[q].generation = loc[q].generation /\ loc'[q].contents = loc[q].contents
    BY <1>0, <1>2 DEF ReadClock, Local
  <2>3. UNCHANGED <<store, req>>
    BY <1>2, Zenon DEF ReadClock
  <2> QED
    BY <2>1, <2>2, <2>3, ValidatedFrame, Zenon DEF ReservedStateFixed
<1>3. ASSUME NEW p \in Procs, FailEvent(p) \/ ClockFails(p) \/ Abandon(p) \/ Refuse(p) \/ Release(p)
      PROVE  ReservedStateFixed'
  <2>1. Goto(p, "done") \/ Goto(p, "release") \/ (Goto(p, "clock") /\ pc[p] = "held")
    <3>1. CASE FailEvent(p)
      BY <3>1, Zenon DEF FailEvent, Decide
    <3>2. CASE ClockFails(p) \/ Abandon(p)
      BY <3>2, Zenon DEF ClockFails, Abandon, Decide, Finish
    <3>3. CASE Refuse(p) \/ Release(p)
      BY <3>3, Zenon DEF Refuse, Release, Decide
    <3> QED
      BY <1>3, <3>1, <3>2, <3>3
  <2>2. UNCHANGED <<store, req, loc>>
    BY <1>3, Zenon DEF FailEvent, ClockFails, Abandon, Refuse, Release, Decide, Finish
  <2> QED
    BY <1>a, <2>1, <2>2, Zenon DEF Uncommitted
<1>4. ASSUME NEW p \in Procs, Commit(p)
      PROVE  ReservedStateFixed'
  <2> SUFFICES ASSUME NEW q \in Procs, pc'[q] \in Uncommitted
               PROVE  Validated(q)'
    BY DEF ReservedStateFixed
  <2>1. Goto(p, "release")
    BY <1>4, Zenon DEF Commit, CommitRevision, CommitActivation, CommitData, Decide
  <2>2. q # p /\ pc[q] \in Uncommitted
    BY <1>0, <2>1, Zenon DEF Goto, Uncommitted
  <2> QED
    BY <1>4, <2>2, CommitKeepsOthersValid, Zenon
<1>5. ASSUME NEW p \in Procs, \/ Awake(p) \/ OpenSnapshot(p) \/ Unpark(p) \/ Unregister(p) \/ GiveUp(p)
      PROVE  ReservedStateFixed'
  <2>1. PICK label \in {"reserve", "park", "unpark", "open", "done"} : Goto(p, label)
    BY <1>5, Zenon DEF Awake, OpenSnapshot, Unpark, Unregister, GiveUp, Finish, FinishRead
  <2>2. UNCHANGED <<store, req, loc>>
    BY <1>5, Zenon DEF Awake, OpenSnapshot, Unpark, Unregister, GiveUp, Finish, FinishRead
  <2> QED
    BY <1>a, <2>1, <2>2, Zenon DEF Uncommitted
<1>6. ASSUME NEW p \in Procs, Read(p)
      PROVE  ReservedStateFixed'
  <2>1. Goto(p, "done") /\ UNCHANGED <<store, req, loc>>
    BY <1>6, Zenon DEF Read, ListActivationHistory, Resolve, GetRevision, GetDataGeneration,
                Finish, FinishRead
  <2> QED
    BY <1>a, <2>1 DEF Uncommitted
\* The remaining steps may change the event stream or the clock, which no
\* reservation protects.
<1>b. ASSUME NEW q \in Procs, pc[q] \in Uncommitted, req'[q] = req[q], loc'[q] = loc[q],
             UNCHANGED <<revisions, slots, generation, contents, idempotency>>
      PROVE  Validated(q)'
  <2>1. Validated(q)
    BY <1>b DEF ReservedStateFixed
  <2>2. CASE req[q].op = "publish"
    BY <1>b, <2>1, <2>2, Zenon DEF Validated
  <2>3. CASE req[q].op = "activate"
    BY <1>b, <2>1, <2>3 DEF Validated, activationExpectationMatches
  <2>4. CASE req[q].op \notin {"publish", "activate"}
    BY <1>b, <2>1, <2>4, Zenon DEF Validated, PrefixFree, applyWrite
  <2> QED
    BY <2>2, <2>3, <2>4, Zenon
<1>7. ASSUME NEW p \in Procs, ListEvents(p)
      PROVE  ReservedStateFixed'
  <2>1. /\ Goto(p, "done") /\ UNCHANGED <<req, loc>>
        /\ UNCHANGED <<revisions, slots, generation, contents, idempotency>>
    BY <1>7, Zenon DEF ListEvents, Finish, FinishRead
  <2>2. \A q \in Procs : pc'[q] \in Uncommitted => pc[q] \in Uncommitted
    BY <1>0, <2>1 DEF Goto, Uncommitted
  <2> QED
    BY <1>b, <2>1, <2>2, Zenon DEF ReservedStateFixed
<1>8. ASSUME NEW p \in Procs, Call(p) \/ Return(p)
      PROVE  ReservedStateFixed'
  <2>1. UNCHANGED <<revisions, slots, generation, contents, idempotency>>
    BY <1>8 DEF Call, Return, store
  <2>2. \A q \in Procs : pc'[q] \in Uncommitted =>
          pc[q] \in Uncommitted /\ req'[q] = req[q] /\ loc'[q] = loc[q]
    BY <1>0, <1>8, ZenonT(40) DEF Call, Return, Goto, entry, Uncommitted
  <2> QED
    BY <1>b, <2>1, <2>2, Zenon DEF ReservedStateFixed
<1>9. ASSUME \/ armNextEventFailure \/ ElsewhereCommit \/ UNCHANGED vars
             \/ \E p \in Procs : Cancel(p)
      PROVE  ReservedStateFixed'
  <2>1. UNCHANGED <<revisions, slots, generation, contents, idempotency, pc, req, loc>>
    BY <1>9 DEF armNextEventFailure, ElsewhereCommit, vars, store, Cancel
  <2> QED
    BY <1>b, <2>1, Zenon DEF ReservedStateFixed
<1> QED
  BY <1>1, <1>2, <1>3, <1>4, <1>5, <1>6, <1>7, <1>8, <1>9, Zenon DEF Next, Step

\* The invariant the remaining theorems start from.
ReservationInv == TypeOK /\ ClockRead /\ ReservationsExact /\ ReservedStateFixed

-----------------------------------------------------------------------------
(* What the reservations buy: the data generations and the attribute tree.   *)

\* Only a data commit changes the data state; it starts from the generation the
\* writer validated, under a key that has no record.
LEMMA DataChanges ==
  ASSUME ReservationInv, [Next]_vars
  PROVE  \/ UNCHANGED <<generation, contents, idempotency>>
         \/ \E p \in Procs :
              /\ req[p].key \in IdempotencyKeys
              /\ idempotency[req[p].key].generation = 0
              /\ PrefixFree(loc[p].contents)
              /\ contents' = loc[p].contents
              /\ generation' = generation + 1
              /\ idempotency' = [idempotency EXCEPT ![req[p].key] =
                   [fingerprint |-> FingerprintWriteData(req[p]), generation |-> generation + 1]]
<1>1. ASSUME NEW p \in Procs, Step(p), ~ Commit(p)
      PROVE  UNCHANGED <<generation, contents, idempotency>>
  BY <1>1, Zenon DEF Step, Reserve, Awake, FailEvent, ReadClock, ClockFails, Abandon, Refuse, Release,
     OpenSnapshot, Unpark, Unregister, ListEvents, Read, GiveUp, store
<1>2. ASSUME NEW p \in Procs, Commit(p), req[p].op # "write"
      PROVE  UNCHANGED <<generation, contents, idempotency>>
  BY <1>2, Zenon DEF Commit, CommitRevision, CommitActivation, CommitData
<1>3. ASSUME NEW p \in Procs, Commit(p), req[p].op = "write"
      PROVE  /\ req[p].key \in IdempotencyKeys
             /\ idempotency[req[p].key].generation = 0
             /\ PrefixFree(loc[p].contents)
             /\ contents' = loc[p].contents
             /\ generation' = generation + 1
             /\ idempotency' = [idempotency EXCEPT ![req[p].key] =
                   [fingerprint |-> FingerprintWriteData(req[p]), generation |-> generation + 1]]
  <2>1. req[p] \in Requests
    BY <1>3, CommitFacts DEF ReservationInv
  <2>2. req[p].key \in IdempotencyKeys
    BY <1>3, <2>1, RequestShape, Zenon
  <2>3. Validated(p)
    BY <1>3, Zenon DEF Commit, ReservationInv, ReservedStateFixed, Uncommitted
  <2>4. /\ loc[p].generation = generation /\ PrefixFree(loc[p].contents)
        /\ idempotency[req[p].key].generation = 0
    BY <1>3, <2>3 DEF Validated
  <2>5. CommitData(p, effectiveTimeLocked(loc[p].now))
    BY <1>3, Zenon DEF Commit, CommitRevision, CommitActivation
  <2> QED
    BY <2>2, <2>4, <2>5, ZenonT(40) DEF CommitData
<1>4. ASSUME \/ \E p \in Procs : Call(p) \/ Return(p) \/ Cancel(p)
             \/ armNextEventFailure \/ ElsewhereCommit \/ UNCHANGED vars
      PROVE  UNCHANGED <<generation, contents, idempotency>>
  BY <1>4, Zenon DEF Call, Return, Cancel, armNextEventFailure, ElsewhereCommit, vars, store
<1> QED
  BY <1>1, <1>2, <1>3, <1>4, Zenon DEF Next

\* One more generation under a key that had no record keeps the generations
\* recorded once.
LEMMA GenerationsStep ==
  ASSUME ReservationInv, GenerationsRecordedOnce, [Next]_vars
  PROVE  GenerationsRecordedOnce'
<1>0. /\ generation \in Nat
      /\ \A k \in IdempotencyKeys : idempotency[k].generation \in Nat
      /\ idempotency \in [IdempotencyKeys -> IdempotencyState \cup {NoRecord}]
  <2>1. /\ generation \in Counter
        /\ idempotency \in [IdempotencyKeys -> IdempotencyState \cup {NoRecord}]
    BY Zenon DEF ReservationInv, TypeOK
  <2>2. Counter \subseteq Nat /\ 0 \in Nat
    BY BoundsAssumption DEF Counter
  <2>3. ASSUME NEW k \in IdempotencyKeys
        PROVE  idempotency[k].generation \in Nat
    <3>1. idempotency[k] \in IdempotencyState \/ idempotency[k] = NoRecord
      BY <2>1, Zenon
    <3>2. CASE idempotency[k] \in IdempotencyState
      BY <2>2, <3>2, Zenon DEF IdempotencyState
    <3>3. CASE idempotency[k] = NoRecord
      BY <3>3 DEF NoRecord
    <3> QED
      BY <3>1, <3>2, <3>3, Zenon
  <2> QED
    BY <2>1, <2>2, <2>3, Zenon
<1>1. CASE UNCHANGED <<generation, contents, idempotency>>
  BY <1>1, Zenon DEF GenerationsRecordedOnce
<1>2. ASSUME NEW key \in IdempotencyKeys, NEW record,
             idempotency[key].generation = 0, record.generation = generation + 1,
             generation' = generation + 1, idempotency' = [idempotency EXCEPT ![key] = record]
      PROVE  GenerationsRecordedOnce'
  <2>1. /\ idempotency'[key].generation = generation + 1
        /\ \A k \in IdempotencyKeys \ {key} : idempotency'[k] = idempotency[k]
    BY <1>0, <1>2, Zenon
  <2>2. \A k \in IdempotencyKeys : idempotency'[k].generation <= generation'
    BY <1>0, <1>2, <2>1 DEF GenerationsRecordedOnce
  <2>3. \A j, k \in IdempotencyKeys :
          idempotency'[j].generation = idempotency'[k].generation /\ j # k
            => idempotency'[j].generation = 0
    BY <1>0, <1>2, <2>1 DEF GenerationsRecordedOnce
  <2>4. ASSUME NEW g \in 1..generation'
        PROVE  \E k \in IdempotencyKeys : idempotency'[k].generation = g
    <3>1. CASE g = generation + 1
      BY <2>1, <3>1, Zenon
    <3>2. CASE g # generation + 1
      <4>1. g \in 1..generation
        BY <1>0, <1>2, <3>2
      <4>2. PICK k \in IdempotencyKeys : idempotency[k].generation = g
        BY <4>1 DEF GenerationsRecordedOnce
      <4> QED
        BY <1>2, <2>1, <4>1, <4>2
    <3> QED
      BY <3>1, <3>2, Zenon
  <2> QED
    BY <2>2, <2>3, <2>4, Zenon DEF GenerationsRecordedOnce
<1>3. ASSUME NEW p \in Procs, req[p].key \in IdempotencyKeys,
             idempotency[req[p].key].generation = 0, generation' = generation + 1,
             idempotency' = [idempotency EXCEPT ![req[p].key] =
               [fingerprint |-> FingerprintWriteData(req[p]), generation |-> generation + 1]]
      PROVE  GenerationsRecordedOnce'
  <2> DEFINE record == [fingerprint |-> FingerprintWriteData(req[p]),
                        generation |-> generation + 1]
  <2>1. record.generation = generation + 1
    BY Zenon
  <2> QED
    BY <1>2, <1>3, <2>1, Zenon
<1> QED
  BY <1>1, <1>3, DataChanges, Zenon

-----------------------------------------------------------------------------
(* The shared wait of OpenSnapshot.                                          *)

liveWaits == {p \in Procs : waitOn[p] = "live"}

\* Only an opener between registering and unregistering has a wait; while it is
\* parked and nobody has closed that wait, its generation is not there.
waitOK(p) ==
  /\ pc[p] \notin {"park", "unpark"} => waitOn[p] = "none"
  /\ pc[p] = "park" => waitOn[p] # "none"
  /\ waitOn[p] # "orphan"
  /\ pc[p] = "park" /\ waitOn[p] = "live" => generation < req[p].minimum

WaitInv == waitRefs = Cardinality(liveWaits) /\ \A p \in Procs : waitOK(p)

\* A step that moves goroutines outside the wait and keeps the generation.
LEMMA WaitFrame ==
  ASSUME WaitInv, waitRefs' = waitRefs, waitOn' = waitOn, generation' = generation,
         \A p \in Procs : \/ pc'[p] = pc[p] /\ req'[p] = req[p]
                          \/ pc[p] \notin {"park", "unpark"} /\ pc'[p] \notin {"park", "unpark"}
                          \/ pc[p] = "park" /\ pc'[p] = "unpark"
  PROVE  WaitInv'
<1>1. liveWaits' = liveWaits
  BY Zenon DEF liveWaits
<1>2. ASSUME NEW p \in Procs
      PROVE  waitOK(p)'
  <2>1. waitOK(p)
    BY Zenon DEF WaitInv
  <2> QED
    BY <1>2, <2>1, Zenon DEF waitOK
<1> QED
  BY <1>1, <1>2, Zenon DEF WaitInv

\* OpenSnapshot registers one more reference to the wait of a generation that is
\* not there, or answers at once.
LEMMA WaitRegister ==
  ASSUME Counts(Procs), TypeOK, WaitInv, NEW p \in Procs, OpenSnapshot(p)
  PROVE  WaitInv'
<1>0. /\ pc \in [Procs -> PC] /\ waitOn \in [Procs -> {"none", "live", "closed", "orphan"}]
      /\ pc[p] = "open" /\ generation' = generation /\ waitOK(p)
  BY DEF TypeOK, OpenSnapshot, WaitInv, store
<1>1. CASE Goto(p, "done") /\ UNCHANGED <<waits, req>>
  <2>1. \A q \in Procs : \/ pc'[q] = pc[q] /\ req'[q] = req[q]
                         \/ pc[q] \notin {"park", "unpark"} /\ pc'[q] \notin {"park", "unpark"}
    BY <1>0, <1>1 DEF Goto
  <2> QED
    BY <1>0, <1>1, <2>1, WaitFrame, Zenon DEF waits
<1>2. CASE /\ generation < req[p].minimum /\ waitRefs' = waitRefs + 1
           /\ waitOn' = [waitOn EXCEPT ![p] = "live"] /\ Goto(p, "park") /\ UNCHANGED req
  <2>1. waitOn[p] = "none"
    BY <1>0, Zenon DEF waitOK
  <2>2. liveWaits' = liveWaits \cup {p} /\ p \notin liveWaits
    BY <1>0, <1>2, <2>1, Zenon DEF liveWaits
  <2>3. Cardinality(liveWaits') = Cardinality(liveWaits) + 1
    BY <2>2, ZenonT(40) DEF Counts, liveWaits
  <2>4. ASSUME NEW q \in Procs
        PROVE  waitOK(q)'
    <3>1. CASE q = p
      BY <1>0, <1>2, <3>1, Zenon DEF waitOK, Goto
    <3>2. CASE q # p
      <4>1. waitOK(q) /\ pc'[q] = pc[q] /\ waitOn'[q] = waitOn[q]
        BY <1>0, <1>2, <3>2 DEF WaitInv, Goto
      <4> QED
        BY <1>0, <1>2, <4>1, Zenon DEF waitOK
    <3> QED
      BY <3>1, <3>2, Zenon
  <2> QED
    BY <1>2, <2>3, <2>4, Zenon DEF WaitInv
<1> QED
  BY <1>1, <1>2, ZenonT(40) DEF OpenSnapshot, FinishRead, Finish

\* The last one to leave a live wait leaves nobody behind on it.
LEMMA WaitUnregister ==
  ASSUME Counts(Procs), TypeOK, WaitInv, NEW p \in Procs, Unregister(p)
  PROVE  WaitInv'
<1> DEFINE last == waitOn[p] = "live" /\ waitRefs = 1
<1>0. /\ pc \in [Procs -> PC] /\ waitOn \in [Procs -> {"none", "live", "closed", "orphan"}]
      /\ pc[p] = "unpark" /\ generation' = generation /\ waitOK(p) /\ req' = req
      /\ waitRefs = Cardinality(liveWaits)
  BY DEF TypeOK, Unregister, WaitInv, store
<1>1. /\ waitRefs' = IF waitOn[p] = "live" THEN waitRefs - 1 ELSE waitRefs
      /\ waitOn' = [q \in Procs |-> IF q = p THEN "none"
                                    ELSE IF last /\ waitOn[q] = "live" THEN "orphan"
                                    ELSE waitOn[q]]
      /\ pc'[p] \in {"done", "open"} /\ \A q \in Procs \ {p} : pc'[q] = pc[q]
  BY <1>0, Zenon DEF Unregister, unregisterGenerationWait, Goto
<1>2. last => liveWaits = {p}
  <2>1. SUFFICES ASSUME last PROVE liveWaits = {p}
    BY Zenon
  <2>2. p \in liveWaits /\ Cardinality(liveWaits) = 1
    BY <1>0, <2>1, Zenon DEF liveWaits
  <2>3. liveWaits \in SUBSET Procs /\ liveWaits \ {p} \in SUBSET Procs
    BY DEF liveWaits
  <2>4. Cardinality(liveWaits \ {p}) = Cardinality(liveWaits) - 1
    BY <2>2, <2>3, Zenon DEF Counts
  <2>5. Cardinality(liveWaits \ {p}) = 0
    BY <2>2, <2>4
  <2>6. liveWaits \ {p} = {}
    BY <2>3, <2>5, Zenon DEF Counts
  <2> QED
    BY <2>2, <2>6, Zenon
<1>3. waitOn' = [waitOn EXCEPT ![p] = "none"]
  <2>1. \A q \in Procs \ {p} : ~ (last /\ waitOn[q] = "live")
    BY <1>2, Zenon DEF liveWaits
  <2> HIDE DEF last
  <2> QED
    BY <1>0, <1>1, <2>1, Zenon
<1>4. waitRefs' = Cardinality(liveWaits')
  <2>1. liveWaits' = liveWaits \ {p}
    BY <1>0, <1>3, Zenon DEF liveWaits
  <2>2. CASE waitOn[p] = "live"
    <3>1. p \in liveWaits /\ liveWaits \in SUBSET Procs
      BY <2>2 DEF liveWaits
    <3>2. Cardinality(liveWaits \ {p}) = Cardinality(liveWaits) - 1
      BY <3>1, Zenon DEF Counts
    <3> QED
      BY <1>0, <1>1, <2>1, <2>2, <3>2, Zenon
  <2>3. CASE waitOn[p] # "live"
    <3>1. liveWaits \ {p} = liveWaits
      BY <2>3 DEF liveWaits
    <3> QED
      BY <1>0, <1>1, <2>1, <2>3, <3>1, Zenon
  <2> QED
    BY <2>2, <2>3
<1>5. ASSUME NEW q \in Procs
      PROVE  waitOK(q)'
  <2>1. CASE q = p
    BY <1>0, <1>1, <1>3, <2>1, Zenon DEF waitOK
  <2>2. CASE q # p
    <3>1. waitOK(q) /\ pc'[q] = pc[q] /\ waitOn'[q] = waitOn[q]
      BY <1>0, <1>1, <1>3, <2>2 DEF WaitInv
    <3> QED
      BY <1>0, <3>1, Zenon DEF waitOK
  <2> QED
    BY <2>1, <2>2
<1> QED
  BY <1>4, <1>5, ZenonT(40) DEF WaitInv

\* A data commit closes the wait under the lock that moves the generation.
LEMMA WaitCommit ==
  ASSUME Counts(Procs), TypeOK, WaitInv, NEW p \in Procs, Commit(p)
  PROVE  WaitInv'
<1>0. /\ pc \in [Procs -> PC] /\ waitOn \in [Procs -> {"none", "live", "closed", "orphan"}]
      /\ pc[p] = "commit" /\ Goto(p, "release") /\ req' = req
  BY Zenon DEF TypeOK, Commit, CommitRevision, CommitActivation, CommitData, Decide
<1>1. CASE UNCHANGED <<generation, waits>>
  <2>1. \A q \in Procs : \/ pc'[q] = pc[q] /\ req'[q] = req[q]
                         \/ pc[q] \notin {"park", "unpark"} /\ pc'[q] \notin {"park", "unpark"}
    BY <1>0, ZenonT(40) DEF Goto
  <2> QED
    BY <1>1, <2>1, WaitFrame, Zenon DEF waits
<1>2. CASE notifyGenerationWaiters
  <2>1. /\ waitRefs' = 0
        /\ \A q \in Procs : waitOn'[q] = IF waitOn[q] = "live" THEN "closed" ELSE waitOn[q]
    BY <1>2, Zenon DEF notifyGenerationWaiters
  <2>2. liveWaits' = {}
    BY <2>1, Zenon DEF liveWaits
  <2>3. Cardinality(liveWaits') = 0
    BY <2>2, Zenon DEF Counts
  <2>4. ASSUME NEW q \in Procs
        PROVE  waitOK(q)'
    <3>1. waitOK(q) /\ (pc'[q] \in {"park", "unpark"} <=> pc[q] \in {"park", "unpark"})
          /\ (pc'[q] = "park" <=> pc[q] = "park")
      BY <1>0, Zenon DEF WaitInv, Goto
    <3>2. waitOn'[q] # "live"
      BY <2>1, Zenon
    <3> QED
      BY <2>1, <3>1, <3>2, Zenon DEF waitOK
  <2> QED
    BY <2>1, <2>3, <2>4 DEF WaitInv
<1> QED
  BY <1>1, <1>2, Zenon DEF Commit, CommitRevision, CommitActivation, CommitData

\* Every other step leaves the wait alone, or only stops being parked on it.
LEMMA WaitStep ==
  ASSUME Counts(Procs), TypeOK, WaitInv, [Next]_vars
  PROVE  WaitInv'
<1>0. pc \in [Procs -> PC] /\ req \in [Procs -> Requests \cup {NoRequest}]
  BY DEF TypeOK
<1>1. ASSUME NEW p \in Procs, UNCHANGED <<waits, generation>>,
             \A q \in Procs \ {p} : pc'[q] = pc[q] /\ req'[q] = req[q],
             \/ pc[p] \notin {"park", "unpark"} /\ pc'[p] \notin {"park", "unpark"}
             \/ pc[p] = "park" /\ pc'[p] = "unpark"
      PROVE  WaitInv'
  <2>1. \A q \in Procs : \/ pc'[q] = pc[q] /\ req'[q] = req[q]
                         \/ pc[q] \notin {"park", "unpark"} /\ pc'[q] \notin {"park", "unpark"}
                         \/ pc[q] = "park" /\ pc'[q] = "unpark"
    BY <1>1, Zenon
  <2> QED
    BY <1>1, <2>1, WaitFrame, Zenon DEF waits
<1>2. ASSUME NEW p \in Procs, Reserve(p) \/ Awake(p) \/ FailEvent(p) \/ ReadClock(p)
      PROVE  WaitInv'
  <2>1. PICK label \in {"held", "await", "done", "reserve", "clock", "commit", "list", "release"} :
          Goto(p, label)
    BY <1>2, Zenon DEF Reserve, Awake, FailEvent, ReadClock, Finish, FinishRead, Decide
  <2>2. UNCHANGED <<waits, generation, req>> /\ pc[p] \notin {"park", "unpark"}
    BY <1>2, Zenon DEF Reserve, Awake, FailEvent, ReadClock, Finish, FinishRead, Decide, store
  <2> QED
    BY <1>0, <1>1, <2>1, <2>2 DEF Goto
<1>3. ASSUME NEW p \in Procs, \/ ClockFails(p) \/ Abandon(p) \/ Refuse(p) \/ Release(p)
                              \/ ListEvents(p) \/ GiveUp(p)
      PROVE  WaitInv'
  <2>1. PICK label \in {"done", "release"} : Goto(p, label)
    BY <1>3, Zenon DEF ClockFails, Abandon, Refuse, Release, ListEvents, GiveUp, Finish, FinishRead, Decide
  <2>2. UNCHANGED <<waits, generation, req>> /\ pc[p] \notin {"park", "unpark"}
    BY <1>3, Zenon DEF ClockFails, Abandon, Refuse, Release, ListEvents, GiveUp, Finish, FinishRead, Decide,
       store
  <2> QED
    BY <1>0, <1>1, <2>1, <2>2 DEF Goto
<1>4. ASSUME NEW p \in Procs, Read(p)
      PROVE  WaitInv'
  <2>1. Goto(p, "done") /\ UNCHANGED <<waits, generation, req>> /\ pc[p] = "read"
    BY <1>4, Zenon DEF Read, ListActivationHistory, Resolve, GetRevision, GetDataGeneration,
       Finish, FinishRead, store
  <2> QED
    BY <1>0, <1>1, <2>1 DEF Goto
<1>5. ASSUME NEW p \in Procs, Unpark(p)
      PROVE  WaitInv'
  <2>1. Goto(p, "unpark") /\ UNCHANGED <<waits, generation, req>> /\ pc[p] = "park"
    BY <1>5, Zenon DEF Unpark, store
  <2> QED
    BY <1>0, <1>1, <2>1 DEF Goto
<1>6. ASSUME NEW p \in Procs, Call(p) \/ Return(p)
      PROVE  WaitInv'
  <2>1. UNCHANGED <<waits, generation>> /\ pc[p] \in {"idle", "done"}
    BY <1>6 DEF Call, Return, store
  <2>2. /\ \A q \in Procs \ {p} : pc'[q] = pc[q] /\ req'[q] = req[q]
        /\ pc'[p] \notin {"park", "unpark"}
    BY <1>0, <1>6 DEF Call, Return, Goto, entry
  <2> QED
    BY <1>1, <2>1, <2>2, Zenon
<1>7. ASSUME \/ armNextEventFailure \/ ElsewhereCommit \/ UNCHANGED vars
             \/ \E p \in Procs : Cancel(p)
      PROVE  WaitInv'
  <2>1. UNCHANGED <<waits, generation, pc, req>>
    BY <1>7, Zenon DEF armNextEventFailure, ElsewhereCommit, vars, store, Cancel
  <2> QED
    BY <2>1, WaitFrame, Zenon DEF waits
<1> QED
  BY <1>2, <1>3, <1>4, <1>5, <1>6, <1>7, WaitRegister, WaitUnregister, WaitCommit, ZenonT(40) DEF Next, Step

-----------------------------------------------------------------------------
(* Acknowledged writes.                                                      *)

\* The answer goroutine p has is an acknowledgement of its write.
acknowledged(p) == req[p].op = "write" /\ result[p].status \in {"OK", "REPLAYED"}

recorded(p) ==
  /\ idempotency[req[p].key] = [fingerprint |-> FingerprintWriteData(req[p]),
                                generation |-> result[p].generation]
  /\ result[p].generation # 0

\* An idle goroutine has no answer; an acknowledgement was given for a record.
AckInv ==
  /\ \A p \in Procs : pc[p] = "idle" => result[p].status = "none"
  /\ \A p \in Procs : acknowledged(p) => recorded(p)

\* An answer reaches its goroutine and nobody else.
LEMMA Answered ==
  ASSUME result \in [Procs -> Result], NEW p \in Procs, NEW status, NEW gen, NEW page,
         Answer(p, status, gen, page)
  PROVE  /\ result'[p] = [status |-> status, generation |-> gen, page |-> page]
         /\ result'[p].status = status /\ result'[p].generation = gen
         /\ \A q \in Procs \ {p} : result'[q] = result[q]
  BY DEF Answer

\* A record that is there stays as it is.
LEMMA RecordsStay ==
  ASSUME ReservationInv, [Next]_vars, NEW k \in IdempotencyKeys,
         idempotency[k].generation # 0
  PROVE  idempotency'[k] = idempotency[k]
<1>1. idempotency \in [IdempotencyKeys -> IdempotencyState \cup {NoRecord}]
  BY DEF ReservationInv, TypeOK
<1>2. CASE UNCHANGED <<generation, contents, idempotency>>
  BY <1>2, Zenon
<1>3. CASE \E p \in Procs :
             /\ req[p].key \in IdempotencyKeys
             /\ idempotency[req[p].key].generation = 0
             /\ idempotency' = [idempotency EXCEPT ![req[p].key] =
                   [fingerprint |-> FingerprintWriteData(req[p]), generation |-> generation + 1]]
  BY <1>1, <1>3
<1> QED
  BY <1>2, <1>3, DataChanges, ZenonT(40)

\* What goroutine q was told is still true when nothing of q changed.
LEMMA AckFrame ==
  ASSUME ReservationInv, AckInv, [Next]_vars, NEW q \in Procs,
         req'[q] = req[q], result'[q] = result[q], acknowledged(q)'
  PROVE  recorded(q)'
<1>1. acknowledged(q) /\ recorded(q)
  BY DEF AckInv, acknowledged
<1>2. req[q].key \in IdempotencyKeys
  <2>1. req[q] \in Requests \cup {NoRequest} /\ req[q].op = "write"
    BY <1>1, ZenonT(40) DEF ReservationInv, TypeOK, acknowledged
  <2> QED
    BY <2>1, RequestShape, Zenon
<1>3. idempotency[req[q].key].generation # 0
  <2>1. /\ idempotency[req[q].key] = [fingerprint |-> FingerprintWriteData(req[q]),
                                      generation |-> result[q].generation]
        /\ result[q].generation # 0
    BY <1>1, Zenon DEF recorded
  <2> QED
    BY <2>1
<1>4. idempotency'[req[q].key] = idempotency[req[q].key]
  BY <1>2, <1>3, RecordsStay, Zenon
<1> QED
  BY <1>1, <1>4, ZenonT(40) DEF recorded, FingerprintWriteData

\* A replay answers with the generation of the record whose digest it matched.
LEMMA ReplayRecorded ==
  ASSUME TypeOK, NEW r \in Requests, r.op = "write", replayVerdict(r) = "REPLAYED",
         idempotency[r.key].generation # 0
  PROVE  idempotency[r.key] = [fingerprint |-> FingerprintWriteData(r),
                               generation |-> idempotency[r.key].generation]
<1>1. r.key \in IdempotencyKeys
  BY RequestShape, ZenonT(40)
<1>2. idempotency[r.key] \in IdempotencyState
  BY <1>1 DEF TypeOK, NoRecord
<1>3. idempotency[r.key].fingerprint = FingerprintWriteData(r)
  BY Zenon DEF replayVerdict
<1> QED
  BY <1>2, <1>3, Zenon DEF IdempotencyState

\* Goroutine p answers something that is not an acknowledged write, or what the
\* record of its write says.
LEMMA AckAnswer ==
  ASSUME ReservationInv, AckInv, [Next]_vars, NEW p \in Procs,
         \A q \in Procs \ {p} : pc'[q] = pc[q] /\ req'[q] = req[q] /\ result'[q] = result[q],
         pc'[p] = "idle" => result'[p].status = "none",
         acknowledged(p)' => recorded(p)'
  PROVE  AckInv'
<1>1. ASSUME NEW q \in Procs, pc'[q] = "idle"
      PROVE  result'[q].status = "none"
  BY <1>1, Zenon DEF AckInv
<1>2. ASSUME NEW q \in Procs, acknowledged(q)'
      PROVE  recorded(q)'
  <2>1. CASE q = p
    BY <1>2, <2>1, Zenon
  <2>2. CASE q # p
    BY <1>2, <2>2, AckFrame, Zenon
  <2> QED
    BY <2>1, <2>2, Zenon
<1> QED
  BY <1>1, <1>2, Zenon DEF AckInv

\* The first critical section acknowledges only replays.
LEMMA AckReserve ==
  ASSUME ReservationInv, AckInv, [Next]_vars, NEW p \in Procs, Reserve(p)
  PROVE  AckInv'
<1> DEFINE r == req[p]
           verdict == reserveVerdict(r)
<1>0. /\ pc \in [Procs -> PC] /\ result \in [Procs -> Result] /\ req' = req
      /\ idempotency' = idempotency /\ pc[p] = "reserve" /\ r \in Requests
      /\ TypeOK
  <2>1. TypeOK /\ pc[p] = "reserve"
    BY Zenon DEF ReservationInv, Reserve
  <2>2. r \in Requests
    BY <2>1, TypeGroups, CallPlaces, Zenon
  <2> QED
    BY <2>1, <2>2, Zenon DEF TypeOK, Reserve, FinishRead, Finish, store
<1>1. PICK label \in {"held", "await", "done"} : Goto(p, label)
  BY Zenon DEF Reserve, FinishRead, Finish
<1>2. \/ result' = result
      \/ \E status \in {"EXISTS", "CANCELLED"} : Answer(p, status, 0, <<>>)
      \/ /\ verdict \notin {"HOLD", "WAIT", "EXISTS"}
         /\ Answer(p, verdict, IF verdict = "REPLAYED" THEN idempotency[r.key].generation
                                                       ELSE 0, <<>>)
  BY Zenon DEF Reserve, FinishRead, Finish
<1>3. \A q \in Procs \ {p} : pc'[q] = pc[q] /\ req'[q] = req[q] /\ result'[q] = result[q]
  BY <1>0, <1>1, <1>2, Zenon DEF Goto, Answer
<1>4. pc'[p] # "idle"
  BY <1>0, <1>1, Zenon DEF Goto
<1>5. verdict # "OK"
  BY DEF reserveVerdict, publishVerdict, activateVerdict, writeVerdict, contendedVerdict,
         replayVerdict
<1>6. ASSUME acknowledged(p)'
      PROVE  recorded(p)'
  <2>1. r.op = "write"
    BY <1>0, <1>6, Zenon DEF acknowledged
  <2>2. CASE result' = result
    BY <1>0, <1>6, <2>2, AckFrame
  <2>3. CASE \E status \in {"EXISTS", "CANCELLED"} : Answer(p, status, 0, <<>>)
    <3>1. PICK status \in {"EXISTS", "CANCELLED"} : Answer(p, status, 0, <<>>)
      BY <2>3, Zenon
    <3>2. result'[p].status = status
      BY <1>0, <3>1, Answered, Zenon
    <3> QED
      BY <1>6, <3>2, Zenon DEF acknowledged
  <2>4. CASE Answer(p, verdict, IF verdict = "REPLAYED" THEN idempotency[r.key].generation
                                                        ELSE 0, <<>>)
    <3>1. verdict = "REPLAYED"
      BY <1>0, <1>5, <1>6, <2>4, Zenon DEF Answer, acknowledged
    <3>2. replayVerdict(r) = "REPLAYED" /\ idempotency[r.key].generation # 0
      BY <2>1, <3>1, Zenon DEF reserveVerdict, writeVerdict, contendedVerdict
    <3>3. result'[p].generation = idempotency[r.key].generation
      BY <1>0, <2>4, <3>1, Zenon DEF Answer
    <3>4. idempotency[r.key] = [fingerprint |-> FingerprintWriteData(r),
                                generation |-> idempotency[r.key].generation]
      BY <1>0, <2>1, <3>2, ReplayRecorded, Zenon
    <3> QED
      BY <1>0, <3>2, <3>3, <3>4, Zenon DEF recorded, FingerprintWriteData
  <2> QED
    BY <1>2, <2>2, <2>3, <2>4, Zenon
<1> QED
  BY <1>3, <1>4, <1>6, AckAnswer, Zenon

\* The second one acknowledges what it records, or again a replay.
LEMMA AckCommit ==
  ASSUME ReservationInv, AckInv, [Next]_vars, NEW p \in Procs, Commit(p) \/ Refuse(p)
  PROVE  AckInv'
<1> DEFINE r == req[p]
<1>0. /\ pc \in [Procs -> PC] /\ result \in [Procs -> Result] /\ req' = req
      /\ Goto(p, "release") /\ r \in Requests /\ r.op \in Mutations /\ TypeOK
      /\ idempotency \in [IdempotencyKeys -> IdempotencyState \cup {NoRecord}]
  <2>1. TypeOK /\ pc[p] \in Holding
    BY Zenon DEF ReservationInv, Commit, Refuse, Holding
  <2>2. r \in Requests /\ r.op \in Mutations
    BY <2>1, TypeGroups, CallPlaces, Zenon DEF Holding
  <2>3. Goto(p, "release") /\ req' = req
    BY Zenon DEF Commit, CommitRevision, CommitActivation, CommitData, Refuse, Decide
  <2> QED
    BY <2>1, <2>2, <2>3 DEF TypeOK
<1>1. \E status, gen : Answer(p, status, gen, <<>>)
  BY Zenon DEF Commit, CommitRevision, CommitActivation, CommitData, Refuse, Decide
<1>2. /\ \A q \in Procs \ {p} : pc'[q] = pc[q] /\ req'[q] = req[q] /\ result'[q] = result[q]
      /\ pc'[p] # "idle"
  BY <1>0, <1>1, Zenon DEF Goto, Answer
<1>3. ASSUME acknowledged(p)'
      PROVE  recorded(p)'
  <2>1. r.op = "write" /\ r.key \in IdempotencyKeys
    BY <1>0, <1>3, RequestShape, Zenon DEF acknowledged
  <2>2. CASE Commit(p)
    <3>1. CommitData(p, effectiveTimeLocked(loc[p].now))
      BY <2>1, <2>2, Zenon DEF Commit, CommitRevision, CommitActivation
    <3>2. loc[p].generation + 1 # 0
      BY <2>2, CommitFacts, BoundsAssumption, Zenon DEF ReservationInv
    <3>3. /\ idempotency'[r.key] = [fingerprint |-> FingerprintWriteData(r),
                                    generation |-> loc[p].generation + 1]
          /\ result'[p].generation = loc[p].generation + 1
      BY <1>0, <2>1, <3>1, Zenon DEF CommitData, Decide, Answer
    <3> QED
      BY <1>0, <3>2, <3>3, Zenon DEF recorded, FingerprintWriteData
  <2>3. CASE Refuse(p)
    <3>1. idempotency' = idempotency
      BY <2>3, Zenon DEF Refuse, store
    <3>2. /\ commitVerdict(p) # "OK"
          /\ result'[p].status = commitVerdict(p)
          /\ result'[p].generation = IF commitVerdict(p) = "REPLAYED"
                                       THEN idempotency[r.key].generation ELSE 0
      BY <1>0, <2>3, Zenon DEF Refuse, Decide, Answer
    <3>3. commitVerdict(p) = "REPLAYED"
      BY <1>3, <3>2, Zenon DEF acknowledged
    <3>4. writeCommitVerdict(r, loc[p].generation) = "REPLAYED"
      BY <2>1, <3>3, Zenon DEF commitVerdict
    <3>5. replayVerdict(r) = "REPLAYED" /\ idempotency[r.key].generation # 0
      BY <3>4, Zenon DEF writeCommitVerdict
    <3>6. idempotency[r.key] = [fingerprint |-> FingerprintWriteData(r),
                                generation |-> idempotency[r.key].generation]
      BY <1>0, <2>1, <3>5, ReplayRecorded, Zenon
    <3> QED
      BY <1>0, <3>1, <3>2, <3>3, <3>5, <3>6, Zenon DEF recorded, FingerprintWriteData
  <2> QED
    BY <2>2, <2>3
<1> QED
  BY <1>2, <1>3, AckAnswer, ZenonT(40)

\* Nothing else acknowledges a write, and an answer is gone when its call is.
LEMMA AckStep ==
  ASSUME ReservationInv, AckInv, [Next]_vars
  PROVE  AckInv'
<1>0. /\ pc \in [Procs -> PC] /\ result \in [Procs -> Result]
      /\ req \in [Procs -> Requests \cup {NoRequest}] /\ CallTypeOK
  BY TypeGroups DEF ReservationInv, TypeOK
<1>1. ASSUME NEW p \in Procs, NEW label, label # "idle", Goto(p, label), req' = req,
             \/ result' = result
             \/ \E status, gen, page : /\ Answer(p, status, gen, page)
                                       /\ status \in {"OK", "REPLAYED"} => req[p].op # "write"
      PROVE  AckInv'
  <2>1. /\ \A q \in Procs \ {p} : pc'[q] = pc[q] /\ req'[q] = req[q] /\ result'[q] = result[q]
        /\ pc'[p] # "idle"
    BY <1>0, <1>1, Zenon DEF Goto, Answer
  <2>2. acknowledged(p)' => recorded(p)'
    <3>1. CASE result' = result
      BY <1>1, <3>1, AckFrame, Zenon
    <3>2. CASE result' # result
      <4>1. PICK status, gen, page : /\ Answer(p, status, gen, page)
                                     /\ status \in {"OK", "REPLAYED"} => req[p].op # "write"
        BY <1>1, <3>2, Zenon
      <4>2. result'[p].status = status
        BY <1>0, <4>1, Answered, ZenonT(40)
      <4> QED
        BY <1>1, <4>1, <4>2, Zenon DEF acknowledged
    <3> QED
      BY <3>1, <3>2
  <2> QED
    BY <2>1, <2>2, AckAnswer, Zenon
<1>2. ASSUME NEW p \in Procs, \/ Awake(p) \/ ReadClock(p) \/ Release(p) \/ Unpark(p)
                              \/ Unregister(p)
      PROVE  AckInv'
  <2>1. PICK label \in {"reserve", "list", "commit", "done", "unpark", "open"} : Goto(p, label)
    BY <1>2, Zenon DEF Awake, ReadClock, Release, Unpark, Unregister
  <2>2. req' = req /\ (result' = result \/ Answer(p, "CANCELLED", 0, <<>>))
    BY <1>2, ZenonT(40) DEF Awake, ReadClock, Release, Unpark, Unregister
  <2> QED
    BY <1>1, <2>1, <2>2
<1>3. ASSUME NEW p \in Procs, FailEvent(p) \/ ClockFails(p) \/ Abandon(p) \/ GiveUp(p)
      PROVE  AckInv'
  <2>1. PICK label \in {"clock", "release", "done"} : Goto(p, label)
    BY <1>3, Zenon DEF FailEvent, ClockFails, Abandon, GiveUp, Decide, Finish
  <2>2. req' = req
    BY <1>3, Zenon DEF FailEvent, ClockFails, Abandon, GiveUp, Decide, Finish
  <2>3. \/ result' = result
        \/ \E status \in {"UNAVAILABLE", "INTERNAL", "CANCELLED"} : Answer(p, status, 0, <<>>)
    BY <1>3, Zenon DEF FailEvent, ClockFails, Abandon, GiveUp, Decide, Finish
  <2> QED
    BY <1>1, <2>1, <2>2, <2>3
<1>4. ASSUME NEW p \in Procs, OpenSnapshot(p) \/ ListEvents(p) \/ Read(p)
      PROVE  AckInv'
  <2>1. req[p].op # "write"
    <3>1. CASE OpenSnapshot(p) \/ ListEvents(p)
      BY <1>0, <3>1, CallPlaces, Zenon DEF OpenSnapshot, ListEvents
    <3>2. CASE Read(p)
      BY <3>2, Zenon DEF Read, ListActivationHistory, Resolve, GetRevision, GetDataGeneration
    <3> QED
      BY <1>4, <3>1, <3>2, Zenon
  <2>2. PICK label \in {"park", "done"} : Goto(p, label)
    BY <1>4, Zenon DEF OpenSnapshot, ListEvents, Read, ListActivationHistory, Resolve, GetRevision,
       GetDataGeneration, Finish, FinishRead
  <2>3. req' = req
    BY <1>4, Zenon DEF OpenSnapshot, ListEvents, Read, ListActivationHistory, Resolve, GetRevision,
       GetDataGeneration, Finish, FinishRead
  <2>4. result' = result \/ \E status, gen, page : Answer(p, status, gen, page)
    BY <1>4, Zenon DEF OpenSnapshot, ListEvents, Read, ListActivationHistory, Resolve, GetRevision,
       GetDataGeneration, Finish, FinishRead
  <2> QED
    BY <1>1, <2>1, <2>2, <2>3, <2>4, Zenon
<1>5. ASSUME NEW p \in Procs, Call(p) \/ Return(p)
      PROVE  AckInv'
  <2>1. \A q \in Procs \ {p} : pc'[q] = pc[q] /\ req'[q] = req[q] /\ result'[q] = result[q]
    BY <1>0, <1>5 DEF Call, Return, Goto
  <2>2. result'[p].status = "none"
    <3>1. CASE Call(p)
      BY <3>1, Zenon DEF Call, AckInv
    <3>2. CASE Return(p)
      BY <1>0, <3>2, Zenon DEF Return, NoResult
    <3> QED
      BY <1>5, <3>1, <3>2, Zenon
  <2>3. ~ acknowledged(p)'
    BY <2>2, Zenon DEF acknowledged
  <2> QED
    BY <2>1, <2>2, <2>3, AckAnswer, ZenonT(40)
<1>6. ASSUME \/ armNextEventFailure \/ ElsewhereCommit \/ UNCHANGED vars
             \/ \E p \in Procs : Cancel(p)
      PROVE  AckInv'
  <2>1. UNCHANGED <<pc, req, result>>
    BY <1>6 DEF armNextEventFailure, ElsewhereCommit, vars, Cancel
  <2> QED
    BY <2>1, AckFrame, ZenonT(40) DEF AckInv
<1> QED
  BY <1>2, <1>3, <1>4, <1>5, <1>6, AckReserve, AckCommit, ZenonT(40) DEF Next, Step

=============================================================================
