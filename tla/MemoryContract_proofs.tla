----------------------- MODULE MemoryContract_proofs -----------------------
(***************************************************************************)
(* What callers of the in-memory store rely on: a parked opener is woken,  *)
(* an acknowledged write stays recorded, the retained stream and the       *)
(* histories have no gap, whatever the clock returns, and neither have the *)
(* pages; and the store implements the port contracts.                     *)
(***************************************************************************)
EXTENDS MemoryStore_proofs, MemoryStoreRefinement

-----------------------------------------------------------------------------
(* The retained event stream.                                                *)

\* StreamContiguous of an arbitrary stream, without the count limit.
Ordered(values, expired, bound) ==
  /\ \A i \in 1..Len(values) : values[i].sequence = expired + i
  /\ \A i, j \in 1..Len(values) : i <= j => values[i].at <= values[j].at
  /\ \A i \in 1..Len(values) : values[i].at <= bound

\* The expiry mark moves by as many events as are cut.
LEMMA ThroughCounts ==
  ASSUME CountsPositions,
         NEW values \in Seq(Event), NEW expired \in Nat, NEW bound, NEW now \in Nat,
         Ordered(values, expired, bound)
  PROVE  prunedThrough(values, expired, now) = expired + pruneCut(values, now)
<1> DEFINE cut == pruneCut(values, now)
           through == prunedThrough(values, expired, now)
<1>1. cut \in 0..Len(values) /\ Len(values) \in Nat
  BY now \in Int, PruneCutBound
<1>2. CASE cut = 0
  BY <1>2 DEF prunedThrough
<1>3. CASE cut # 0
  <2>1. values[cut].sequence = expired + cut
    BY <1>1, <1>3 DEF Ordered
  <2>2. through = Larger(expired, values[cut].sequence)
    BY <1>3 DEF prunedThrough
  <2> HIDE DEF cut, through
  <2>3. through = expired + cut
    BY <1>1, <2>1, <2>2 DEF Larger
  <2> QED
    BY <2>3 DEF cut, through
<1> QED
  BY <1>2, <1>3

\* Pruning an ordered stream leaves an ordered stream that continues from the
\* new expiry mark, and never more events than the limit.
LEMMA PrunedOrdered ==
  ASSUME CountsPositions,
         NEW values \in Seq(Event), NEW expired \in Nat, NEW bound \in Nat, NEW now \in Nat,
         Ordered(values, expired, bound)
  PROVE  /\ Ordered(prunedValues(values, now), prunedThrough(values, expired, now), bound)
         /\ Len(prunedValues(values, now)) <= EventRetentionLimit
<1> DEFINE cut == pruneCut(values, now)
           rest == prunedValues(values, now)
           through == prunedThrough(values, expired, now)
<1>1. cut \in 0..Len(values) /\ Len(values) \in Nat
  <2>1. now \in Int /\ Len(values) \in Nat
    OBVIOUS
  <2> QED
    BY <2>1, PruneCutBound, Zenon
<1>2. Len(rest) = Len(values) - cut /\ \A i \in 1..Len(rest) : rest[i] = values[cut + i]
  <2>1. /\ Len(rest) = Len(values) - cut
        /\ \A i \in 1..(Len(values) - cut) : rest[i] = values[cut + i]
    BY PrunedStream, now \in Int, Zenon
  <2> HIDE DEF cut, rest
  <2> QED
    BY <2>1
<1>3. through = expired + cut
  BY ThroughCounts
<1>4. countCut(values) <= cut
  <2>1. countCut(values) \in Nat
    BY <1>1, BoundsAssumption DEF countCut
  <2>2. timeCut(values, now) \in Nat
    <3>1. {i \in 1..Len(values) : values[i].at <= now - EventRetention} \in SUBSET (1..Len(values))
      OBVIOUS
    <3> QED
      BY <1>1, <3>1 DEF CountsPositions, timeCut
  <2> QED
    BY <2>1, <2>2 DEF pruneCut, Larger
<1> HIDE DEF cut, rest, through
<1>5. \A i \in 1..Len(rest) : cut + i \in 1..Len(values)
  BY <1>1, <1>2
<1>6. \A i \in 1..Len(rest) : rest[i].sequence = through + i
  <2>1. ASSUME NEW i \in 1..Len(rest)
        PROVE  rest[i].sequence = through + i
    <3>1. rest[i] = values[cut + i] /\ cut + i \in 1..Len(values)
      BY <1>2, <1>5
    <3>2. values[cut + i].sequence = expired + (cut + i)
      BY <3>1 DEF Ordered
    <3> QED
      BY <1>1, <1>3, <3>1, <3>2
  <2> QED
    BY <2>1
<1>7. \A i, j \in 1..Len(rest) : i <= j => rest[i].at <= rest[j].at
  <2>1. ASSUME NEW i \in 1..Len(rest), NEW j \in 1..Len(rest), i <= j
        PROVE  rest[i].at <= rest[j].at
    <3>1. cut + i <= cut + j
      BY <1>1, <2>1
    <3> QED
      BY <1>2, <1>5, <3>1, Zenon DEF Ordered
  <2> QED
    BY <2>1
<1>8. \A i \in 1..Len(rest) : rest[i].at <= bound
  BY <1>2, <1>5 DEF Ordered
<1>9. Len(rest) <= EventRetentionLimit
  BY <1>1, <1>2, <1>4, BoundsAssumption DEF countCut
<1> QED
  BY <1>6, <1>7, <1>8, <1>9 DEF Ordered, rest, through

\* A later bound is a bound.
LEMMA OrderedLater ==
  ASSUME NEW values \in Seq(Event), NEW expired \in Nat, NEW bound \in Nat, NEW later \in Nat,
         Ordered(values, expired, bound), bound <= later
  PROVE  Ordered(values, expired, later)
<1>1. \A i \in 1..Len(values) : values[i].at <= later
  <2>1. ASSUME NEW i \in 1..Len(values)
        PROVE  values[i].at <= later
    <3>1. values[i].at \in Nat /\ values[i].at <= bound
      BY EventFields DEF Ordered
    <3> QED
      BY <3>1
  <2> QED
    BY <2>1
<1> QED
  BY <1>1 DEF Ordered

\* Appending the next sequence at a time not before the bound keeps the order.
LEMMA AppendOrdered ==
  ASSUME NEW values \in Seq(Event), NEW expired \in Nat, NEW event \in Event,
         Ordered(values, expired, event.at), event.sequence = expired + Len(values) + 1
  PROVE  Append(values, event) \in Seq(Event) /\ Ordered(Append(values, event), expired, event.at)
<1> DEFINE all == Append(values, event)
<1>1. /\ all \in Seq(Event) /\ Len(all) = Len(values) + 1 /\ Len(values) \in Nat
      /\ all[Len(values) + 1] = event
      /\ \A i \in 1..Len(values) : all[i] = values[i]
  BY Appended
<1>2. event.at \in Nat
  BY EventFields
<1> HIDE DEF all
<1>3. \A i \in 1..Len(all) : i \in 1..Len(values) \/ i = Len(values) + 1
  BY <1>1
<1>4. ASSUME NEW i \in 1..Len(all)
      PROVE  all[i].sequence = expired + i /\ all[i].at <= event.at
  <2>1. CASE i \in 1..Len(values)
    <3>1. values[i].sequence = expired + i /\ values[i].at <= event.at
      BY <2>1 DEF Ordered
    <3> QED
      BY <1>1, <2>1, <3>1
  <2>2. CASE i = Len(values) + 1
    BY <1>1, <1>2, <2>2
  <2> QED
    BY <1>3, <2>1, <2>2
<1>5. \A i \in 1..Len(all) : all[i].sequence = expired + i /\ all[i].at <= event.at
  BY <1>4
<1>6. \A i, j \in 1..Len(all) : i <= j => all[i].at <= all[j].at
  <2>1. ASSUME NEW i \in 1..Len(all), NEW j \in 1..Len(all), i <= j
        PROVE  all[i].at <= all[j].at
    <3>1. CASE j = Len(values) + 1
      BY <1>1, <1>5, <3>1
    <3>2. CASE j # Len(values) + 1
      <4>1. i \in 1..Len(values) /\ j \in 1..Len(values)
        BY <1>1, <1>3, <2>1, <3>2
      <4> QED
        BY <1>1, <2>1, <4>1, Zenon DEF Ordered
    <3> QED
      BY <3>1, <3>2
  <2> QED
    BY <2>1
<1> QED
  BY <1>1, <1>5, <1>6 DEF Ordered, all

\* The high-water mark is the expiry mark plus the retained events.
LEMMA HighWaterCounts ==
  ASSUME NEW values \in Seq(Event), NEW expired \in Nat, NEW bound, Ordered(values, expired, bound)
  PROVE  highWater(values, expired) = expired + Len(values)
<1>1. CASE values = <<>>
  BY <1>1 DEF highWater
<1>2. CASE values # <<>>
  <2>1. Len(values) \in 1..Len(values)
    BY <1>2
  <2>2. values[Len(values)].sequence = expired + Len(values)
    BY <2>1 DEF Ordered
  <2> QED
    BY <1>2, <2>1, <2>2 DEF highWater, Larger
<1> QED
  BY <1>1, <1>2

\* The effective time never goes back, although the clock may.
LEMMA EffectiveTimeGrows ==
  ASSUME TypeOK, NEW now \in Times
  PROVE  /\ effectiveTime \in Nat
         /\ effectiveTimeLocked(now) \in Nat
         /\ effectiveTimeLocked(now) \in Times
         /\ effectiveTime <= effectiveTimeLocked(now)
<1>1. effectiveTime \in Nat /\ now \in Nat
  BY TimesAssumption DEF TypeOK
<1>2. effectiveTimeLocked(now) \in Times
  BY TypeGroups, EffectiveTimeType
<1> QED
  BY <1>1, <1>2 DEF effectiveTimeLocked

\* The types the stream argument needs, and the stream seen as an ordered one.
LEMMA StreamTypes ==
  ASSUME TypeOK, StreamContiguous
  PROVE  /\ events \in Seq(Event) /\ expiredThrough \in Nat /\ effectiveTime \in Nat
         /\ Ordered(events, expiredThrough, effectiveTime)
<1>1. events \in Seq(Event) /\ expiredThrough \in Counter /\ effectiveTime \in Times \cup {0}
  BY DEF TypeOK
<1>2. expiredThrough \in Nat
  BY <1>1, BoundsAssumption DEF Counter
<1>3. effectiveTime \in Nat
  BY <1>1, TimesAssumption
<1> QED
  BY <1>1, <1>2, <1>3, Zenon DEF StreamContiguous, Ordered

\* appendEventLocked with the next sequence and an effective time.
LEMMA StreamAppend ==
  ASSUME CountsPositions, TypeOK, StreamContiguous, NEW event \in Event, appendEvent(event),
         event.sequence = nextEventSequence, effectiveTime <= event.at
  PROVE  StreamContiguous'
<1> DEFINE values == Append(events, event)
<1>1. /\ events \in Seq(Event) /\ expiredThrough \in Nat /\ effectiveTime \in Nat
      /\ Ordered(events, expiredThrough, effectiveTime) /\ event.at \in Nat
  BY StreamTypes, EventFields
<1>2. Ordered(events, expiredThrough, event.at)
  BY <1>1, OrderedLater
<1>3. event.sequence = expiredThrough + Len(events) + 1
  BY <1>1, HighWaterCounts DEF nextEventSequence
<1>4. values \in Seq(Event) /\ Ordered(values, expiredThrough, event.at)
  BY <1>1, <1>2, <1>3, AppendOrdered
<1>5. /\ events' = prunedValues(values, event.at)
      /\ expiredThrough' = prunedThrough(values, expiredThrough, event.at)
      /\ effectiveTime' = event.at
  BY DEF appendEvent
<1> HIDE DEF values
<1>6. Ordered(events', expiredThrough', effectiveTime') /\ Len(events') <= EventRetentionLimit
  BY <1>1, <1>4, <1>5, PrunedOrdered
<1> QED
  BY <1>6 DEF Ordered, StreamContiguous

\* Every commit appends the event of its mutation under the effective time.
LEMMA StreamCommit ==
  ASSUME CountsPositions, TypeOK, ClockRead, StreamContiguous, NEW p \in Procs, Commit(p)
  PROVE  StreamContiguous'
<1> DEFINE now == effectiveTimeLocked(loc[p].now)
<1>0. /\ now \in Times /\ effectiveTime <= now /\ req[p] \in Requests
      /\ nextEventSequence \in Counter \ {0}
      /\ loc[p].generation + 1 \in Counter \ {0} /\ 0 \in Counter
  <2>1. loc[p].now \in Times
    BY Zenon DEF Commit, ClockRead
  <2>2. now \in Times /\ effectiveTime <= now
    BY <2>1, EffectiveTimeGrows, Zenon
  <2> HIDE DEF now
  <2> QED
    BY <2>2, CommitFacts, BoundsAssumption DEF Counter
<1>a. CommitRevision(p, now) \/ CommitActivation(p, now) \/ CommitData(p, now)
  BY Zenon DEF Commit
<1> HIDE DEF now
<1>1. CASE CommitRevision(p, now)
  <2> DEFINE event == RevisionPublished(nextEventSequence, req[p].id, now)
  <2>1. req[p].id \in RevisionIds /\ appendEvent(event)
    BY <1>0, <1>1, RequestShape DEF CommitRevision
  <2>2. event \in Event /\ event.sequence = nextEventSequence /\ event.at = now
    BY <1>0, <2>1, Zenon DEF RevisionPublished, Event
  <2> HIDE DEF event
  <2> QED
    BY <1>0, <2>1, <2>2, StreamAppend, Zenon
<1>2. CASE CommitActivation(p, now)
  <2> DEFINE activation == [revision |-> req[p].target, generation |-> loc[p].generation + 1,
                            at |-> now]
             event == SlotActivated(nextEventSequence, req[p].slot, activation)
  <2>1. req[p].slot \in Slots /\ req[p].target \in RevisionIds /\ appendEvent(event)
    BY <1>0, <1>2, RequestShape, Zenon DEF CommitActivation
  <2>2. event \in Event /\ event.sequence = nextEventSequence /\ event.at = now
    BY <1>0, <2>1, Zenon DEF SlotActivated, Event
  <2> HIDE DEF event
  <2> QED
    BY <1>0, <2>1, <2>2, StreamAppend, Zenon
<1>3. CASE CommitData(p, now)
  <2> DEFINE event == DataWritten(nextEventSequence, loc[p].generation + 1, now)
  <2>1. appendEvent(event)
    BY <1>3, Zenon DEF CommitData
  <2>2. event \in Event /\ event.sequence = nextEventSequence /\ event.at = now
    BY <1>0, Zenon DEF DataWritten, Event
  <2> HIDE DEF event
  <2> QED
    BY <1>0, <2>1, <2>2, StreamAppend, Zenon
<1> QED
  BY <1>a, <1>1, <1>2, <1>3, Zenon

\* ListEvents prunes against the effective time it advances to.
LEMMA StreamRead ==
  ASSUME CountsPositions, TypeOK, ClockRead, StreamContiguous, NEW p \in Procs, ListEvents(p)
  PROVE  StreamContiguous'
<1> DEFINE now == effectiveTimeLocked(loc[p].now)
<1>1. loc[p].now \in Times
  BY Zenon DEF ListEvents, ClockRead
<1>2. now \in Nat /\ effectiveTime <= now
  BY <1>1, EffectiveTimeGrows
<1>3. /\ events' = prunedValues(events, now)
      /\ expiredThrough' = prunedThrough(events, expiredThrough, now)
      /\ effectiveTime' = now
  BY Zenon DEF ListEvents
<1> HIDE DEF now
<1>4. /\ events \in Seq(Event) /\ expiredThrough \in Nat
      /\ Ordered(events, expiredThrough, now)
  BY <1>2, StreamTypes, OrderedLater
<1>5. Ordered(events', expiredThrough', effectiveTime') /\ Len(events') <= EventRetentionLimit
  BY <1>2, <1>3, <1>4, PrunedOrdered, Zenon
<1> QED
  BY <1>5, Zenon DEF Ordered, StreamContiguous

\* The stream stays contiguous through every step: only a commit, a listing and
\* another namespace's commit touch it.
LEMMA StreamStep ==
  ASSUME CountsPositions, TypeOK, ClockRead, StreamContiguous, [Next]_vars
  PROVE  StreamContiguous'
<1>1. CASE UNCHANGED <<events, expiredThrough, effectiveTime>>
  BY <1>1, Zenon DEF StreamContiguous
<1>2. ASSUME NEW p \in Procs, Step(p), ~ Commit(p), ~ ListEvents(p)
      PROVE  UNCHANGED <<events, expiredThrough, effectiveTime>>
  BY <1>2, Zenon DEF Step, Reserve, Awake, FailEvent, ReadClock, ClockFails, Abandon, Refuse, Release,
     OpenSnapshot, Unpark, Unregister, Read, GiveUp, store
<1>3. ASSUME \/ \E p \in Procs : Call(p) \/ Return(p) \/ Cancel(p)
             \/ armNextEventFailure \/ UNCHANGED vars
      PROVE  UNCHANGED <<events, expiredThrough, effectiveTime>>
  BY <1>3, Zenon DEF Call, Return, Cancel, armNextEventFailure, vars, store
<1>4. CASE ElsewhereCommit
  <2>1. PICK now \in Times : effectiveTime' = effectiveTimeLocked(now)
    BY <1>4 DEF ElsewhereCommit
  <2>2. effectiveTime' \in Nat /\ effectiveTime <= effectiveTime'
    BY <2>1, EffectiveTimeGrows
  <2>3. Ordered(events, expiredThrough, effectiveTime')
    BY <2>2, StreamTypes, OrderedLater
  <2>4. events' = events /\ expiredThrough' = expiredThrough
    BY <1>4, Zenon DEF ElsewhereCommit
  <2> QED
    BY <2>3, <2>4 DEF Ordered, StreamContiguous
<1> QED
  BY <1>1, <1>2, <1>3, <1>4, StreamCommit, StreamRead DEF Next

-----------------------------------------------------------------------------
(* The activation history of a slot.                                         *)

\* HistoryIsSuffix of one slot whose activations name only known revisions.
suffix(slot, known) ==
  LET history == slot.history
      current == slot.current
  IN /\ Len(history) = IF current.generation < HistoryRetention
                         THEN current.generation ELSE HistoryRetention
     /\ history # <<>> => history[Len(history)] = current
     /\ \A i \in 1..Len(history) :
          /\ history[i].generation = current.generation - Len(history) + i
          /\ history[i].revision \in known

published == {id \in RevisionIds : revisions[id] # Nil}

HistoryInv == \A s \in Slots : suffix(slots[s], published)

\* One more activation of the next generation keeps the newest ones.
LEMMA ActivatedSuffix ==
  ASSUME NEW slot \in SlotState, NEW activation \in Activation, NEW known,
         suffix(slot, known), activation.revision \in known,
         activation.generation = slot.current.generation + 1
  PROVE  suffix(activated(slot, activation), known)
<1> DEFINE old == slot.history
           all == Append(old, activation)
           dropped == IF Len(all) > HistoryRetention THEN Len(all) - HistoryRetention ELSE 0
           new == SubSeq(all, dropped + 1, Len(all))
           g == slot.current.generation
<1>1. old \in Seq(Activation) /\ g \in Nat /\ HistoryRetention \in Nat \ {0}
  BY BoundsAssumption DEF SlotState, Activation, Counter
<1>2. /\ all \in Seq(Activation) /\ Len(all) = Len(old) + 1 /\ Len(old) \in Nat
      /\ all[Len(old) + 1] = activation
      /\ \A i \in 1..Len(old) : all[i] = old[i]
  BY <1>1, Appended
<1>3. /\ Len(old) = IF g < HistoryRetention THEN g ELSE HistoryRetention
      /\ \A i \in 1..Len(old) : old[i].generation = g - Len(old) + i /\ old[i].revision \in known
  BY Zenon DEF suffix
<1>4. activated(slot, activation) = [current |-> activation, history |-> new]
  BY Zenon DEF activated
<1> HIDE DEF all, old, g
<1>5. dropped \in 0..Len(old)
      /\ Len(all) - dropped = IF g + 1 < HistoryRetention THEN g + 1 ELSE HistoryRetention
  <2>1. /\ g \in Nat /\ HistoryRetention \in Nat \ {0} /\ Len(old) \in Nat
        /\ Len(all) = Len(old) + 1
    BY <1>1, <1>2, Zenon
  <2>2. CASE g < HistoryRetention
    <3>1. Len(old) = g
      BY <1>3, <2>2, Zenon
    <3> QED
      BY <2>1, <2>2, <3>1
  <2>3. CASE ~ (g < HistoryRetention)
    <3>1. Len(old) = HistoryRetention
      BY <1>3, <2>3, Zenon
    <3> QED
      BY <2>1, <2>3, <3>1
  <2> QED
    BY <2>2, <2>3, Zenon
<1> HIDE DEF dropped
<1>6. /\ Len(new) = Len(all) - dropped
      /\ \A i \in 1..(Len(all) - dropped) : new[i] = all[dropped + i]
  <2>1. dropped + 1 \in Int /\ Len(all) \in Int
    BY <1>2, <1>5
  <2>2. \A i \in (dropped + 1)..Len(all) : all[i] \in Activation
    BY <1>2, <1>5
  <2>3. /\ Len(new) = IF dropped + 1 <= Len(all) THEN Len(all) - (dropped + 1) + 1 ELSE 0
        /\ \A i \in 1..(Len(all) - (dropped + 1) + 1) : new[i] = all[(dropped + 1) + i - 1]
    BY <2>1, <2>2, Sliced
  <2> HIDE DEF new
  <2>4. dropped \in Nat /\ Len(all) \in Nat /\ dropped + 1 <= Len(all)
    BY <1>2, <1>5
  <2>5. Len(new) = Len(all) - dropped
    BY <2>3, <2>4
  <2>6. \A i \in 1..(Len(all) - dropped) :
          /\ i \in 1..(Len(all) - (dropped + 1) + 1)
          /\ (dropped + 1) + i - 1 = dropped + i
    BY <2>4
  <2> QED
    BY <2>3, <2>5, <2>6, Zenon
<1> HIDE DEF new
<1>7. new[Len(new)] = activation
  <2>1. Len(new) \in 1..(Len(all) - dropped) /\ dropped + Len(new) = Len(old) + 1
    BY <1>2, <1>5, <1>6
  <2> QED
    BY <1>2, <1>6, <2>1, Zenon
<1>8. ASSUME NEW i \in 1..Len(new)
      PROVE  new[i].generation = (g + 1) - Len(new) + i /\ new[i].revision \in known
  <2>1. new[i] = all[dropped + i] /\ dropped + i \in 1..(Len(old) + 1)
    BY <1>2, <1>5, <1>6
  <2>2. CASE dropped + i \in 1..Len(old)
    <3>1. new[i] = old[dropped + i]
      BY <1>2, <2>1, <2>2, Zenon
    <3>2. /\ old[dropped + i].generation = g - Len(old) + (dropped + i)
          /\ old[dropped + i].revision \in known
      BY <1>3, <2>2, Zenon
    <3> QED
      BY <1>1, <1>2, <1>5, <1>6, <3>1, <3>2
  <2>3. CASE dropped + i = Len(old) + 1
    <3>1. new[i] = activation
      BY <1>2, <2>1, <2>3, Zenon
    <3>2. activation.generation = g + 1 /\ activation.revision \in known
      BY Zenon DEF g
    <3> QED
      BY <1>1, <1>2, <1>5, <1>6, <2>3, <3>1, <3>2
  <2> QED
    BY <1>2, <2>1, <2>2, <2>3
<1>9. Len(new) = IF g + 1 < HistoryRetention THEN g + 1 ELSE HistoryRetention
  BY <1>5, <1>6
<1>10. activation.generation = g + 1
  BY Zenon DEF g
<1> QED
  BY <1>4, <1>7, <1>8, <1>9, <1>10 DEF suffix

\* Revisions are never unpublished, so a history stays what it is.
LEMMA SuffixGrows ==
  ASSUME NEW slot, NEW known, NEW more, suffix(slot, known), known \subseteq more
  PROVE  suffix(slot, more)
  BY Zenon DEF suffix

\* Only a commit that publishes or activates changes revisions or slots.
LEMMA SlotChanges ==
  ASSUME ReservationInv, [Next]_vars
  PROVE  \/ UNCHANGED <<revisions, slots>>
         \/ slots' = slots /\ published \subseteq published'
         \/ revisions' = revisions /\ \E s \in Slots, a \in Activation :
              /\ a.revision \in published
              /\ a.generation = slots[s].current.generation + 1
              /\ slots' = [slots EXCEPT ![s] = activated(slots[s], a)]
<1>1. ASSUME NEW p \in Procs, Step(p), ~ Commit(p)
      PROVE  UNCHANGED <<revisions, slots>>
  BY <1>1, ZenonT(40) DEF Step, Reserve, Awake, FailEvent, ReadClock, ClockFails, Abandon, Refuse, Release,
     OpenSnapshot, Unpark, Unregister, ListEvents, Read, GiveUp, store
<1>2. ASSUME \/ \E p \in Procs : Call(p) \/ Return(p) \/ Cancel(p)
             \/ armNextEventFailure \/ ElsewhereCommit \/ UNCHANGED vars
      PROVE  UNCHANGED <<revisions, slots>>
  BY <1>2 DEF Call, Return, Cancel, armNextEventFailure, ElsewhereCommit, vars, store
<1>3. ASSUME NEW p \in Procs, Commit(p)
      PROVE  \/ UNCHANGED <<revisions, slots>>
             \/ slots' = slots /\ published \subseteq published'
             \/ revisions' = revisions /\ \E s \in Slots, a \in Activation :
                  /\ a.revision \in published
                  /\ a.generation = slots[s].current.generation + 1
                  /\ slots' = [slots EXCEPT ![s] = activated(slots[s], a)]
  <2> DEFINE now == effectiveTimeLocked(loc[p].now)
  <2>0. /\ now \in Times /\ req[p] \in Requests /\ loc[p].generation + 1 \in Counter
        /\ revisions \in [RevisionIds -> Metadata \cup {Nil}]
    BY <1>3, CommitFacts, Zenon DEF ReservationInv, TypeOK
  <2>a. CommitRevision(p, now) \/ CommitActivation(p, now) \/ CommitData(p, now)
    BY <1>3, Zenon DEF Commit
  <2> HIDE DEF now
  <2>1. CASE CommitRevision(p, now)
    <3>1. /\ req[p].id \in RevisionIds /\ req[p].metadata \in Metadata /\ slots' = slots
          /\ revisions' = [revisions EXCEPT ![req[p].id] = req[p].metadata]
      BY <2>0, <2>1, RequestShape, Zenon DEF CommitRevision
    <3> QED
      BY <2>0, <3>1, NilAssumption DEF published
  <2>2. CASE CommitActivation(p, now)
    <3> DEFINE a == [revision |-> req[p].target, generation |-> loc[p].generation + 1, at |-> now]
    <3>1. /\ req[p].op = "activate" /\ req[p].slot \in Slots /\ req[p].target \in RevisionIds
          /\ slots' = [slots EXCEPT ![req[p].slot] = activated(slots[req[p].slot], a)]
          /\ revisions' = revisions
      BY <2>0, <2>2, RequestShape, Zenon DEF CommitActivation
    <3>2. Validated(p)
      BY <1>3, ZenonT(40) DEF Commit, ReservationInv, ReservedStateFixed, Uncommitted
    <3>3. /\ slots[req[p].slot].current.generation = loc[p].generation
          /\ revisions[req[p].target] # Nil
      BY <3>1, <3>2 DEF Validated
    <3>4. a \in Activation /\ a.revision \in published
          /\ a.generation = slots[req[p].slot].current.generation + 1
      BY <2>0, <3>1, <3>3, Zenon DEF Activation, published
    <3> HIDE DEF a
    <3> QED
      BY <3>1, <3>4, Zenon
  <2>3. CASE CommitData(p, now)
    BY <2>3, Zenon DEF CommitData
  <2> QED
    BY <2>a, <2>1, <2>2, <2>3, Zenon
<1> QED
  BY <1>1, <1>2, <1>3, Zenon DEF Next

\* The history invariant goes through every step.
LEMMA HistoryStep ==
  ASSUME ReservationInv, HistoryInv, [Next]_vars
  PROVE  HistoryInv'
<1>0. slots \in [Slots -> SlotState]
  BY DEF ReservationInv, TypeOK
<1>1. CASE UNCHANGED <<revisions, slots>>
  BY <1>1 DEF HistoryInv, published
<1>2. CASE slots' = slots /\ published \subseteq published'
  BY <1>2, SuffixGrows DEF HistoryInv
<1>3. ASSUME revisions' = revisions, NEW s \in Slots, NEW a \in Activation,
             a.revision \in published, a.generation = slots[s].current.generation + 1,
             slots' = [slots EXCEPT ![s] = activated(slots[s], a)]
      PROVE  HistoryInv'
  <2>1. published' = published
    BY <1>3 DEF published
  <2>2. ASSUME NEW t \in Slots
        PROVE  suffix(slots'[t], published)
    <3>1. CASE t = s
      BY <1>0, <1>3, <3>1, ActivatedSuffix, Zenon DEF HistoryInv
    <3>2. CASE t # s
      BY <1>0, <1>3, <3>2, Zenon DEF HistoryInv
    <3> QED
      BY <3>1, <3>2, Zenon
  <2> QED
    BY <2>1, <2>2, Zenon DEF HistoryInv
<1> QED
  BY <1>1, <1>2, <1>3, SlotChanges, Zenon

-----------------------------------------------------------------------------
(* Pages.                                                                    *)

\* A page that continues a cursor starts right after it; none skips anything.
gapless(cursor, page) ==
  \A i \in 1..Len(page) : page[i] = (IF cursor = 0 THEN page[1] ELSE cursor + 1) + i - 1

\* Of consecutive positions sort.Search counts those up to the cursor, so a page
\* after a cursor that has not expired has no gap.
LEMMA PageGapless ==
  ASSUME CountsPositions, NEW positions \in Seq(Counter), NEW base \in Nat, NEW cursor \in Counter,
         NEW limit \in Nat \ {0},
         \A i \in 1..Len(positions) : positions[i] = base + i,
         cursor = 0 \/ cursor > base \/ Len(positions) = 0
  PROVE  gapless(cursor, pageAfter(positions, cursor, limit))
<1> DEFINE n == Len(positions)
           S == {i \in 1..n : positions[i] <= cursor}
           start == Cardinality(S)
           end == IF start + limit <= n THEN start + limit ELSE n
           page == SubSeq(positions, start + 1, end)
           m == IF cursor <= base THEN 0 ELSE IF cursor - base <= n THEN cursor - base ELSE n
<1>1. n \in Nat /\ cursor \in Nat
  BY BoundsAssumption DEF Counter
<1>2. m \in 0..n
  BY <1>1
<1>3. S = 1..m
  BY <1>1
<1>4. start = m
  <2> HIDE DEF m, S
  <2>1. Cardinality(1..m) = m
    BY <1>1, <1>2 DEF CountsPositions
  <2>2. Cardinality(S) = Cardinality(1..m)
    BY <1>3, Zenon
  <2> QED
    BY <1>1, <1>2, <2>1, <2>2
<1> HIDE DEF S, start
<1>5. end \in start..n
  BY <1>1, <1>2, <1>4
<1> HIDE DEF end
<1>6. /\ Len(page) = end - start
      /\ \A i \in 1..(end - start) : page[i] = base + start + i
  <2>1. start + 1 \in Int /\ end \in Int
    BY <1>1, <1>2, <1>4, <1>5
  <2>2. \A i \in (start + 1)..end : positions[i] \in Counter /\ i \in 1..n
    BY <1>1, <1>2, <1>4, <1>5
  <2>3. /\ Len(page) = IF start + 1 <= end THEN end - (start + 1) + 1 ELSE 0
        /\ \A i \in 1..(end - (start + 1) + 1) : page[i] = positions[(start + 1) + i - 1]
    BY <2>1, <2>2, Sliced
  <2>4. start \in Nat /\ end \in Nat
    BY <1>1, <1>2, <1>4, <1>5
  <2> HIDE DEF page
  <2>5. Len(page) = end - start
    BY <1>5, <2>3, <2>4
  <2>6. ASSUME NEW i \in 1..(end - start)
        PROVE  page[i] = base + start + i
    <3>1. page[i] = positions[start + i] /\ start + i \in 1..n
      BY <1>1, <1>5, <2>3, <2>4, <2>6
    <3> QED
      BY <2>4, <3>1
  <2> QED
    BY <2>5, <2>6
<1>7. pageAfter(positions, cursor, limit) = page
  BY Zenon DEF pageAfter, page, end, start, S
<1> HIDE DEF page
<1>8. ASSUME NEW i \in 1..Len(page)
      PROVE  page[i] = (IF cursor = 0 THEN page[1] ELSE cursor + 1) + i - 1
  <2>1. /\ start \in Nat /\ end \in Nat /\ i \in 1..(end - start) /\ 1 \in 1..(end - start)
        /\ start < n
    BY <1>1, <1>2, <1>4, <1>5, <1>6
  <2>2. page[i] = base + start + i /\ page[1] = base + start + 1
    BY <1>6, <2>1, Zenon
  <2>3. CASE cursor = 0
    BY <2>1, <2>2, <2>3
  <2>4. CASE cursor # 0
    <3>1. cursor > base
      BY <1>1, <2>1, <2>4
    <3>2. base + start = cursor
      BY <1>1, <1>4, <2>1, <3>1
    <3> QED
      BY <1>1, <2>1, <2>2, <2>4, <3>2
  <2> QED
    BY <2>3, <2>4, Zenon
<1> QED
  BY <1>7, <1>8 DEF gapless

\* What PagesHaveNoGap says of one goroutine.
pageOK(p) ==
  pc[p] = "done" /\ req[p].op \in {"events", "history"} /\ result[p].status = "OK" =>
    gapless(req[p].cursor, result[p].page)

\* A step of goroutine p that leaves the others' answers alone.
LEMMA PagesFrame ==
  ASSUME PagesHaveNoGap, NEW p \in Procs, pageOK(p)',
         \A q \in Procs \ {p} : pc'[q] = pc[q] /\ req'[q] = req[q] /\ result'[q] = result[q]
  PROVE  PagesHaveNoGap'
<1>1. \A q \in Procs : pageOK(q)
  BY ZenonT(40) DEF PagesHaveNoGap, pageOK, gapless
<1>2. \A q \in Procs \ {p} : pageOK(q)'
  BY <1>1 DEF pageOK, gapless
<1>3. \A q \in Procs : pageOK(q)'
  BY <1>2
<1> QED
  BY <1>3 DEF PagesHaveNoGap, pageOK, gapless

\* A read that answers with a gapless page, or with anything but OK.
LEMMA PagesAnswer ==
  ASSUME TypeOK, PagesHaveNoGap, NEW p \in Procs, NEW status, NEW gen, NEW page,
         Finish(p, status, gen, page), status = "OK" => gapless(req[p].cursor, page)
  PROVE  PagesHaveNoGap'
<1>1. /\ pc'[p] = "done" /\ req' = req
      /\ result'[p] = [status |-> status, generation |-> gen, page |-> page]
      /\ \A q \in Procs \ {p} : pc'[q] = pc[q] /\ req'[q] = req[q] /\ result'[q] = result[q]
  BY Zenon DEF TypeOK, Finish, Goto, Answer
<1>2. pageOK(p)'
  BY <1>1 DEF pageOK, gapless
<1> QED
  BY <1>1, <1>2, PagesFrame, Zenon

\* ListEvents answers from the stream it has just pruned.
LEMMA PagesEvents ==
  ASSUME CountsPositions,
         TypeOK, TypeOK', StreamContiguous', PagesHaveNoGap, NEW p \in Procs, ListEvents(p)
  PROVE  PagesHaveNoGap'
<1> DEFINE r == req[p]
           positions == [i \in 1..Len(events') |-> events'[i].sequence]
           page == pageAfter(positions, r.cursor, r.limit)
<1>1. r.cursor \in Counter /\ r.limit \in Nat \ {0}
  <2>1. req[p] \in Requests /\ req[p].op = "events"
    BY TypeGroups, CallPlaces, Zenon DEF ListEvents
  <2> QED
    BY <2>1, RequestShape, Zenon
<1>2. IF r.cursor # 0 /\ r.cursor <= expiredThrough'
        THEN Finish(p, "CURSOR_EXPIRED", 0, <<>>)
        ELSE Finish(p, "OK", 0, page) \/ Finish(p, "CANCELLED", 0, <<>>)
  BY Zenon DEF ListEvents, FinishRead
<1>3. events' \in Seq(Event) /\ expiredThrough' \in Nat
  BY BoundsAssumption DEF TypeOK, Counter
<1>4. /\ positions \in Seq(Counter) /\ Len(positions) = Len(events')
      /\ \A i \in 1..Len(positions) : positions[i] = expiredThrough' + i
  <2>1. \A i \in 1..Len(events') : events'[i].sequence \in Counter
    BY <1>3, EventFields
  <2>2. Len(events') \in Nat
    BY <1>3
  <2> QED
    BY <2>1, <2>2 DEF StreamContiguous
<1>5. (r.cursor # 0 /\ r.cursor <= expiredThrough') \/ gapless(r.cursor, page)
  <2>1. CASE r.cursor = 0 \/ r.cursor > expiredThrough'
    <3> HIDE DEF positions
    <3> QED
      BY <1>1, <1>3, <1>4, <2>1, PageGapless, Zenon
  <2>2. CASE ~ (r.cursor = 0 \/ r.cursor > expiredThrough')
    BY <1>1, <1>3, <2>2, BoundsAssumption DEF Counter
  <2> QED
    BY <2>1, <2>2, Zenon
<1> HIDE DEF positions, page
<1> QED
  BY <1>2, <1>5, PagesAnswer

\* A page of a slot's history has no gap unless its cursor fell off the history.
LEMMA SuffixPage ==
  ASSUME CountsPositions,
         NEW slot \in SlotState, NEW known, suffix(slot, known), NEW cursor \in Counter,
         NEW limit \in Nat \ {0}
  PROVE  \/ cursor # 0 /\ slot.history # <<>> /\ cursor < slot.history[1].generation
         \/ gapless(cursor, pageAfter([i \in 1..Len(slot.history) |->
                                         slot.history[i].generation], cursor, limit))
<1> DEFINE history == slot.history
           base == slot.current.generation - Len(history)
           positions == [i \in 1..Len(history) |-> history[i].generation]
<1>1. history \in Seq(Activation) /\ slot.current.generation \in Nat /\ cursor \in Nat
  BY BoundsAssumption DEF SlotState, Activation, Counter
<1>2. Len(history) \in Nat /\ Len(history) <= slot.current.generation
  BY <1>1, BoundsAssumption DEF suffix
<1>3. \A i \in 1..Len(history) : history[i].generation = base + i
  BY Zenon DEF suffix
<1>4. base \in Nat
  BY <1>1, <1>2
<1> HIDE DEF history, base
<1>5. ASSUME NEW i \in 1..Len(history)
      PROVE  history[i].generation \in Counter
  <2>1. history[i] \in Activation
    BY <1>1, <1>5
  <2> QED
    BY <2>1, Zenon DEF Activation
<1>6. /\ positions \in Seq(Counter) /\ Len(positions) = Len(history)
      /\ \A i \in 1..Len(positions) : positions[i] = base + i
  BY <1>2, <1>3, <1>5
<1>7. CASE cursor = 0 \/ cursor > base \/ Len(history) = 0
  <2>1. gapless(cursor, pageAfter(positions, cursor, limit))
    <3> HIDE DEF positions
    <3> QED
      BY <1>4, <1>6, <1>7, PageGapless, Zenon
  <2> QED
    BY <2>1 DEF history
<1>8. CASE ~ (cursor = 0 \/ cursor > base \/ Len(history) = 0)
  <2>1. history # <<>> /\ history[1].generation = base + 1
    BY <1>1, <1>2, <1>3, <1>8
  <2>2. cursor # 0 /\ history # <<>> /\ cursor < history[1].generation
    BY <1>1, <1>4, <1>8, <2>1
  <2> QED
    BY <2>2, Zenon DEF history
<1> QED
  BY <1>7, <1>8, Zenon

\* ListActivationHistory answers from a history without gaps.
LEMMA PagesHistory ==
  ASSUME CountsPositions, TypeOK, HistoryInv, PagesHaveNoGap, NEW p \in Procs, pc[p] = "read",
         ListActivationHistory(p)
  PROVE  PagesHaveNoGap'
<1> DEFINE r == req[p]
           history == slots[r.slot].history
           page == pageAfter([i \in 1..Len(history) |-> history[i].generation],
                             r.cursor, r.limit)
<1>1. r.slot \in Slots /\ r.cursor \in Counter /\ r.limit \in Nat \ {0}
  <2>1. req[p] \in Requests /\ req[p].op = "history"
    BY TypeGroups, CallPlaces, Zenon DEF ListActivationHistory
  <2> QED
    BY <2>1, RequestShape
<1>2. IF r.cursor # 0 /\ history # <<>> /\ r.cursor < history[1].generation
        THEN Finish(p, "CURSOR_EXPIRED", 0, <<>>)
        ELSE Finish(p, "OK", 0, page) \/ Finish(p, "CANCELLED", 0, <<>>)
  BY Zenon DEF ListActivationHistory, FinishRead
<1>3. slots[r.slot] \in SlotState /\ suffix(slots[r.slot], published)
  BY <1>1 DEF TypeOK, HistoryInv
<1>4. \/ r.cursor # 0 /\ history # <<>> /\ r.cursor < history[1].generation
      \/ gapless(r.cursor, page)
  BY <1>1, <1>3, SuffixPage, Zenon
<1> HIDE DEF page
<1> QED
  BY <1>2, <1>4, PagesAnswer, Zenon

\* No other step shows a page.
LEMMA PagesStep ==
  ASSUME CountsPositions,
         ReservationInv, TypeOK', StreamContiguous', HistoryInv, PagesHaveNoGap, [Next]_vars
  PROVE  PagesHaveNoGap'
<1>0. /\ TypeOK /\ pc \in [Procs -> PC] /\ result \in [Procs -> Result]
      /\ req \in [Procs -> Requests \cup {NoRequest}] /\ CallTypeOK
  BY TypeGroups, Zenon DEF ReservationInv, TypeOK
<1>1. ASSUME NEW p \in Procs, NEW label, Goto(p, label), req' = req,
             result' = result \/ \E status, gen, page : Answer(p, status, gen, page),
             label # "done" \/ req[p].op \notin {"events", "history"}
               \/ result'[p].status # "OK"
      PROVE  PagesHaveNoGap'
  <2>1. /\ \A q \in Procs \ {p} : pc'[q] = pc[q] /\ req'[q] = req[q] /\ result'[q] = result[q]
        /\ pc'[p] = label
    BY <1>0, <1>1 DEF Goto, Answer
  <2>2. pageOK(p)'
    BY <1>1, <2>1, Zenon DEF pageOK
  <2> QED
    BY <2>1, <2>2, PagesFrame, Zenon
<1>2. ASSUME NEW p \in Procs, \/ Reserve(p) \/ Awake(p) \/ FailEvent(p) \/ Abandon(p)
                              \/ Commit(p) \/ Refuse(p) \/ Release(p)
      PROVE  PagesHaveNoGap'
  <2>1. req[p].op \notin {"events", "history"}
    <3>1. pc[p] \in {"reserve", "await"} \cup Holding
      BY <1>2, Zenon DEF Reserve, Awake, FailEvent, Abandon, Commit, Refuse, Release, Holding
    <3> QED
      BY <1>0, <3>1, CallPlaces DEF Mutations
  <2>2. \E label : Goto(p, label)
    BY <1>2, Zenon DEF Reserve, Awake, FailEvent, Abandon, Commit, CommitRevision, CommitActivation,
       CommitData, Refuse, Release, Decide, Finish, FinishRead
  <2>3. req' = req
    BY <1>2, Zenon DEF Reserve, Awake, FailEvent, Abandon, Commit, CommitRevision, CommitActivation,
       CommitData, Refuse, Release, Decide, Finish, FinishRead
  <2>4. result' = result \/ \E status, gen, page : Answer(p, status, gen, page)
    BY <1>2, Zenon DEF Reserve, Awake, FailEvent, Abandon, Commit, CommitRevision, CommitActivation,
       CommitData, Refuse, Release, Decide, Finish, FinishRead
  <2> QED
    BY <1>1, <2>1, <2>2, <2>3, <2>4, Zenon
<1>3. ASSUME NEW p \in Procs, OpenSnapshot(p) \/ Unpark(p) \/ Unregister(p)
      PROVE  PagesHaveNoGap'
  <2>1. req[p].op \notin {"events", "history"}
    BY <1>0, <1>3, CallPlaces DEF OpenSnapshot, Unpark, Unregister
  <2>2. \E label : Goto(p, label)
    BY <1>3, Zenon DEF OpenSnapshot, Unpark, Unregister, Finish, FinishRead
  <2>3. req' = req
    BY <1>3, Zenon DEF OpenSnapshot, Unpark, Unregister, Finish, FinishRead
  <2>4. result' = result \/ \E status, gen, page : Answer(p, status, gen, page)
    BY <1>3, Zenon DEF OpenSnapshot, Unpark, Unregister, Finish, FinishRead
  <2> QED
    BY <1>1, <2>1, <2>2, <2>3, <2>4, Zenon
<1>4. ASSUME NEW p \in Procs, ReadClock(p)
      PROVE  PagesHaveNoGap'
  <2>1. PICK label \in {"list", "commit"} : Goto(p, label)
    BY <1>4 DEF ReadClock
  <2>2. req' = req /\ result' = result
    BY <1>4, Zenon DEF ReadClock
  <2> QED
    BY <1>1, <2>1, <2>2, Zenon
<1>5. ASSUME NEW p \in Procs, ClockFails(p) \/ GiveUp(p)
      PROVE  PagesHaveNoGap'
  <2>1. PICK status \in {"INTERNAL", "CANCELLED"} : Answer(p, status, 0, <<>>)
    BY <1>5, Zenon DEF ClockFails, GiveUp, Decide, Finish
  <2>2. req' = req /\ \E label : Goto(p, label)
    BY <1>5, Zenon DEF ClockFails, GiveUp, Decide, Finish
  <2>3. result'[p].status # "OK"
    BY <1>0, <2>1, Zenon DEF Answer
  <2> QED
    BY <1>1, <2>1, <2>2, <2>3, Zenon
<1>6. ASSUME NEW p \in Procs, Read(p)
      PROVE  PagesHaveNoGap'
  <2>1. CASE ListActivationHistory(p)
    BY <1>0, <1>6, <2>1, PagesHistory DEF Read
  <2>2. CASE Resolve(p) \/ GetRevision(p) \/ GetDataGeneration(p)
    <3>1. req[p].op \notin {"events", "history"}
      BY <2>2 DEF Resolve, GetRevision, GetDataGeneration
    <3>2. Goto(p, "done") /\ req' = req /\ \E status, gen, page : Answer(p, status, gen, page)
      BY <2>2, Zenon DEF Resolve, GetRevision, GetDataGeneration, Finish, FinishRead
    <3> QED
      BY <1>1, <3>1, <3>2, ZenonT(40)
  <2> QED
    BY <1>6, <2>1, <2>2, Zenon DEF Read
<1>7. ASSUME NEW p \in Procs, Call(p) \/ Return(p)
      PROVE  PagesHaveNoGap'
  <2>1. \A q \in Procs \ {p} : pc'[q] = pc[q] /\ req'[q] = req[q] /\ result'[q] = result[q]
    BY <1>0, <1>7, Zenon DEF Call, Return, Goto
  <2>2. pc'[p] # "done"
    BY <1>0, <1>7, ZenonT(40) DEF Call, Return, Goto, entry
  <2>3. pageOK(p)'
    BY <2>2 DEF pageOK
  <2> QED
    BY <2>1, <2>3, PagesFrame, Zenon
<1>8. ASSUME \/ armNextEventFailure \/ ElsewhereCommit \/ UNCHANGED vars
             \/ \E p \in Procs : Cancel(p)
      PROVE  PagesHaveNoGap'
  <2>1. UNCHANGED <<pc, req, result>>
    BY <1>8 DEF armNextEventFailure, ElsewhereCommit, vars, Cancel
  <2> QED
    BY <2>1, Zenon DEF PagesHaveNoGap
<1> QED
  BY <1>0, <1>2, <1>3, <1>4, <1>5, <1>6, <1>7, <1>8, PagesEvents DEF Next, Step

-----------------------------------------------------------------------------
(* The store implements the port contracts.                                  *)

\* The abstract store and the in-memory one speak of the same records: the types
\* of the port contracts mean the same on both sides.
LEMMA SharedTypes ==
  /\ Abstract!UnsetSlot = UnsetSlot /\ Abstract!NoRecord = NoRecord
  /\ \A q, id, at : Abstract!RevisionPublished(q, id, at) = RevisionPublished(q, id, at)
  /\ \A q, s, a : Abstract!SlotActivated(q, s, a) = SlotActivated(q, s, a)
  /\ \A q, g, at : Abstract!DataWritten(q, g, at) = DataWritten(q, g, at)
  /\ \A s, a : Abstract!activated(s, a) = activated(s, a)
  /\ \A x, s : Abstract!activationExpectationMatches(x, s)
                <=> activationExpectationMatches(x, s)
  /\ \A c, r : Abstract!applyWrite(c, r) = applyWrite(c, r)
  /\ \A c : Abstract!PrefixFree(c) <=> PrefixFree(c)
  /\ \A r : Abstract!FingerprintWriteData(r) = FingerprintWriteData(r)
BY Zenon DEF Abstract!UnsetSlot, UnsetSlot, Abstract!NoActivation, NoActivation,
  Abstract!NoRecord, NoRecord, Abstract!RevisionPublished, RevisionPublished,
  Abstract!SlotActivated, SlotActivated, Abstract!DataWritten, DataWritten,
  Abstract!activated, activated,
  Abstract!activationExpectationMatches, activationExpectationMatches,
  Abstract!applyWrite, applyWrite, Abstract!PrefixFree, PrefixFree,
  Abstract!StrictPrefix, StrictPrefix, Abstract!FingerprintWriteData, FingerprintWriteData

\* appendEventLocked is Emit of the abstract store: the sequence it takes is the
\* next one, and what it prunes is a prefix of the older events.
LEMMA EmitStep ==
  ASSUME CountsPositions, TypeOK, StreamContiguous, NEW event \in Event, appendEvent(event),
         event.sequence = nextEventSequence, effectiveTime <= event.at, ~ sequencesExhausted
  PROVE  /\ nextEventSequence = Abstract!NextSequence
         /\ Abstract!Emit(event)
<1> DEFINE values == Append(events, event)
           cut == pruneCut(values, event.at)
<1>1. /\ events \in Seq(Event) /\ expiredThrough \in Nat /\ effectiveTime \in Nat
      /\ Ordered(events, expiredThrough, effectiveTime) /\ event.at \in Nat
  BY StreamTypes, EventFields, Zenon
<1>2. Ordered(events, expiredThrough, event.at)
  BY <1>1, OrderedLater, Zenon
<1>3. highWater(events, expiredThrough) = expiredThrough + Len(events)
  BY <1>1, HighWaterCounts, Zenon
<1>4. nextEventSequence = Abstract!NextSequence
  BY <1>3, Zenon DEF nextEventSequence, Abstract!NextSequence
<1>5. Abstract!NextSequence <= MaxUint64
  <2>1. nextEventSequence \in Counter
    BY HighWaterType, Zenon
  <2> QED
    BY <1>4, <2>1, BoundsAssumption DEF Counter
<1>6. values \in Seq(Event) /\ Ordered(values, expiredThrough, event.at)
  BY <1>1, <1>2, <1>3, AppendOrdered, ZenonT(40) DEF nextEventSequence
<1>7. Len(values) = Len(events) + 1 /\ cut \in 0..Len(events)
  BY <1>1, Appended, AppendCutBound
<1>8. prunedThrough(values, expiredThrough, event.at) = expiredThrough + cut
  BY <1>1, <1>6, ThroughCounts, Zenon
<1>9. /\ events' = SubSeq(Append(events, event), cut + 1, Len(events) + 1)
      /\ expiredThrough' = expiredThrough + cut
      /\ effectiveTime' = event.at
  BY <1>7, <1>8, Zenon DEF appendEvent, prunedValues
<1> HIDE DEF cut
<1>10. event.at >= effectiveTime
  BY <1>1, Zenon
<1> QED
  BY <1>4, <1>5, <1>7, <1>9, <1>10, Zenon DEF Abstract!Emit, Abstract!Advance

\* A commit is the whole mutation of the abstract store, although its checks were
\* made two critical sections earlier.
LEMMA CommitImplements ==
  ASSUME CountsPositions, ReservationInv, StreamContiguous, NEW p \in Procs, Commit(p)
  PROVE  Abstract!Next
<1> DEFINE now == effectiveTimeLocked(loc[p].now)
           r == req[p]
<1>0. /\ now \in Times /\ effectiveTime <= now /\ r \in Requests /\ r.op \in Mutations
      /\ nextEventSequence \in Counter \ {0} /\ ~ sequencesExhausted
      /\ loc[p].generation + 1 \in Counter \ {0} /\ 0 \in Counter /\ TypeOK
  <2>1. loc[p].now \in Times /\ TypeOK
    BY Zenon DEF Commit, ClockRead, ReservationInv
  <2>2. now \in Times /\ effectiveTime <= now
    BY <2>1, EffectiveTimeGrows
  <2> HIDE DEF now
  <2> QED
    BY <2>1, <2>2, CommitFacts, BoundsAssumption DEF Counter, ReservationInv
<1>a. CommitRevision(p, now) \/ CommitActivation(p, now) \/ CommitData(p, now)
  BY ZenonT(40) DEF Commit
<1>b. Validated(p)
  BY DEF Commit, ReservationInv, ReservedStateFixed, Uncommitted
<1> HIDE DEF now
<1>1. CASE CommitRevision(p, now)
  <2> DEFINE event == RevisionPublished(nextEventSequence, r.id, now)
  <2>1. /\ r.op = "publish" /\ r.id \in RevisionIds /\ appendEvent(event)
        /\ revisions' = [revisions EXCEPT ![r.id] = r.metadata]
        /\ UNCHANGED <<slots, generation, contents, idempotency>>
    BY <1>0, <1>1, RequestShape, Zenon DEF CommitRevision
  <2>2. event \in Event /\ event.sequence = nextEventSequence /\ event.at = now
    BY <1>0, <2>1, Zenon DEF RevisionPublished, Event
  <2>3. nextEventSequence = Abstract!NextSequence /\ Abstract!Emit(event)
    <3> HIDE DEF event
    <3> QED
      BY <1>0, <2>1, <2>2, EmitStep, Zenon
  <2>4. revisions[r.id] = Nil
    BY <1>b, <2>1 DEF Validated
  <2>5. Abstract!Publish(r, now)
    BY <2>1, <2>3, <2>4, SharedTypes, Zenon DEF Abstract!Publish
  <2> QED
    BY <1>0, <2>1, <2>5, Zenon DEF Abstract!Next
<1>2. CASE CommitActivation(p, now)
  <2> DEFINE activation == [revision |-> r.target, generation |-> loc[p].generation + 1,
                            at |-> now]
             event == SlotActivated(nextEventSequence, r.slot, activation)
  <2>1. /\ r.op = "activate" /\ r.slot \in Slots /\ r.target \in RevisionIds
        /\ appendEvent(event)
        /\ slots' = [slots EXCEPT ![r.slot] = activated(slots[r.slot], activation)]
        /\ UNCHANGED <<revisions, generation, contents, idempotency>>
    BY <1>0, <1>2, RequestShape, Zenon DEF CommitActivation
  <2>2. event \in Event /\ event.sequence = nextEventSequence /\ event.at = now
    BY <1>0, <2>1, Zenon DEF SlotActivated, Event
  <2>3. nextEventSequence = Abstract!NextSequence /\ Abstract!Emit(event)
    <3> HIDE DEF event
    <3> QED
      BY <1>0, <2>1, <2>2, EmitStep, Zenon
  <2>4. /\ revisions[r.target] # Nil
        /\ activationExpectationMatches(r.expectation, slots[r.slot])
        /\ slots[r.slot].current.generation # MaxUint64
        /\ slots[r.slot].current.generation = loc[p].generation
    BY <1>b, <2>1, ZenonT(40) DEF Validated
  <2>5. slots[r.slot].current.generation < MaxUint64
    <3>1. slots[r.slot].current.generation \in Counter
      BY <1>0, <2>1, Zenon DEF TypeOK, SlotState, Activation
    <3> QED
      BY <2>4, <3>1, BoundsAssumption DEF Counter
  <2>6. activation = [revision |-> r.target, at |-> now,
                      generation |-> slots[r.slot].current.generation + 1]
    BY <2>4, Zenon
  <2> HIDE DEF activation
  <2>7. Abstract!Activate(r, now)
    BY <2>1, <2>3, <2>4, <2>5, <2>6, SharedTypes, Zenon DEF Abstract!Activate
  <2> QED
    BY <1>0, <2>1, <2>7, Zenon DEF Abstract!Next
<1>3. CASE CommitData(p, now)
  <2> DEFINE event == DataWritten(nextEventSequence, loc[p].generation + 1, now)
  <2>1. /\ r.op = "write" /\ appendEvent(event)
        /\ generation' = loc[p].generation + 1 /\ contents' = loc[p].contents
        /\ idempotency' = [idempotency EXCEPT ![r.key] =
             [fingerprint |-> FingerprintWriteData(r), generation |-> loc[p].generation + 1]]
        /\ UNCHANGED <<revisions, slots>>
    BY <1>3, Zenon DEF CommitData
  <2>2. event \in Event /\ event.sequence = nextEventSequence /\ event.at = now
    BY <1>0, Zenon DEF DataWritten, Event
  <2>3. nextEventSequence = Abstract!NextSequence /\ Abstract!Emit(event)
    <3> HIDE DEF event
    <3> QED
      BY <1>0, <2>1, <2>2, EmitStep, Zenon
  <2>4. /\ generation = r.expected /\ generation = loc[p].generation
        /\ revisions[r.revision] # Nil
        /\ idempotency[r.key].generation = 0
        /\ loc[p].contents = applyWrite(contents, r)
        /\ PrefixFree(applyWrite(contents, r))
    BY <1>b, <2>1, Zenon DEF Validated
  <2>5. generation < MaxUint64
    <3>1. generation \in Counter /\ generation + 1 \in Counter
      BY <1>0, <2>4 DEF TypeOK
    <3> QED
      BY <3>1, BoundsAssumption DEF Counter
  <2>6. Abstract!WriteData(r, now)
    BY <2>1, <2>3, <2>4, <2>5, SharedTypes, Zenon DEF Abstract!WriteData
  <2> QED
    BY <1>0, <2>1, <2>6, Zenon DEF Abstract!Next
<1> QED
  BY <1>a, <1>1, <1>2, <1>3, Zenon

\* A listing enforces retention and another namespace moves the clock: both are
\* Expire of the abstract store.
LEMMA ExpireImplements ==
  ASSUME CountsPositions, ReservationInv, StreamContiguous,
         (\E p \in Procs : ListEvents(p)) \/ ElsewhereCommit
  PROVE  Abstract!Next
<1>0. TypeOK /\ ClockRead
  BY Zenon DEF ReservationInv
<1>1. /\ events \in Seq(Event) /\ expiredThrough \in Nat /\ effectiveTime \in Nat
      /\ Ordered(events, expiredThrough, effectiveTime)
  BY <1>0, StreamTypes, Zenon
<1>2. ASSUME NEW p \in Procs, ListEvents(p)
      PROVE  Abstract!Next
  <2> DEFINE now == effectiveTimeLocked(loc[p].now)
             cut == pruneCut(events, now)
  <2>1. loc[p].now \in Times
    BY <1>0, <1>2, ZenonT(40) DEF ListEvents, ClockRead
  <2>2. now \in Times /\ now \in Nat /\ effectiveTime <= now
    BY <1>0, <2>1, EffectiveTimeGrows
  <2>3. /\ effectiveTime' = now /\ events' = prunedValues(events, now)
        /\ expiredThrough' = prunedThrough(events, expiredThrough, now)
        /\ UNCHANGED <<revisions, slots, generation, contents, idempotency>>
    BY <1>2, Zenon DEF ListEvents
  <2> HIDE DEF now
  <2>4. cut \in 0..Len(events)
    BY <1>1, <2>2, now \in Int, PruneCutBound, Zenon
  <2>5. expiredThrough' = expiredThrough + cut
    BY <1>1, <2>2, <2>3, ThroughCounts, Zenon
  <2>6. events' = SubSeq(events, cut + 1, Len(events))
    BY <2>3, Zenon DEF prunedValues
  <2> HIDE DEF cut
  <2>7. now >= effectiveTime
    BY <1>1, <2>2, Zenon
  <2>8. Abstract!Expire(now)
    BY <2>3, <2>4, <2>5, <2>6, <2>7, Zenon DEF Abstract!Expire, Abstract!Advance
  <2> QED
    BY <2>2, <2>8, Zenon DEF Abstract!Next
<1>3. ASSUME ElsewhereCommit
      PROVE  Abstract!Next
  <2>1. PICK reading \in Times : effectiveTime' = effectiveTimeLocked(reading)
    BY <1>3, Zenon DEF ElsewhereCommit
  <2>2. effectiveTime' \in Times /\ effectiveTime' >= effectiveTime
    BY <1>0, <1>1, <2>1, EffectiveTimeGrows, Zenon
  <2>3. UNCHANGED <<revisions, slots, generation, contents, idempotency, events, expiredThrough>>
    BY <1>3, Zenon DEF ElsewhereCommit
  <2>4. events' = SubSeq(events, 0 + 1, Len(events)) /\ expiredThrough' = expiredThrough + 0
        /\ 0 \in 0..Len(events)
    BY <1>1, <2>3
  <2>5. Abstract!Expire(effectiveTime')
    BY <2>2, <2>3, <2>4, Zenon DEF Abstract!Expire, Abstract!Advance
  <2> QED
    BY <2>2, <2>5, Zenon DEF Abstract!Next
<1> QED
  BY <1>2, <1>3

\* Every step is a step of the abstract store, or is not seen by it.
LEMMA ContractStep ==
  ASSUME CountsPositions, ReservationInv, StreamContiguous, [Next]_vars
  PROVE  [Abstract!Next]_(Abstract!vars)
<1>1. ASSUME NEW p \in Procs, Step(p), ~ Commit(p), ~ ListEvents(p)
      PROVE  UNCHANGED Abstract!vars
  BY <1>1, Zenon DEF Step, Reserve, Awake, FailEvent, ReadClock, ClockFails, Abandon, Refuse, Release,
     OpenSnapshot, Unpark, Unregister, Read, GiveUp, store, Abstract!vars
<1>2. ASSUME \/ \E p \in Procs : Call(p) \/ Return(p) \/ Cancel(p)
             \/ armNextEventFailure \/ UNCHANGED vars
      PROVE  UNCHANGED Abstract!vars
  BY <1>2, Zenon DEF Call, Return, Cancel, armNextEventFailure, vars, store, Abstract!vars
<1> QED
  BY <1>1, <1>2, CommitImplements, ExpireImplements, Zenon DEF Next

-----------------------------------------------------------------------------
(* The theory of finite sets, and the theorems.                              *)

INSTANCE FiniteSetTheorems

\* Counting the members of an index range that satisfy a condition gives a
\* number within the range: what sort.Search returns is a legal slice bound.
LEMMA PositionsCounted == CountsPositions
<1>1. \A n \in Nat : IsFiniteSet(1..n) /\ Cardinality(1..n) = n
  BY FS_Interval, SMT
<1>2. ASSUME NEW n \in Nat, NEW S \in SUBSET (1..n)
      PROVE  Cardinality(S) \in 0..n
  <2>1. IsFiniteSet(1..n) /\ Cardinality(1..n) = n
    BY <1>1, Zenon
  <2>2. IsFiniteSet(S) /\ Cardinality(S) <= n
    BY <2>1, FS_Subset, Zenon
  <2>3. Cardinality(S) \in Nat
    BY <2>2, FS_CardinalityType, Zenon
  <2> QED
    BY <2>2, <2>3
<1> QED
  BY <1>1, <1>2, Zenon DEF CountsPositions

\* The goroutines can be counted, so the references to a shared wait can.
LEMMA ProcsCounted == Counts(Procs)
<1>1. ASSUME NEW S \in SUBSET Procs
      PROVE  IsFiniteSet(S) /\ Cardinality(S) \in Nat
  BY ProcsAssumption, FS_Subset, FS_CardinalityType, Zenon
<1>2. ASSUME NEW S \in SUBSET Procs
      PROVE  /\ Cardinality(S) = 0 => S = {}
             /\ \A x \in S : Cardinality(S \ {x}) = Cardinality(S) - 1
             /\ \A x \in Procs \ S : Cardinality(S \cup {x}) = Cardinality(S) + 1
  BY <1>1, FS_EmptySet, FS_AddElement, FS_RemoveElement
<1>3. Cardinality({}) = 0 /\ \A x : Cardinality({x}) = 1
  BY FS_EmptySet, FS_Singleton, Zenon
<1> QED
  BY <1>1, <1>2, <1>3, Zenon DEF Counts

\* Every reachable state of the store is well typed: no counter overflows, and
\* no call is found at a control point that is not its own.
THEOREM TypeCorrect == Spec => []TypeOK
<1>1. Init => TypeOK /\ ClockRead
  BY TypeInit, Zenon DEF Init, ClockRead
<1>2. TypeOK /\ ClockRead /\ [Next]_vars => TypeOK' /\ ClockRead'
  BY TypeStep, PositionsCounted, Zenon
<1> QED
  BY <1>1, <1>2, PTL DEF Spec

\* A goroutine between its first and third critical section owns the reservation
\* of its commit domain, and no reservation is left behind, whatever early
\* return, cancellation, clock or event failure the call meets.
THEOREM ReservationsAreExact == Spec => []ReservationsExact
<1>1. Init => ReservationsExact
  BY ProcsAssumption, Zenon DEF Init, ReservationsExact, Holding
<1>2. TypeOK /\ ReservationsExact /\ [Next]_vars => ReservationsExact'
  BY ReservationStep, Zenon
<1> QED
  BY <1>1, <1>2, TypeCorrect, PTL DEF Spec

\* It holds in every reachable state.
LEMMA ReservationInvariance == Spec => []ReservationInv
<1>1. Init => ClockRead /\ ReservedStateFixed
  BY Zenon DEF Init, ClockRead, ReservedStateFixed, Uncommitted
<1>2. TypeOK /\ ClockRead /\ ReservationsExact /\ ReservedStateFixed /\ [Next]_vars
        => ClockRead' /\ ReservedStateFixed'
  BY ClockReadStep, ReservedStateStep, Zenon
<1> QED
  BY <1>1, <1>2, TypeCorrect, ReservationsAreExact, PTL DEF Spec, ReservationInv

\* What PutRevision, Activate and WriteData validated under the first lock holds
\* when they commit, although Clock.Now ran without the mutex in between.
THEOREM ValidationSurvives == Spec => []ValidatedStaysValid
<1>1. ReservationInv => ValidatedStaysValid
  BY ValidatedPasses, Zenon DEF ReservationInv
<1> QED
  BY <1>1, ReservationInvariance, PTL

\* Every generation from 1 to the current one was made by exactly one recorded
\* write: concurrent writers, replays and cancelled calls never share, skip or
\* overwrite one.
THEOREM GenerationsRecorded == Spec => []GenerationsRecordedOnce
<1>1. Init => GenerationsRecordedOnce
  <2> SUFFICES ASSUME Init
               PROVE  GenerationsRecordedOnce
    BY Zenon
  <2>1. generation = 0 /\ \A k \in IdempotencyKeys : idempotency[k].generation = 0
    BY Zenon DEF Init, NoRecord
  <2> QED
    BY <2>1 DEF GenerationsRecordedOnce
<1>2. ReservationInv /\ GenerationsRecordedOnce /\ [Next]_vars => GenerationsRecordedOnce'
  BY GenerationsStep, Zenon
<1> QED
  BY <1>1, <1>2, ReservationInvariance, PTL DEF Spec

\* The attribute tree never holds a path and a strict prefix of it: the version a
\* writer publishes is the one it checked, and it replaces the version it read.
THEOREM AttributesPrefixFree == Spec => []ContentsPrefixFree
<1>1. Init => ContentsPrefixFree
  BY Zenon DEF Init, ContentsPrefixFree, PrefixFree
<1>2. ContentsPrefixFree /\ ReservationInv /\ [Next]_vars => ContentsPrefixFree'
  BY DataChanges, Zenon DEF ContentsPrefixFree, PrefixFree
<1> QED
  BY <1>1, <1>2, ReservationInvariance, PTL DEF Spec

\* Nobody parks on a wait the store has forgotten, and nobody stays parked on one
\* whose generation is there: leaving, cancelling and notifying the shared wait of
\* waitForGeneration never race into a lost wakeup.
THEOREM WakeupsKept == Spec => []NoLostWakeup
<1>1. Init => WaitInv
  <2> SUFFICES ASSUME Init PROVE WaitInv
    OBVIOUS
  <2>1. liveWaits = {} /\ waitRefs = 0
    BY Zenon DEF Init, liveWaits
  <2>2. \A p \in Procs : waitOK(p)
    BY Zenon DEF Init, waitOK
  <2> QED
    BY <2>1, <2>2, ProcsCounted, Zenon DEF WaitInv, Counts
<1>2. TypeOK /\ WaitInv /\ [Next]_vars => WaitInv'
  BY WaitStep, ProcsCounted, Zenon
<1>3. TypeOK /\ WaitInv => NoLostWakeup
  BY Zenon DEF WaitInv, waitOK, NoLostWakeup, TypeOK
<1> QED
  BY <1>1, <1>2, <1>3, TypeCorrect, PTL DEF Spec

\* A write that was acknowledged keeps its record, with its own digest and the
\* generation the caller was told, however many writers, replays and duplicates
\* of it run: WriteData never gives one key two meanings.
THEOREM AcknowledgedStays == Spec => []AcknowledgedWritesRecorded
<1>1. Init => AckInv
  BY DEF Init, AckInv, acknowledged, NoResult
<1>2. ReservationInv /\ AckInv /\ [Next]_vars => AckInv'
  BY AckStep, Zenon
<1>3. AckInv => AcknowledgedWritesRecorded
  BY Zenon DEF AckInv, acknowledged, recorded, AcknowledgedWritesRecorded
<1> QED
  BY <1>1, <1>2, <1>3, ReservationInvariance, PTL DEF Spec

\* Retained events carry consecutive sequences that continue where the expired
\* ones stopped, in times that never decrease, and never more than the limit of
\* them: for any clock, any interleaving of writers and any expiry.
THEOREM StreamIsContiguous == Spec => []StreamContiguous
<1>1. Init => StreamContiguous
  BY BoundsAssumption DEF Init, StreamContiguous
<1>2. TypeOK /\ ClockRead /\ StreamContiguous /\ [Next]_vars => StreamContiguous'
  BY StreamStep, PositionsCounted
<1> QED
  BY <1>1, <1>2, ReservationInvariance, PTL DEF Spec, ReservationInv

\* The history invariant of every reachable state.
LEMMA HistoryInvariance == Spec => []HistoryInv
<1>1. Init => HistoryInv
  <2> SUFFICES ASSUME Init, NEW s \in Slots PROVE suffix(slots[s], published)
    BY ZenonT(40) DEF HistoryInv
  <2>1. slots[s].history = <<>> /\ slots[s].current.generation = 0
    BY DEF Init, UnsetSlot, NoActivation
  <2> QED
    BY <2>1, BoundsAssumption DEF suffix
<1>2. ReservationInv /\ HistoryInv /\ [Next]_vars => HistoryInv'
  BY HistoryStep
<1> QED
  BY <1>1, <1>2, ReservationInvariance, PTL DEF Spec

\* A slot's history is the newest consecutive generations up to the current one,
\* all of published revisions, for any retention and any interleaving of Activate
\* with publications and with other activations of the slot.
THEOREM HistoriesAreSuffixes == Spec => []HistoryIsSuffix
<1>1. HistoryInv => HistoryIsSuffix
  BY Zenon DEF HistoryInv, suffix, published, HistoryIsSuffix
<1> QED
  BY <1>1, HistoryInvariance, PTL

\* A page that follows a cursor starts right after it and skips nothing, although
\* events expire and activations are dropped between two pages; a caller that fell
\* behind is told so.
THEOREM PagesAreGapless == Spec => []PagesHaveNoGap
<1>1. Init => PagesHaveNoGap
  BY Zenon DEF Init, PagesHaveNoGap
<1>2. ASSUME ReservationInv, TypeOK', StreamContiguous', HistoryInv, PagesHaveNoGap,
             [Next]_vars
      PROVE  PagesHaveNoGap'
  BY <1>2, PagesStep, PositionsCounted, Zenon
<1> QED
  BY <1>1, <1>2, ReservationInvariance, TypeCorrect, StreamIsContiguous, HistoryInvariance, PTL
     DEF Spec

\* The in-memory store implements the abstract store of the port contracts: every
\* commit is one atomic mutation with its event, every listing and every clock
\* movement elsewhere an expiry, and no other step is seen.
THEOREM StoreImplementsContract == Spec => ImplementsLocalStore
<1>1. Init => Abstract!Init
  BY SharedTypes, Zenon DEF Init, Abstract!Init
<1>2. ReservationInv /\ StreamContiguous /\ [Next]_vars => [Abstract!Next]_(Abstract!vars)
  BY ContractStep, PositionsCounted
<1> QED
  BY <1>1, <1>2, ReservationInvariance, StreamIsContiguous, PTL
     DEF Spec, ImplementsLocalStore, Abstract!Spec

=============================================================================
