----------------------------- MODULE LocalStore -----------------------------
(***************************************************************************)
(* What the store ports (store/store.go, revisions.go, slots.go, data.go,  *)
(* idempotency.go, events.go) promise of one namespace, with no notion of  *)
(* threads, locks or queues: every mutation happens in one step together   *)
(* with its state event, and events leave only from the front.             *)
(***************************************************************************)
EXTENDS StoreTypes

VARIABLES
  revisions,      \* metadata stored per revision ID, first publication wins
  slots,          \* current activation and retained history per slot
  generation,     \* data generation
  contents,       \* the data at that generation
  idempotency,    \* one record per committed write
  events,         \* retained state events
  expiredThrough, \* last sequence that left the stream
  effectiveTime   \* the store's non-decreasing clock

vars == <<revisions, slots, generation, contents, idempotency, events,
          expiredThrough, effectiveTime>>

Init ==
  /\ revisions = [id \in RevisionIds |-> Nil]
  /\ slots = [s \in Slots |-> UnsetSlot]
  /\ generation = 0
  /\ contents = {}
  /\ idempotency = [k \in IdempotencyKeys |-> NoRecord]
  /\ events = <<>>
  /\ expiredThrough = 0
  /\ effectiveTime = 0

\* Sequences are consecutive and never reused, whatever has been pruned.
NextSequence == expiredThrough + Len(events) + 1

Advance(at) == at >= effectiveTime /\ effectiveTime' = at

\* The event joins the stream; a prefix of the OLDER events may expire.
Emit(event) ==
  /\ NextSequence <= MaxUint64
  /\ Advance(event.at)
  /\ \E cut \in 0..Len(events) :
       /\ events' = SubSeq(Append(events, event), cut + 1, Len(events) + 1)
       /\ expiredThrough' = expiredThrough + cut

Publish(r, at) ==
  /\ revisions[r.id] = Nil
  /\ revisions' = [revisions EXCEPT ![r.id] = r.metadata]
  /\ Emit(RevisionPublished(NextSequence, r.id, at))
  /\ UNCHANGED <<slots, generation, contents, idempotency>>

Activate(r, at) ==
  LET slot == slots[r.slot]
      activation == [revision |-> r.target, at |-> at,
                     generation |-> slot.current.generation + 1]
  IN /\ revisions[r.target] # Nil
     /\ activationExpectationMatches(r.expectation, slot)
     /\ slot.current.generation < MaxUint64
     /\ slots' = [slots EXCEPT ![r.slot] = activated(slot, activation)]
     /\ Emit(SlotActivated(NextSequence, r.slot, activation))
     /\ UNCHANGED <<revisions, generation, contents, idempotency>>

WriteData(r, at) ==
  /\ revisions[r.revision] # Nil
  /\ r.expected = generation
  /\ generation < MaxUint64
  /\ idempotency[r.key].generation = 0
  /\ PrefixFree(applyWrite(contents, r))
  /\ generation' = generation + 1
  /\ contents' = applyWrite(contents, r)
  /\ idempotency' = [idempotency EXCEPT ![r.key] =
       [fingerprint |-> FingerprintWriteData(r), generation |-> generation + 1]]
  /\ Emit(DataWritten(NextSequence, generation + 1, at))
  /\ UNCHANGED <<revisions, slots>>

\* Retention is enforced, or another namespace moves the shared clock.
Expire(at) ==
  /\ Advance(at)
  /\ \E cut \in 0..Len(events) :
       /\ events' = SubSeq(events, cut + 1, Len(events))
       /\ expiredThrough' = expiredThrough + cut
  /\ UNCHANGED <<revisions, slots, generation, contents, idempotency>>

Next ==
  \E at \in Times :
    \/ \E r \in Requests :
         \/ r.op = "publish" /\ Publish(r, at)
         \/ r.op = "activate" /\ Activate(r, at)
         \/ r.op = "write" /\ WriteData(r, at)
    \/ Expire(at)

Spec == Init /\ [][Next]_vars

=============================================================================
