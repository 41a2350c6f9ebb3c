----------------------------- MODULE StoreTypes -----------------------------
(***************************************************************************)
(* Vocabulary shared by the local-store models: requests, activations,     *)
(* state events, and the pure helpers both store implementations compute.  *)
(* Everything is for ONE namespace.  Namespaces share only the store mutex *)
(* and the effective clock (see MemoryStore!ElsewhereCommit).              *)
(***************************************************************************)
EXTENDS Integers, Sequences, FiniteSets

CONSTANTS
  RevisionIds,        \* content-addressed revision identifiers
  Metadata,           \* publication metadata a caller may attach to a revision
  Slots,              \* activation slots
  IdempotencyKeys,    \* caller-chosen replay keys
  Paths,              \* structured attribute paths: non-empty sequences
  Times,              \* clock readings (a zero reading is an error in the code)
  Nil,                \* an absent record, revision, slot or digest
  MaxUint64,          \* largest generation or sequence the code can count to
  HistoryRetention,   \* activationHistoryRetention
  EventRetention,     \* defaultEventRetention, in clock units
  EventRetentionLimit, \* eventRetentionLimit
  Requests            \* the calls the clients make

ASSUME TimesAssumption == Times \subseteq Nat \ {0}

ASSUME NilAssumption == Nil \notin Metadata \cup RevisionIds \cup Slots

ASSUME BoundsAssumption ==
  /\ MaxUint64 \in Nat \ {0}
  /\ HistoryRetention \in Nat \ {0}
  /\ EventRetention \in Nat \ {0}
  /\ EventRetentionLimit \in Nat \ {0}

ASSUME PathsAssumption == \A path \in Paths : path \in Seq(STRING) /\ path # <<>>

Counter == 0..MaxUint64

\* The earlier half of a pair of time or sequence bounds never wins.
Larger(a, b) == IF a >= b THEN a ELSE b

-----------------------------------------------------------------------------
(* Activations and slots.  A slot that was never activated has generation 0. *)

Activation == [revision : RevisionIds \cup {Nil}, generation : Counter,
               at : Times \cup {0}]

NoActivation == [revision |-> Nil, generation |-> 0, at |-> 0]

SlotState == [current : Activation, history : Seq(Activation)]

UnsetSlot == [current |-> NoActivation, history |-> <<>>]

\* An expectation is the (revision, generation) pair the caller last saw; the
\* pair of NoActivation is the "unset" expectation.
Expectation == [revision : RevisionIds \cup {Nil}, generation : Counter]

activationExpectationMatches(expectation, slot) ==
  /\ expectation.revision = slot.current.revision
  /\ expectation.generation = slot.current.generation

\* Mutant: the history is trimmed before the new activation joins it.
activatedTrimFirst(slot, activation) ==
  LET dropped == IF Len(slot.history) > HistoryRetention THEN 1 ELSE 0
  IN [current |-> activation,
      history |-> Append(SubSeq(slot.history, dropped + 1, Len(slot.history)), activation)]

\* The slot after one more activation, its history cut to the newest entries.
activated(slot, activation) ==
  LET history == Append(slot.history, activation)
      dropped == IF Len(history) > HistoryRetention
                   THEN Len(history) - HistoryRetention ELSE 0
  IN [current |-> activation, history |-> SubSeq(history, dropped + 1, Len(history))]

-----------------------------------------------------------------------------
(* Requests.                                                                 *)

PublishRequest == [op : {"publish"}, id : RevisionIds, metadata : Metadata]
ActivateRequest == [op : {"activate"}, slot : Slots, target : RevisionIds,
                    expectation : Expectation]
WriteRequest == [op : {"write"}, key : IdempotencyKeys, revision : RevisionIds,
                 expected : Counter, deletes : SUBSET Paths, writes : SUBSET Paths]

SnapshotRequest == [op : {"snapshot"}, minimum : Counter]
ListEventsRequest == [op : {"events"}, cursor : Counter, limit : Nat \ {0}]
ListHistoryRequest == [op : {"history"}, slot : Slots, cursor : Counter, limit : Nat \ {0}]
ResolveRequest == [op : {"resolve"}, slot : Slots]
GetRevisionRequest == [op : {"revision"}, id : RevisionIds]
GetDataGenerationRequest == [op : {"generation"}]

Request == PublishRequest \cup ActivateRequest \cup WriteRequest \cup SnapshotRequest
           \cup ListEventsRequest \cup ListHistoryRequest \cup ResolveRequest
           \cup GetRevisionRequest \cup GetDataGenerationRequest

ASSUME RequestsAssumption == Requests \subseteq Request

\* What the request digest covers: every mutation semantic except the key.
FingerprintWriteData(r) ==
  [revision |-> r.revision, expected |-> r.expected,
   deletes |-> r.deletes, writes |-> r.writes]

Fingerprint == [revision : RevisionIds, expected : Counter,
                deletes : SUBSET Paths, writes : SUBSET Paths]

\* One record per committed write: the digest it had and the generation it made.
IdempotencyState == [fingerprint : Fingerprint, generation : Counter \ {0}]
NoRecord == [fingerprint |-> Nil, generation |-> 0]

-----------------------------------------------------------------------------
(* Data.  A version is the set of attribute paths that hold a value; tuples *)
(* and values never make a write fail, so they are not told apart.          *)

StrictPrefix(a, b) == Len(a) < Len(b) /\ SubSeq(b, 1, Len(a)) = a

\* attributeSet refuses a path when an ancestor or a descendant is occupied.
PrefixFree(paths) == \A a, b \in paths : ~ StrictPrefix(a, b)

\* NewWriteDataRequest: no path is both written and deleted, and none of the
\* request's paths is a prefix of another.
validWrite(r) == r.writes \cap r.deletes = {} /\ PrefixFree(r.writes \cup r.deletes)

ASSUME WriteRequestsAssumption == \A r \in Requests : r.op = "write" => validWrite(r)

\* Deletes are applied before writes.
applyWrite(contents, r) == (contents \ r.deletes) \cup r.writes

-----------------------------------------------------------------------------
(* State events.                                                            *)

Event == [sequence : Counter \ {0},
          kind : {"revision_published", "slot_activated", "data_written"},
          revision : RevisionIds \cup {Nil}, slot : Slots \cup {Nil},
          generation : Counter, at : Times]

RevisionPublished(sequence, id, at) ==
  [sequence |-> sequence, kind |-> "revision_published", revision |-> id,
   slot |-> Nil, generation |-> 0, at |-> at]

SlotActivated(sequence, slot, activation) ==
  [sequence |-> sequence, kind |-> "slot_activated", revision |-> activation.revision,
   slot |-> slot, generation |-> activation.generation, at |-> activation.at]

DataWritten(sequence, generation, at) ==
  [sequence |-> sequence, kind |-> "data_written", revision |-> Nil,
   slot |-> Nil, generation |-> generation, at |-> at]

\* nextEventSequenceLocked before its + 1: the last sequence ever issued.
highWater(values, expired) ==
  IF values = <<>> THEN expired ELSE Larger(expired, values[Len(values)].sequence)

\* sort.Search over times that never decrease finds how many are at or before
\* the cutoff.
timeCut(values, now) ==
  Cardinality({i \in 1..Len(values) : values[i].at <= now - EventRetention})

countCut(values) ==
  IF Len(values) > EventRetentionLimit THEN Len(values) - EventRetentionLimit ELSE 0

pruneCut(values, now) == Larger(timeCut(values, now), countCut(values))

prunedValues(values, now) == SubSeq(values, pruneCut(values, now) + 1, Len(values))

\* Mutant: what is pruned leaves no mark.
prunedThroughForgotten(values, expired, now) == expired

prunedThrough(values, expired, now) ==
  IF pruneCut(values, now) = 0 THEN expired
  ELSE Larger(expired, values[pruneCut(values, now)].sequence)

=============================================================================
