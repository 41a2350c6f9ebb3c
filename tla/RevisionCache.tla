---------------------------- MODULE RevisionCache ----------------------------
(***************************************************************************)
(* internal/cache/revisions.go: the bounded cache of compiled revisions.   *)
(* Every operation runs under RevisionCache.mu, so it is a function from   *)
(* one state of the cache to the next; Engine says who calls it when.  A   *)
(* hydrated revision is told by its key alone.                             *)
(***************************************************************************)
EXTENDS Integers, Sequences, FiniteSetsExt, Functions

CONSTANTS
  Revisions,         \* revision keys: namespace, revision and evaluator ABI
  ApproximateBytes,  \* what a hydrated revision weighs
  MaxEntries,        \* RevisionLimits.MaxEntries; 0 disables admission
  MaxBytes,          \* RevisionLimits.MaxBytes; 0 disables admission
  LoadIds,           \* shared loads that may be under way at once
  NoLoad

ASSUME LimitsAssumption ==
  /\ MaxEntries \in Nat /\ MaxBytes \in Nat
  /\ ApproximateBytes \in [Revisions -> Nat \ {0}]

-----------------------------------------------------------------------------
(* Resident revisions: keys by recency, newest first, and their accounting.  *)

RevisionEntries == [recency : Seq(Revisions), active : SUBSET Revisions, bytes : Nat]

NewRevisionCache == [recency |-> <<>>, active |-> {}, bytes |-> 0]

resident(c) == Range(c.recency)

\* recency.Remove of the element at a place.
without(recency, i) == SubSeq(recency, 1, i - 1) \o SubSeq(recency, i + 1, Len(recency))

\* recency.MoveToFront of the element that holds x.
moveToFront(recency, x) ==
  <<x>> \o without(recency, CHOOSE i \in DOMAIN recency : recency[i] = x)

\* The oldest entry that is not active goes, or the oldest when all are.  Nothing in
\* the engine marks an entry active (SetActive has no caller).
evictOneLocked(c) ==
  LET inactive == {i \in DOMAIN c.recency : c.recency[i] \notin c.active}
      oldest == IF inactive = {} THEN Len(c.recency) ELSE Max(inactive)
      victim == c.recency[oldest]
  IN [recency |-> without(c.recency, oldest), active |-> c.active \ {victim},
      bytes |-> c.bytes - ApproximateBytes[victim]]

overLimits(c, key) ==
  Len(c.recency) >= MaxEntries \/ c.bytes > MaxBytes - ApproximateBytes[key]

\* The loop that makes room, which is left with an empty cache at the latest.
evictFor(c, key) ==
  LET after[n \in 0..Len(c.recency)] ==
        IF n = 0 THEN c
        ELSE IF overLimits(after[n - 1], key) THEN evictOneLocked(after[n - 1]) ELSE after[n - 1]
  IN after[Len(c.recency)]

\* A revision that is resident already wins; one that can never fit is not admitted.
admitLocked(c, key) ==
  LET room == evictFor(c, key)
  IN CASE key \in resident(c) -> [c EXCEPT !.recency = moveToFront(@, key)]
       [] key \notin resident(c) /\ \/ MaxEntries = 0 \/ MaxBytes = 0
                                    \/ ApproximateBytes[key] > MaxBytes -> c
       [] OTHER -> [room EXCEPT !.recency = <<key>> \o @, !.bytes = @ + ApproximateBytes[key]]

-----------------------------------------------------------------------------
(* Shared loads.  inflight names the load a new caller of a key joins.       *)

revisionCall == [key : Revisions, waiters : Nat, abandoned : BOOLEAN,
                 outcome : {"running", "loaded", "failed"}]

FreeCall == [key |-> NoLoad, waiters |-> 0, abandoned |-> FALSE, outcome |-> "running"]

startedCall(key) == [key |-> key, waiters |-> 1, abandoned |-> FALSE, outcome |-> "running"]

\* Mutant: a caller that leaves takes the key out of inflight, whoever loads it now.
leaveAnyCall(inflight, calls, id) ==
  LET last == calls[id].waiters = 1
  IN [inflight |-> IF last THEN [inflight EXCEPT ![calls[id].key] = NoLoad] ELSE inflight,
      calls |-> [calls EXCEPT ![id].waiters = @ - 1, ![id].abandoned = last]]

\* waitForRevision after ctx.Done: the last caller to leave abandons the load, so
\* that the next one starts afresh.
leaveCall(inflight, calls, id) ==
  LET key == calls[id].key
      current == inflight[key] = id
      last == current /\ calls[id].waiters = 1
  IN [inflight |-> IF last THEN [inflight EXCEPT ![key] = NoLoad] ELSE inflight,
      calls |-> IF current THEN [calls EXCEPT ![id].waiters = @ - 1, ![id].abandoned = last]
                ELSE calls]

=============================================================================
