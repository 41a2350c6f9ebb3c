--------------------------- MODULE MCSqliteStore ---------------------------
(* Small instances of SqliteStore for TLC: one request set per question.     *)
EXTENDS SqliteStoreRefinement, MCRequests, TLC

CONSTANTS p1, p2, p3

Symmetry == Permutations(Procs)

\* Bound of the larger instances: one call is cancelled at a time.
OneCancellation == Cardinality(cancelled) <= 1

\* Bound of the run over all tables: no call is cancelled, the store is closed between
\* calls, once the clock has moved a call overlaps only with a listing that is between
\* its two statements, and the longest activation chain is run without either.
Calm ==
  LET active == {p \in Procs : pc[p] # "idle"}
      moved == tables.effectiveTime > 1
  IN /\ cancelled = {}
     /\ shutdown => \A p \in active : pc[p] = "done"
     /\ moved /\ Cardinality(active) > 1 => \E p \in active : pc[p] = "rows"
     /\ tables.sequence > 3 => ~ moved /\ tables.generation = 0

\* Writers that race, replay, and collide on a key and on a path.
DataRequests ==
  {publish(r1, m1), write(k1, 0, {}, {ParentPath}), write(k2, 0, {}, {ChildPath}),
   write(k2, 1, {}, {ChildPath}), write(k2, 1, {ParentPath}, {OtherPath})}

\* The three kinds of mutation on one event stream, an activation chain on one
\* revision, so that only the generation tells its heads apart (ABA), and every
\* read, between mutations that expire what it pages through.
TableRequests ==
  {publish(r1, m1), activate(r1, Nil, 0), activate(r1, r1, 1), activate(r1, r1, 2),
   activate(r1, r1, 3), write(k1, 0, {}, {ChildPath}), write(k2, 1, {ChildPath}, {}),
   listEvents(1, 2), listHistory(1, 2),
   [op |-> "resolve", slot |-> s1], [op |-> "revision", id |-> r1]}

\* Contention for the queue, the permits and the waiter.
WaitRequests == {publish(r1, m1), write(k1, 0, {}, {ParentPath}), snapshot(1)}

\* Publications that wait for each other, openers that get a view or park, and reads
\* that compete with them for the permit.
CloseRequests == {publish(r1, m1), snapshot(0), snapshot(1), [op |-> "generation"]}

GenerationRequests == {[op |-> "generation"]}

=============================================================================
