--------------------------- MODULE MCMemoryStore ---------------------------
(* Small instances of MemoryStore for TLC: one request set per question.     *)
EXTENDS MemoryStoreRefinement, MCRequests, TLC

CONSTANTS p1, p2, p3

Symmetry == Permutations(Procs)

\* Two writers of the first generation under different keys and one key reused
\* with another digest, a write that conflicts on a path, one that moves
\* the value, and openers of the current and of a future generation.
DataRequests ==
  {publish(r1, m1),
   write(k1, 0, {}, {ParentPath}), write(k2, 0, {}, {ChildPath}),
   write(k2, 1, {}, {ChildPath}), write(k2, 1, {ParentPath}, {OtherPath}),
   snapshot(1), snapshot(2)}

\* Mutations of the three domains on one event stream, an activation chain that
\* comes back to the first revision (ABA), and readers of both from issued cursors.
StreamRequests ==
  {publish(r1, m1), write(k1, 0, {}, {ParentPath}), activate(r1, Nil, 0),
   activate(r1, r1, 1), activate(r1, r1, 2), listEvents(1, 2), listHistory(1, 2)}

\* Enough contention to wait: duplicate publications, one with other metadata,
\* duplicate writes, openers; and the point reads.
WaitRequests ==
  {publish(r1, m1), publish(r1, m2), write(k1, 0, {}, {ParentPath}), snapshot(1),
   listEvents(0, 1), [op |-> "resolve", slot |-> s1], [op |-> "generation"],
   [op |-> "revision", id |-> r1]}

=============================================================================
