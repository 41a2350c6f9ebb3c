----------------------- MODULE SqliteStoreRefinement -----------------------
(* The SQLite store against the abstract store of the port contracts.        *)
EXTENDS SqliteOffline

Abstract == INSTANCE LocalStore WITH
  revisions <- tables.revisions, slots <- tables.slots, generation <- tables.generation,
  contents <- tables.contents, idempotency <- tables.idempotency, events <- tables.events,
  expiredThrough <- tables.expiredThrough, effectiveTime <- tables.effectiveTime

\* The committed tables implement the abstract store: abandoned calls, lost
\* connections, shutdown and restarts never show as half a mutation.
ImplementsLocalStore == Abstract!Spec

=============================================================================
