----------------------- MODULE MemoryStoreRefinement -----------------------
(* The in-memory store against the abstract store of the port contracts.     *)
EXTENDS MemoryStore

Abstract == INSTANCE LocalStore

\* The memory store implements the abstract store: the candidate computed before
\* the unlock is published as if the whole mutation had been one atomic step.
ImplementsLocalStore == Abstract!Spec

=============================================================================
