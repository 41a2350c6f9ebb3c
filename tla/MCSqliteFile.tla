---------------------------- MODULE MCSqliteFile ----------------------------
(* Two processes and one database file.  The workloads pit two exporters, a   *)
(* store with its snapshot, and the other commands against each other.        *)
EXTENDS SqliteFile

CONSTANTS a, b

MCWorkloads ==
  { [p \in Procs |-> IF p = a THEN {"migrate", "open"} ELSE {"check", "open", "plan"}],
    [p \in Procs |-> IF p = a THEN {"migrate", "export"} ELSE {"export", "prune"}],
    [p \in Procs |-> IF p = a THEN {"migrate", "validate"} ELSE {"migrate"}],
    [p \in Procs |-> IF p = a THEN {"memory"} ELSE {"migrate"}] }

=============================================================================
