--------------------------- MODULE SqliteOffline ---------------------------
(***************************************************************************)
(* store/sqlite integrity.go, prune_offline.go and the rows backup.go      *)
(* copies: what offline maintenance makes of the tables that the runtime   *)
(* store of SqliteStore leaves behind.  Maintenance holds the exclusive    *)
(* file lock (SqliteFile), so it runs between two lives of the store.      *)
(* Encodings, and the cursor inside an event, are not told apart here.     *)
(***************************************************************************)
EXTENDS SqliteStore

CONSTANTS
  BackupEventRetention,  \* backupEventRetention, in clock units
  BackupBacklogLimit     \* backupBacklogLimit

ASSUME BackupAssumption ==
  /\ BackupEventRetention \in Nat \ {0}
  /\ BackupBacklogLimit \in Nat
  /\ BackupEventRetention <= BackupBacklogLimit

-----------------------------------------------------------------------------
(* The checks, one per table.                                                *)

\* ensureNamespaceHead runs in every mutation, so rows come with a head.
headExists(t) == t.sequence # 0

validateNamespaceHeadValues(t) ==
  /\ t.generation >= 0 /\ t.sequence >= 0 /\ t.expiredThrough >= 0
  /\ t.expiredThrough <= t.sequence

\* What Open looks at: the heads, and whether an event runs ahead of its head.
validateRuntimeNamespaceHeads(t) ==
  /\ validateNamespaceHeadValues(t)
  /\ headExists(t) => \A i \in DOMAIN t.events : t.events[i].sequence <= t.sequence

published(t) == {id \in RevisionIds : t.revisions[id] # Nil}

validateFullRevisions(t) == published(t) # {} => headExists(t)

\* NewActivation takes a generation and a time that are set.
activationRowValid(t, row) ==
  headExists(t) /\ row.generation > 0 /\ row.revision \in published(t) /\ row.at # 0

validateFullActivationHistory(t) ==
  \A s \in Slots :
    LET history == t.slots[s].history
    IN /\ \A i \in DOMAIN history : activationRowValid(t, history[i])
       /\ \A i, j \in DOMAIN history :
            history[i].generation = history[j].generation => i = j

slotHeads(t) == {s \in Slots : t.slots[s].current.generation # 0}

\* A slot head is a copy of the history row of its generation.
validateFullSlotHeads(t) ==
  \A s \in slotHeads(t) :
    /\ activationRowValid(t, t.slots[s].current)
    /\ \E i \in DOMAIN t.slots[s].history : t.slots[s].history[i] = t.slots[s].current

\* The retained generations of a slot are consecutive and end at its head.
validateFullHistoryHeads(t) ==
  \A s \in Slots :
    LET head == t.slots[s].current.generation
        retained == {t.slots[s].history[i].generation : i \in DOMAIN t.slots[s].history}
    IN /\ retained # {} => s \in slotHeads(t) /\ \A g \in retained : g <= head
       /\ s \in slotHeads(t) => retained # {} /\ retained = Min(retained)..head

\* Every attribute has an ancestor row per strict prefix of its path, and there is
\* no other ancestor row.
validateFullAttributes(t) ==
  /\ t.contents # {} => headExists(t)
  /\ t.ancestors = UNION {{path} \X strictPrefixes(path) : path \in t.contents}

eventMatches(t, event) ==
  CASE event.kind = "revision_published" -> event.revision \in published(t)
    [] event.kind = "slot_activated" ->
         /\ event.slot \in slotHeads(t)
         /\ event.generation <= t.slots[event.slot].current.generation
         /\ event.revision \in published(t)
    [] event.kind = "data_written" -> event.generation <= t.generation
    [] OTHER -> FALSE

\* Events follow each other from the watermark to the sequence of the head.
validateFullEvents(t) ==
  LET events == t.events
  IN /\ \A i \in DOMAIN events :
          /\ headExists(t)
          /\ events[i].sequence \in (t.expiredThrough + 1)..t.sequence
          /\ events[i].sequence =
               (IF i = 1 THEN t.expiredThrough ELSE events[i - 1].sequence) + 1
          /\ eventMatches(t, events[i])
     /\ t.sequence = IF events = <<>> THEN t.expiredThrough ELSE events[Len(events)].sequence

\* One replay record per data generation.
validateFullIdempotency(t) ==
  LET recorded == {k \in IdempotencyKeys : t.idempotency[k] # NoRecord}
      responses == {t.idempotency[k].generation : k \in recorded}
  IN /\ recorded # {} => headExists(t)
     /\ \A g \in responses : g \in 1..t.generation
     /\ Cardinality(responses) = Cardinality(recorded)
     /\ Cardinality(responses) = t.generation

fullIntegrityCheck(t) ==
  /\ validateNamespaceHeadValues(t)
  /\ validateFullRevisions(t)
  /\ validateFullActivationHistory(t)
  /\ validateFullSlotHeads(t)
  /\ validateFullHistoryHeads(t)
  /\ validateFullAttributes(t)
  /\ validateFullEvents(t)
  /\ validateFullIdempotency(t)

-----------------------------------------------------------------------------
(* PruneExpiredEvents.                                                       *)

validateOfflineEventOrder(t) ==
  \A i \in DOMAIN t.events : i > 1 => t.events[i - 1].at <= t.events[i].at

\* Every namespace that has a head is brought to the time of the prune.
pruneEveryNamespace(t, now) ==
  IF ~ headExists(t) THEN t
  ELSE LET effective == effectiveNow(t, now)
       IN pruneEvents([t EXCEPT !.effectiveTime = effective], effective)

\* The store is stopped; the checks before and after run in the transaction that
\* deletes the events.
PruneExpiredEvents(now) ==
  LET pruned == pruneEveryNamespace(tables, now)
  IN /\ ~ pools
     /\ fullIntegrityCheck(tables)
     /\ validateOfflineEventOrder(tables)
     /\ fullIntegrityCheck(pruned)
     /\ tables' = pruned
     /\ UNCHANGED <<writing, publication, readers, waits, lifetime, pc, req, loc, cancelled,
                    result>>

-----------------------------------------------------------------------------
(* The rows of ExportAuditBackup.                                            *)

\* Mutant: the watermark of the copy is the one of the source.
backupRowsOldWatermark(t, now) ==
  LET Kept(event) == event.at >= now - BackupEventRetention
  IN [t EXCEPT !.events = SelectSeq(@, Kept)]

\* copyBackupRows: all rows but the old events, and the watermark behind them.
backupRows(t, now) ==
  LET cutoff == now - BackupEventRetention
      old == {t.events[i].sequence : i \in {j \in DOMAIN t.events : t.events[j].at < cutoff}}
      Kept(event) == event.at >= cutoff
  IN [t EXCEPT !.events = SelectSeq(@, Kept),
               !.expiredThrough = IF old = {} THEN @ ELSE Max(old)]

\* An event is too old to be removed unseen, or lies in the future of the clock.
backupRefused(t, now) ==
  \E i \in DOMAIN t.events :
    t.events[i].at < now - BackupBacklogLimit \/ t.events[i].at > now

\* Among the events up to the newest old one there is one that is to be kept.
backupNotAPrefix(t, now) ==
  \E i, j \in DOMAIN t.events :
    /\ t.events[i].at < now - BackupEventRetention
    /\ t.events[j].sequence <= t.events[i].sequence
    /\ t.events[j].at >= now - BackupEventRetention

copyBackupRows(t, now) ==
  CASE backupRefused(t, now) -> outcome("FAILED_PRECONDITION", 0, t)
    [] ~ backupRefused(t, now) /\ backupNotAPrefix(t, now) -> outcome("INTEGRITY", 0, t)
    [] OTHER -> outcome("OK", 0, backupRows(t, now))

\* The operator goes on with an exported image in place of the stopped store.
RestoreBackup(now) ==
  LET export == copyBackupRows(tables, now)
  IN /\ ~ pools
     /\ fullIntegrityCheck(tables)
     /\ export.status = "OK"
     /\ fullIntegrityCheck(export.tables)
     /\ tables' = export.tables
     /\ UNCHANGED <<writing, publication, readers, waits, lifetime, pc, req, loc, cancelled,
                    result>>

Maintain == \E now \in Times : PruneExpiredEvents(now) \/ RestoreBackup(now)

OfflineSpec == Init /\ [][Next \/ Maintain]_vars

-----------------------------------------------------------------------------
(* Properties.                                                               *)

\* Whatever mutations, event reads, prunes and restored backups came before, at whatever
\* times and with whatever crashes, a stopped store leaves a file that passes the full
\* integrity check and the checks of Open; the offline prune finds the events in the
\* order it relies on and leaves a file that passes again.
MaintenanceAccepts ==
  ~ pools =>
  /\ fullIntegrityCheck(tables)
  /\ validateRuntimeNamespaceHeads(tables)
  /\ validateOfflineEventOrder(tables)
  /\ \A now \in Times : fullIntegrityCheck(pruneEveryNamespace(tables, now))

\* An export is refused only for events outside the backlog; otherwise its image
\* passes the full integrity check, keeps every row that is not an event and every
\* event within the retention, and its watermark leaves no gap.
BackupsAreSound ==
  ~ pools =>
  \A now \in Times :
    LET export == copyBackupRows(tables, now)
        image == export.tables
    IN /\ export.status # "INTEGRITY"
       /\ export.status = "OK" =>
            /\ fullIntegrityCheck(image)
            /\ [image EXCEPT !.events = tables.events,
                             !.expiredThrough = tables.expiredThrough] = tables
            /\ \A i \in DOMAIN tables.events :
                 tables.events[i].at >= now - BackupEventRetention =>
                   \E j \in DOMAIN image.events : image.events[j] = tables.events[i]

=============================================================================
