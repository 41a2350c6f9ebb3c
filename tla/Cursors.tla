------------------------------ MODULE Cursors ------------------------------
(***************************************************************************)
(* store/sqlite/cursors.go and store/memory/cursors.go: the cursors of the *)
(* three lists.  A cursor is the bytes of its state and their code under   *)
(* the store's key; it names the list it belongs to (domain, namespace,    *)
(* slot) in its scope.  Nil is the empty cursor, the start of a list.      *)
(***************************************************************************)
EXTENDS RowCodec

RevisionDomain == 1
HistoryDomain == 2
EventDomain == 3

\* HMAC-SHA256, under which no two bodies or keys have the same code.
hmac(key, data) == [key |-> key, data |-> data]

\* The scope is such a code too, here of fixed width and one byte per part.
cursorScope(key, domain, namespace, slot) == <<key, domain, namespace, slot>>

validCursorScope(domain, namespace, slot) ==
  /\ namespace # 0
  /\ CASE domain \in {RevisionDomain, EventDomain} -> slot = 0
       [] domain = HistoryDomain -> slot # 0
       [] OTHER -> FALSE

validCursorState(c) ==
  /\ validCursorScope(c.domain, c.namespace, c.slot)
  /\ IF c.domain = RevisionDomain
       THEN c.position = 0 /\ c.boundary = 0 /\ c.publishedAt # 0 /\ c.revision > 0
       ELSE c.position > 0 /\ c.boundary < c.position /\ c.publishedAt = 0 /\ c.revision = 0

cursorCodecTime(c) == IF c.domain # RevisionDomain THEN <<0, 0>> ELSE codecTime(c.publishedAt)

scopeLayout == [i \in 1..4 |-> byteField]

cursorLayout == <<byteField>> \o scopeLayout \o <<uint64Field, uint64Field>> \o timeLayout \o <<string16>>

newCursor(key, c) ==
  LET body == encodeRecord(cursorLayout, <<c.domain>> \o cursorScope(key, c.domain, c.namespace, c.slot)
                                         \o <<c.position, c.boundary>> \o cursorCodecTime(c)
                                         \o <<idLetters(c.revision)>>)
  IN constructed(IF validCursorState(c) THEN "OK" ELSE "INTERNAL",
                 [body |-> body, mac |-> hmac(key, body)])

cursorAt(domain, namespace, slot, position, boundary, publishedAt, revision) ==
  [domain |-> domain, namespace |-> namespace, slot |-> slot, position |-> position,
   boundary |-> boundary, publishedAt |-> publishedAt, revision |-> revision]

\* A body that cannot be read is the caller's mistake.
invalidUnlessRead(answer) == IF answer.status = "OK" THEN answer ELSE refused("INVALID_ARGUMENT")

decodeCursor(key, token, domain, namespace, slot) ==
  LET state(v) == cursorAt(domain, namespace, slot, v[6], v[7],
                           IF domain = RevisionDomain THEN decodeCodecTime(v[8], v[9]) ELSE 0, idOf(v[10]))
      read(v) == constructed(required(/\ v[1] = domain
                                      /\ SubSeq(v, 2, 5) = cursorScope(key, domain, namespace, slot)
                                      /\ IF domain = RevisionDomain THEN decodeCodecTime(v[8], v[9]) # Nil
                                         ELSE v[8] = 0 /\ v[9] = 0
                                      /\ validCursorState(state(v))),
                             state(v))
  IN CASE token = Nil -> made(cursorAt(domain, namespace, slot, 0, 0, 0, 0))
       [] token # Nil /\ (~ validCursorScope(domain, namespace, slot) \/ token.mac # hmac(key, token.body)) ->
            refused("INVALID_ARGUMENT")
       [] OTHER -> invalidUnlessRead(decodeRecord(cursorLayout, token.body, read))

-----------------------------------------------------------------------------
(* The cursors of the memory store, which have no boundary.                  *)

memoryLayout == <<byteField>> \o scopeLayout \o <<uint64Field>> \o timeLayout \o <<string16>>

memoryCursorState(c) ==
  IF c.domain = RevisionDomain THEN c.position = 0 /\ c.publishedAt # 0 /\ c.revision # 0
  ELSE c.position # 0 /\ c.publishedAt = 0 /\ c.revision = 0

newCursorLocked(key, c) ==
  LET body == encodeRecord(memoryLayout, <<c.domain>> \o cursorScope(key, c.domain, c.namespace, c.slot)
                                         \o <<c.position>> \o cursorCodecTime(c) \o <<idLetters(c.revision)>>)
  IN constructed(IF c.domain \in 1..3 /\ memoryCursorState(c) THEN "OK" ELSE "INTERNAL",
                 [body |-> body, mac |-> hmac(key, body)])

cursorStateLocked(key, token, domain, namespace, slot) ==
  LET at(v) == IF domain = RevisionDomain THEN unixTime(v[7], v[8]) ELSE 0
      state(v) == cursorAt(domain, namespace, slot, v[6], 0, at(v), idOf(v[9]))
      read(v) == constructed(required(/\ v[1] = domain /\ v[8] < NanosPerSecond
                                      /\ domain # RevisionDomain => v[7] = 0 /\ v[8] = 0
                                      /\ SubSeq(v, 2, 5) = cursorScope(key, domain, namespace, slot)
                                      /\ memoryCursorState(state(v))),
                             state(v))
  IN CASE token = Nil -> made(cursorAt(domain, namespace, slot, 0, 0, 0, 0))
       [] token # Nil /\ token.mac # hmac(key, token.body) -> refused("INVALID_ARGUMENT")
       [] OTHER -> invalidUnlessRead(decodeRecord(memoryLayout, token.body, read))

=============================================================================
