------------------------------- MODULE Values -------------------------------
(***************************************************************************)
(* The values of the public API and the data they become: a client builds  *)
(* requests (Facts, Decisions, Pages), the engine writes them to the trees *)
(* of the memory store and to the rows of the SQLite store (Indexes), and  *)
(* answers checks (Sessions) and lists (Cursors) from them.  Both stores   *)
(* get every mutation, so their answers can be compared.  One namespace;   *)
(* calls do not overlap (MemoryStore, SqliteStore and Engine are about     *)
(* that), but mutations fall between the pages of a listing.               *)
(***************************************************************************)
EXTENDS Sessions, Cursors

CONSTANTS
  Workloads,      \* name -> the calls a client makes, any number of times and in any order
  Policies,       \* revision -> [schema, program]
  ActiveSlots,    \* slot -> [revision, slotGeneration]
  Namespace,
  CursorKey,      \* the key of the store's cursors
  Buckets,        \* resources and relations that are asked for
  AttributeKeys,  \* attributes that are asked for
  Times           \* when they are asked for

VARIABLES
  workload,
  memory,   \* the trees of the memory store: [tuples, attributes, revisions]
  rows,     \* the tables of the SQLite store: [tuples, attributes, revisions]
  listing,  \* a listing of revisions under way, or Nil
  outcome   \* [call, answer] of the last call, or Nil

vars == <<workload, memory, rows, listing, outcome>>

-----------------------------------------------------------------------------
(* Data writes.                                                              *)

\* DataService.WriteData up to the store.
admitWrite(call) ==
  LET known(r) ==
        LET schema == Policies[r.revision].schema
        IN IF r.revision \notin DOMAIN Policies THEN refused("NOT_FOUND")
           ELSE constructed(firstError(<<ValidateTuplePaths(schema, r), ValidateAttributePaths(schema, r)>>), r)
      authorize(r) == andThen(authorized(call, <<requiredCapability("write")>>), LAMBDA granted : known(r))
  IN andThen(NewWriteDataRequest(call.request), authorize)

\* WriteData of the memory store: deletes before writes, and all of it or nothing.
writeTrees(trees, r) ==
  LET kept(tuples, written) == constructed(IF written.ok THEN "OK" ELSE "CONFLICT",
                                           [trees EXCEPT !.tuples = tuples, !.attributes = written.root])
  IN kept(FoldLeft(LAMBDA tree, fact : tupleSet(tree, fact.tuple, fact.expiresAt),
                   FoldLeft(tupleDelete, trees.tuples, r.tupleDeletes), r.tupleWrites),
          FoldLeft(LAMBDA done, a : IF done.ok THEN attributeSet(done.root, a.entity, a.path, a.value)
                                    ELSE done,
                   [ok |-> TRUE,
                    root |-> FoldLeft(LAMBDA root, key : attributeDelete(root, key.entity, key.path),
                                      trees.attributes, r.attributeDeletes)],
                   r.attributeWrites))

deleteTuple(table, key) == {row \in table : row.key # key}

upsertTuple(table, fact) ==
  deleteTuple(table, fact.tuple) \cup {[key |-> fact.tuple, expiresAt |-> fact.expiresAt]}

deleteAttribute(table, key) == {row \in table : ~ sameAttributeKey(row, key)}

ensureNoAttributeConflict(table, a) ==
  /\ \A length \in 1..(Len(a.path) - 1) : getAttributeRow(table, a.entity, SubSeq(a.path, 1, length)) = Nil
  /\ ~ descendantRow(table, a.entity, a.path)

upsertAttribute(table, a) == deleteAttribute(table, a) \cup {a}

\* WriteData of the SQLite store; an error rolls the transaction back.
writeRows(tables, r) ==
  LET storable(fact) == canonicalDurableTuple(fact).status = "OK"
      tuples == FoldLeft(upsertTuple, FoldLeft(deleteTuple, tables.tuples, r.tupleDeletes), r.tupleWrites)
      cleared == FoldLeft(deleteAttribute, tables.attributes, r.attributeDeletes)
      upsert(done, a) ==
        andThen(done, LAMBDA table : constructed(
          IF ensureNoAttributeConflict(table, a) THEN "OK" ELSE "CONFLICT", upsertAttribute(table, a)))
  IN IF ~ allOf(r.tupleWrites, storable) THEN refused("INVALID_ARGUMENT")
     ELSE andThen(FoldLeft(upsert, made(cleared), r.attributeWrites),
                  LAMBDA attributes : made([tables EXCEPT !.tuples = tuples, !.attributes = attributes]))

Write(call) ==
  LET Written(inMemory, inTables) ==
        /\ memory' = IF inMemory.status = "OK" THEN inMemory.value ELSE memory
        /\ rows' = IF inTables.status = "OK" THEN inTables.value ELSE rows
        /\ outcome' = [call |-> call, answer |-> [memory |-> inMemory.status, sqlite |-> inTables.status]]
  IN /\ call.op = "write"
     /\ Written(andThen(admitWrite(call), LAMBDA r : writeTrees(memory, r)),
                andThen(admitWrite(call), LAMBDA r : writeRows(rows, r)))
     /\ UNCHANGED <<workload, listing>>

-----------------------------------------------------------------------------
(* Publications and listings.                                                *)

pageKey(revision) == <<revision.publishedAt, revision.id>>

revisionAt(key) == [namespace |-> Namespace, id |-> key[2], publishedAt |-> key[1]]

\* PutRevision: a revision that exists stays as it is.
Publish(call) ==
  LET exists == \E revision \in rows.revisions : revision.id = call.revision.id
  IN /\ call.op = "publish"
     /\ memory' = IF exists THEN memory
                  ELSE [memory EXCEPT !.revisions = revisionSet(@, pageKey(call.revision))]
     /\ rows' = IF exists THEN rows ELSE [rows EXCEPT !.revisions = @ \cup {call.revision}]
     /\ UNCHANGED <<workload, listing, outcome>>

\* The text of a cursor is as long as its body.
cursorText(token) == IF token = Nil THEN 0 ELSE Len(token.body)

listRequest(limit, token) == [namespace |-> Namespace, cursor |-> cursorText(token), limit |-> limit]

afterLast(page) == cursorAt(RevisionDomain, Namespace, 0, 0, 0, Last(page).publishedAt, Last(page).id)

\* The page, with a cursor behind its last revision when there are more.
pageOf(limit, token, page, more, next) ==
  LET respond(following) ==
        andThen(NewListRevisionsResponse(listRequest(limit, token), page, cursorText(following)),
                LAMBDA response : made([page |-> page, next |-> following]))
  IN IF more THEN andThen(next, respond) ELSE respond(Nil)

\* ListRevisions of the memory store.
listTrees(limit, token) ==
  LET list(position) ==
        LET found == revisionPage(memory.revisions, IF token = Nil THEN Nil
                                                    ELSE <<position.publishedAt, position.revision>>, limit)
            page == [i \in DOMAIN found.page |-> revisionAt(found.page[i])]
        IN pageOf(limit, token, page, found.more, newCursorLocked(CursorKey, afterLast(page)))
  IN IF NewListRequest(listRequest(limit, token)) # "OK" THEN refused("INVALID_ARGUMENT")
     ELSE andThen(cursorStateLocked(CursorKey, token, RevisionDomain, Namespace, 0), list)

\* ListRevisions of the SQLite store: rows after the cursor, ordered, LIMIT limit + 1.
listRows(limit, token) ==
  LET list(position) ==
        LET after == {revision \in rows.revisions :
                        token = Nil \/ before(<<position.publishedAt, position.revision>>, pageKey(revision))}
            ordered == [i \in 1..Cardinality(after) |->
                          CHOOSE revision \in after :
                            Cardinality({r \in after : before(pageKey(r), pageKey(revision))}) = i - 1]
            page == SubSeq(ordered, 1, smaller(limit, Len(ordered)))
        IN IF token # Nil /\ ~ sqliteTimestamp(position.publishedAt) THEN refused("INVALID_ARGUMENT")
           ELSE IF ~ allOf(page, validRevisionMetadata) THEN refused("INTEGRITY")
           ELSE pageOf(limit, token, page, Len(ordered) > limit, newCursor(CursorKey, afterLast(page)))
      requested == constructed(NewListRequest(listRequest(limit, token)), token)
  IN andThen(requested, LAMBDA cursor : andThen(decodeCursor(CursorKey, cursor, RevisionDomain, Namespace, 0), list))

\* A client asks both stores for the next page and goes on with what each of them gives.
turnPage(l) ==
  LET turned(m, s) ==
        IF m.status = "OK" /\ s.status = "OK"
          THEN [l EXCEPT !.memory = m.value.next, !.sqlite = s.value.next,
                         !.seen = [memory |-> @.memory \o m.value.page, sqlite |-> @.sqlite \o s.value.page]]
          ELSE [l EXCEPT !.failed = TRUE, !.memory = Nil, !.sqlite = Nil]
  IN turned(listTrees(l.limit, l.memory), listRows(l.limit, l.sqlite))

StartListing(call) ==
  /\ call.op = "list" /\ listing = Nil
  /\ listing' = turnPage([limit |-> call.limit, memory |-> Nil, sqlite |-> Nil, failed |-> FALSE,
                          seen |-> [memory |-> <<>>, sqlite |-> <<>>], published |-> rows.revisions])
  /\ UNCHANGED <<workload, memory, rows, outcome>>

listed(l) == l.memory = Nil /\ l.sqlite = Nil

NextPage ==
  /\ listing # Nil /\ ~ listed(listing)
  /\ listing' = turnPage(listing)
  /\ UNCHANGED <<workload, memory, rows, outcome>>

EndListing ==
  /\ listing # Nil /\ listed(listing)
  /\ listing' = Nil
  /\ UNCHANGED <<workload, memory, rows, outcome>>

-----------------------------------------------------------------------------
(* Decisions.                                                                *)

\* What a session of the call reads; the snapshot is taken at the call's time.
authorityAt(now) ==
  [policies |-> Policies, slots |-> ActiveSlots, generation |-> 1,
   snapshot |-> [tuples |-> memory.tuples, attributes |-> memory.attributes, readAt |-> now]]

Decided(call, op, answer) ==
  /\ call.op = op
  /\ outcome' = [call |-> call, answer |-> answer]
  /\ UNCHANGED <<workload, memory, rows, listing>>

DecideOne(call) == Decided(call, "check", Check(call, authorityAt(call.now)))

DecideBatch(call) == Decided(call, "batch", BatchCheck(call, authorityAt(call.now)))

DecideExplained(call) == Decided(call, "explain", Explain(call, authorityAt(call.now)))

-----------------------------------------------------------------------------
(* Values, rows and cursors on their own.                                    *)

construct(call) ==
  CASE call.kind = "write" -> NewWriteDataRequest(call.value)
    [] call.kind = "contextual" -> NewContextualData(call.value.tuples, call.value.attributes)
    [] call.kind = "grant" -> NewGrant(call.value.pattern, call.value.capabilities)
    [] call.kind = "grants" -> NewCallerAuthorization(call.value)
    [] call.kind = "approvals" -> NewApprovalVerificationResult(call.value)
    [] call.kind = "status" -> NewStatusResponse(call.value)
    [] call.kind = "history" -> NewListActivationHistoryResponse(call.request, call.value, call.next)
    [] call.kind = "events" -> NewListEventsResponse(call.request, call.value, call.next)

Construct(call) ==
  /\ call.op = "construct"
  /\ outcome' = [call |-> call, answer |-> construct(call)]
  /\ UNCHANGED <<workload, memory, rows, listing>>

\* What the disk or the client hands back: the bytes as they were, one byte changed, some
\* missing at the end, or one more.
damaged(data, damage) ==
  CASE damage.kind = "none" -> data
    [] damage.kind = "changed" /\ damage.at \in DOMAIN data -> [data EXCEPT ![damage.at] = damage.byte]
    [] damage.kind = "cut" /\ damage.at \in DOMAIN data -> SubSeq(data, 1, damage.at - 1)
    [] damage.kind = "longer" -> Append(data, damage.byte)
    [] OTHER -> data

encodeRow(kind, value) ==
  CASE kind = "metadata" -> encodeRevisionMetadata(value)
    [] kind = "activation" -> encodeActivation(value)
    [] kind = "event" -> encodeStateEvent(value)
    [] kind = "provenance" -> encodeRevisionProvenance(value)
    [] kind = "key" -> encodeAttributeKey(value)
    [] kind = "value" -> encodeAttributeValue(value)
    [] kind = "tuple" -> encodeTupleKey(value)

decodeRow(kind, data) ==
  CASE kind = "metadata" -> decodeRevisionMetadata(data)
    [] kind = "activation" -> decodeActivation(data)
    [] kind = "event" -> decodeStateEvent(data)
    [] kind = "provenance" -> decodeRevisionProvenance(Namespace, data)
    [] kind = "key" -> decodeAttributeKey(data)
    [] kind = "value" -> decodeAttributeValue(data)
    [] kind = "tuple" -> decodeTupleKey(data)

ReadRow(call) ==
  LET data == damaged(encodeRow(call.kind, call.value), call.damage)
  IN /\ call.op = "row"
     /\ outcome' = [call |-> call, answer |-> [data |-> data, decoded |-> decodeRow(call.kind, data)]]
     /\ UNCHANGED <<workload, memory, rows, listing>>

\* A durable attribute or tuple with damage in one of its columns.
ReadDurable(call) ==
  LET kept == IF call.kind = "attribute" THEN canonicalDurableAttribute(call.value)
              ELSE canonicalDurableTuple(call.value)
      row == [kept.value EXCEPT ![call.column] = damaged(@, call.damage)]
      decoded == IF call.kind = "attribute" THEN decodeDurableAttribute(row) ELSE decodeDurableTuple(row)
  IN /\ call.op = "durable"
     /\ outcome' = [call |-> call,
                    answer |-> IF kept.status = "OK" THEN [row |-> row, kept |-> kept.value, decoded |-> decoded]
                               ELSE Nil]
     /\ UNCHANGED <<workload, memory, rows, listing>>

\* A cursor minted for one list comes back for another one, or to another store.
ReadCursor(call) ==
  LET mint(New(_, _)) == New(call.key, call.state)
      back(token) == [token EXCEPT !.body = damaged(@, call.damage)]
  IN /\ call.op = "cursor"
     /\ outcome' =
          [call |-> call,
           answer |-> [memory |-> andThen(mint(newCursorLocked), LAMBDA token :
                         cursorStateLocked(CursorKey, back(token), call.domain, call.namespace, call.slot)),
                       sqlite |-> andThen(mint(newCursor), LAMBDA token :
                         decodeCursor(CursorKey, back(token), call.domain, call.namespace, call.slot))]]
     /\ UNCHANGED <<workload, memory, rows, listing>>

-----------------------------------------------------------------------------
Init ==
  /\ workload \in DOMAIN Workloads
  /\ memory = [tuples |-> Nil, attributes |-> Nil, revisions |-> Nil]
  /\ rows = [tuples |-> {}, attributes |-> {}, revisions |-> {}]
  /\ listing = Nil
  /\ outcome = Nil

\* The calls a client may make now.
calls == IF outcome = Nil THEN Workloads[workload] ELSE {}

\* The client has looked at the answer.
Return ==
  /\ outcome # Nil
  /\ outcome' = Nil
  /\ UNCHANGED <<workload, memory, rows, listing>>

Next ==
  \/ \E call \in calls : Write(call)
  \/ \E call \in calls : Publish(call)
  \/ \E call \in calls : StartListing(call)
  \/ \E call \in calls : DecideOne(call)
  \/ \E call \in calls : DecideBatch(call)
  \/ \E call \in calls : DecideExplained(call)
  \/ \E call \in calls : Construct(call)
  \/ \E call \in calls : ReadRow(call)
  \/ \E call \in calls : ReadDurable(call)
  \/ \E call \in calls : ReadCursor(call)
  \/ NextPage \/ EndListing \/ Return

Spec == Init /\ [][Next]_vars

-----------------------------------------------------------------------------
(* Properties: the indexes.                                                  *)

RECURSIVE entries(_)
entries(tree) ==
  IF tree = Nil THEN {}
  ELSE entries(tree.left) \cup {[key |-> tree.key, value |-> tree.value]} \cup entries(tree.right)

\* Ordered, with true heights that differ by at most one.
RECURSIVE balanced(_)
balanced(tree) ==
  \/ tree = Nil
  \/ /\ balanced(tree.left) /\ balanced(tree.right)
     /\ balance(tree) \in -1..1
     /\ tree.height = 1 + Max({height(tree.left), height(tree.right)})
     /\ \A entry \in entries(tree.left) : before(entry.key, tree.key)
     /\ \A entry \in entries(tree.right) : before(tree.key, entry.key)

\* The values of a trie by path, and whether it holds nothing but values and ways to them.
RECURSIVE trieValues(_, _)
trieValues(trie, path) ==
  (IF hasValue(trie) THEN {[path |-> path, value |-> trie.attribute]} ELSE {})
  \cup UNION {trieValues(child.value, path \o child.key) : child \in entries(trie.children)}

RECURSIVE soundTrie(_)
soundTrie(trie) ==
  /\ hasValue(trie) # (trie.children # Nil)
  /\ balanced(trie.children)
  /\ \A child \in entries(trie.children) : soundTrie(child.value)

attributeEntries(root) ==
  UNION {{[entity |-> entity.key, path |-> a.path, value |-> a.value] : a \in trieValues(entity.value, <<>>)} :
           entity \in entries(root)}

storesAgree ==
  /\ balanced(memory.tuples)
  /\ {[key |-> entry.key, expiresAt |-> entry.value] : entry \in entries(memory.tuples)} = rows.tuples
  /\ balanced(memory.attributes)
  /\ \A entity \in entries(memory.attributes) : soundTrie(entity.value)
  /\ attributeEntries(memory.attributes) = rows.attributes
  /\ \A bucket \in Buckets, now \in Times, limit \in 1..2 :
       Cardinality({row \in rows.tuples : bucketOf(row.key) = bucket}) <= MaxAggregateWorkItems =>
         QueryTuples(memory.tuples, bucket, limit, now) = queryTupleRows(rows.tuples, bucket, limit, now)
  /\ \A key \in AttributeKeys :
       /\ attributeGet(memory.attributes, key.entity, key.path)
            = getAttributeRow(rows.attributes, key.entity, key.path)
       /\ attributeHasDescendant(memory.attributes, key.entity, key.path)
            = descendantRow(rows.attributes, key.entity, key.path)

\* After any writes and deletes the memory store's trees are balanced search trees that
\* hold exactly the rows of the SQLite store, both stores gave the same answer to every
\* write, and both give the same answers to tuple and attribute queries at any time and
\* limit (the memory store may give up earlier, on expired tuples it had to visit).  No
\* write has an expiry beyond int64 nanoseconds: only the SQLite store refuses those.
IndexesAgree ==
  /\ outcome = Nil => storesAgree
  /\ (outcome # Nil /\ outcome.call.op = "write") => outcome.answer.memory = outcome.answer.sqlite

\* A listing under way never fails and repeats nothing, in either store; when it ends it
\* has given every revision that was published before it began, whatever was published
\* between its pages and at whatever time of the publisher's clock.
ListingsAreComplete ==
  listing # Nil =>
  /\ ~ listing.failed
  /\ listed(listing) => listing.published \subseteq Range(listing.seen.memory)
                        /\ listing.published \subseteq Range(listing.seen.sqlite)
  /\ listing.seen.memory = listing.seen.sqlite
  /\ ascending(listing.seen.memory, LAMBDA a, b : before(pageKey(a), pageKey(b)))
  /\ Range(listing.seen.memory) \subseteq rows.revisions

-----------------------------------------------------------------------------
(* Properties: the values.                                                   *)

charged(cost) ==
  LET total[i \in 0..Len(cost)] == IF i = 0 THEN 0 ELSE total[i - 1] + cost[i][1] * cost[i][2]
  IN total[Len(cost)]

apart(a, b) == a.entity = b.entity => ~ IsStrictPrefix(a.path, b.path) /\ ~ IsStrictPrefix(b.path, a.path)

keyOf(a) == [entity |-> a.entity, path |-> a.path]

\* Facts that can hold together: one expiry per tuple, one value per path, and no path
\* above another.
consistent(tuples, attributes) ==
  /\ \A a, b \in tuples : a.tuple = b.tuple => a = b
  /\ \A a, b \in attributes : apart(a, b) /\ (keyOf(a) = keyOf(b) => a = b)

consistentWrite(r) ==
  LET deletes == Range(r.attributeDeletes)
  IN /\ consistent(Range(r.tupleWrites), Range(r.attributeWrites))
     /\ {fact.tuple : fact \in Range(r.tupleWrites)} \cap Range(r.tupleDeletes) = {}
     /\ \A a \in Range(r.attributeWrites) \cup deletes, b \in deletes : apart(a, b)
     /\ {keyOf(a) : a \in Range(r.attributeWrites)} \cap deletes = {}

\* Nothing is lost or added but repeats.
sameElements(r, kept) == Range(r) = Range(kept) /\ Len(kept) = Cardinality(Range(r))

acceptable(call) ==
  LET v == call.value
  IN CASE call.kind = "write" ->
            /\ charged(mutationCost(v)) \in 1..MaxMutationItems
            /\ charged(writeDataRequestCost(v)) <= MaxAggregateInputBytes
            /\ allOf(v.tupleWrites, validTuple) /\ allOf(v.tupleDeletes, validTupleKey)
            /\ allOf(v.attributeWrites, validAttribute) /\ allOf(v.attributeDeletes, validAttributeKey)
            /\ consistentWrite(v)
       [] call.kind = "contextual" ->
            /\ Len(v.tuples) <= MaxContextualTuples /\ Len(v.attributes) <= MaxContextualAttributes
            /\ charged(contextualDataCost(v)) <= MaxAggregateInputBytes
            /\ allOf(v.tuples, validTuple) /\ allOf(v.attributes, validAttribute)
            /\ consistent(Range(v.tuples), Range(v.attributes))
       [] call.kind = "grant" ->
            /\ Len(v.capabilities) \in 1..MaxCapabilitiesPerGrant
            /\ allOf(v.capabilities, validCapability) /\ validateNamespacePattern(v.pattern) = "OK"
            /\ charged(grantCost(v)) <= MaxAggregateInputBytes
       [] call.kind = "approvals" ->
            /\ Len(v) <= MaxVerifierOutputItems /\ allOf(v, validIdentifier)
            /\ charged(identifiersCost(v)) <= MaxVerifierOutputBytes
       [] call.kind = "grants" ->
            /\ Len(v) \in 1..MaxCallerGrants /\ allOf(v, validGrant)
            /\ charged(callerAuthorizationCost(v)) <= MaxAuthorizerOutputBytes
            /\ Cardinality({grant.pattern : grant \in Range(v)}) = Len(v)
       [] call.kind = "status" ->
            /\ Len(v) <= MaxStatusComponents /\ allOf(v, validComponentStatus)
            /\ charged(statusResponseCost(v)) <= MaxAggregateOutputBytes
            /\ Cardinality({component.name : component \in Range(v)}) = Len(v)
       [] call.kind = "history" ->
            /\ Len(v) <= Min({call.request.limit, MaxPageResponseItems}) /\ allOf(v, validActivation)
            /\ charged(activationHistoryPageCost(v, call.next)) <= MaxAggregateOutputBytes
            /\ \A i, j \in DOMAIN v : i < j => v[i].generation < v[j].generation
            /\ \A i \in DOMAIN v : v[i].namespace = call.request.namespace /\ v[i].slot = call.request.slot
       [] call.kind = "events" ->
            /\ Len(v) <= Min({call.request.limit, MaxPageResponseItems, MaxEventPageItems})
            /\ allOf(v, validStateEvent)
            /\ charged(eventPageCost(v, call.next)) <= MaxEventPageBytes
            /\ Cardinality({event.cursor : event \in Range(v)}) = Len(v)
            /\ \A i \in DOMAIN v : v[i].namespace = call.request.namespace

\* What a constructor made passes the check that is made of it again later.
accepted(call, made_) ==
  LET v == call.value
  IN CASE call.kind = "write" ->
            /\ validWriteDataRequest(made_)
            /\ sameElements(v.tupleWrites, made_.tupleWrites) /\ sameElements(v.tupleDeletes, made_.tupleDeletes)
            /\ sameElements(v.attributeWrites, made_.attributeWrites)
            /\ sameElements(v.attributeDeletes, made_.attributeDeletes)
       [] call.kind = "contextual" ->
            /\ validContextualData(made_)
            /\ sameElements(v.tuples, made_.tuples) /\ sameElements(v.attributes, made_.attributes)
       [] call.kind = "grant" -> validGrant(made_) /\ sameElements(v.capabilities, made_.capabilities)
       [] call.kind = "approvals" -> validApprovalVerificationResult(made_) /\ sameElements(v, made_)
       [] call.kind = "grants" -> validCallerAuthorization(made_) /\ sameElements(v, made_)
       [] call.kind = "status" -> validStatusResponse(made_) /\ sameElements(v, made_)
       [] OTHER -> made_.values = v

\* A constructor accepts exactly the lists whose elements can hold together and fit the
\* limits, whatever their order and repeats, although it compares neighbours only and
\* adds costs in integers that wrap; what it makes has the same elements, each once, and
\* is valid wherever it is checked again.
RequestsAreCanonical ==
  (outcome # Nil /\ outcome.call.op = "construct") =>
  /\ (outcome.answer.status = "OK") = acceptable(outcome.call)
  /\ outcome.answer.status = "OK" => accepted(outcome.call, outcome.answer.value)

-----------------------------------------------------------------------------
(* Properties: the decisions.                                                *)

\* Every fact a decision of the call may rest on: rows of the store, facts of the request
\* and, with evidence, facts of the delegation.
factsOf(call) ==
  {[tuple |-> row.key, expiresAt |-> row.expiresAt] : row \in rows.tuples}
  \cup Range(call.request.contextual.tuples)
  \cup IF call.request.delegation = 0 THEN {} ELSE Range(call.delegation.value.tuples)

attributesOf(call) ==
  rows.attributes \cup Range(call.request.contextual.attributes)
  \cup IF call.request.delegation = 0 THEN {} ELSE Range(call.delegation.value.attributes)

\* The decision the facts entail, with the approvals still missing.
entailed(call, item, revision) ==
  LET policy == Policies[revision]
      related == \E fact \in factsOf(call) :
                   /\ fact.tuple = item.resource \o <<policy.program.relation>> \o item.subject \o <<0>>
                   /\ active(fact, call.now)
      guarded == \E a \in attributesOf(call) :
                   /\ a.entity = item.resource
                   /\ a.path \in Range(ResourcePaths(policy.schema, item.resource[1], item.action))
                   /\ a.value.kind = "boolean" /\ a.value.boolean
      satisfied == IF call.request.approval = 0 THEN {} ELSE Range(call.approval.value)
      missing == Range(policy.program.approvals) \ satisfied
  IN CASE ~ related -> [decision |-> "deny", requirements |-> {}]
       [] related /\ (~ guarded \/ missing = {}) -> [decision |-> "allow", requirements |-> {}]
       [] OTHER -> [decision |-> "require_approval", requirements |-> missing]

\* The call as single checks of a caller who holds just what they require.
asChecks(call) ==
  LET r == call.request
      items == IF call.op = "batch" THEN r.items ELSE <<r.item>>
      grant == [pattern |-> [text |-> r.namespace, wildcard |-> FALSE], capabilities |-> checkCapabilities(r)]
      request(item) ==
        [namespace |-> r.namespace, selector |-> r.selector, item |-> item, contextual |-> r.contextual,
         approval |-> r.approval, delegation |-> r.delegation, minimum |-> r.minimum]
  IN [i \in DOMAIN items |-> [call EXCEPT !.op = "check", !.request = request(items[i]),
                                          !.authorizer = made(<<grant>>)]]

resultsOf(call, answer) ==
  CASE call.op = "check" -> <<answer>>
    [] call.op = "batch" -> answer
    [] call.op = "explain" -> <<answer.result>>

capabilitiesOf(call) ==
  Range(IF call.op = "explain" THEN explainCapabilities(call.request) ELSE checkCapabilities(call.request))

\* An answered check, batch or explanation was authorized by grants of exactly the
\* capabilities it needs, says what the stored, contextual and delegated facts entail at
\* its time, used all the evidence it was given, and decides every item, down to the digest
\* its approvals are bound to, as a check of the item alone would, now or later; and the
\* completed decision can always be told to the decision sinks.
DecisionsAreEarned ==
  (outcome # Nil /\ outcome.call.op \in {"check", "batch", "explain"} /\ outcome.answer.status = "OK") =>
  LET call == outcome.call
      results == resultsOf(call, outcome.answer.value)
      checks == asChecks(call)
      earned(result, due) ==
        /\ result.decision = due.decision
        /\ Range(result.requirements) = due.requirements
        /\ call.request.approval # 0 => result.usedApproval
        /\ call.request.delegation # 0 => result.usedDelegation
        /\ NewCompletedDecisionEvent(result).status = "OK"
      same(result, alone, now) ==
        /\ now = call.now => alone = made(result)
        /\ alone.status = "OK" /\ alone.value.bound /\ result.bound => alone.value.digest = result.digest
  IN /\ grantedIn(call.authorizer.value, call.request.namespace) = capabilitiesOf(call)
     /\ \A i \in DOMAIN results :
          /\ earned(results[i], entailed(call, checks[i].request.item, results[i].revision))
          /\ \A now \in {call.now, call.now + 1} :
               same(results[i], Check([checks[i] EXCEPT !.now = now], authorityAt(now)), now)

-----------------------------------------------------------------------------
(* Properties: rows and cursors.                                             *)

rowReadsBack(call, answer) ==
  IF answer.data = encodeRow(call.kind, call.value)
    THEN answer.decoded = made(call.value)
    ELSE answer.decoded.status = "OK" => encodeRow(call.kind, answer.decoded.value) = answer.data

durableReadsBack(call, answer) ==
  answer # Nil =>
  IF answer.row = answer.kept THEN answer.decoded = made(call.value)
  ELSE call.column # "value" => answer.decoded.status = "INTEGRITY"

cursorReadsBack(call, answer) ==
  LET own == /\ call.key = CursorKey /\ call.damage.kind = "none"
             /\ <<call.domain, call.namespace, call.slot>>
                  = <<call.state.domain, call.state.namespace, call.state.slot>>
      kept(store) == IF store = "memory" THEN [call.state EXCEPT !.boundary = 0] ELSE call.state
  IN \A store \in {"memory", "sqlite"} :
       /\ answer[store].status = "OK" => own /\ answer[store].value = kept(store)
       /\ (own /\ validCursorState(call.state)) => answer[store].status = "OK"

\* What is read back from bytes is what was written, and damaged bytes give an error or
\* the value they are the encoding of: no two encodings mean the same, and no damage to
\* the key columns of a fact goes unnoticed.  A cursor opens only the list it was made
\* for, at its own position, under the key of its store.
RowsRoundTrip ==
  outcome # Nil =>
  CASE outcome.call.op = "row" -> rowReadsBack(outcome.call, outcome.answer)
    [] outcome.call.op = "durable" -> durableReadsBack(outcome.call, outcome.answer)
    [] outcome.call.op = "cursor" -> cursorReadsBack(outcome.call, outcome.answer)
    [] OTHER -> TRUE

=============================================================================
