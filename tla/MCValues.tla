------------------------------ MODULE MCValues ------------------------------
(***************************************************************************)
(* Small workloads for Values.  Texts are their lengths: types 1 (user)    *)
(* and 2 (document), relation 3, actions 4 and 5, segments 5 to 7.         *)
(***************************************************************************)
EXTENDS Values

MCNamespace == 3
MCCursorKey == 1
MCTimes == 1..3

\* The sequences of at most n elements of a set.
listsOf(set, n) == UNION {[1..k -> set] : k \in 0..n}

yes == newValue("boolean", 0, 0, TRUE)
no == newValue("boolean", 0, 0, FALSE)
word(text) == newValue("string", text, 0, FALSE)

document(id) == <<2, id>>
viewer(documentId, user) == <<2, documentId, 3, 1, user, 0>>
fact(tuple, expiresAt) == [tuple |-> tuple, expiresAt |-> expiresAt]
attribute(entity, path, value) == [entity |-> entity, path |-> path, value |-> value]
attributeKey(entity, path) == [entity |-> entity, path |-> path]

-----------------------------------------------------------------------------
(* Policies: a document has viewers, the fields 5, 6 and 6.7 guard action 4,  *)
(* the field 6.6 guards action 5.  Revision 2 guards nothing.                 *)

reads(path) == [kind |-> "comparison", root |-> "resource", path |-> path]
both(left, right) == [kind |-> "logical", left |-> left, right |-> right]

documentSchema(guards) ==
  [entities |-> (1 :> <<>>) @@ (2 :> (3 :> {<<1, 0>>})), guards |-> guards]

MCPolicies ==
  (1 :> [schema |-> documentSchema(<<[entity |-> 2, action |-> 4,
                                      rules |-> <<both(reads(<<6>>), reads(<<6, 7>>)), reads(<<5>>)>>],
                                     [entity |-> 2, action |-> 5, rules |-> <<reads(<<6, 6>>)>>]>>),
         program |-> [relation |-> 3, approvals |-> <<6, 5>>]])
  @@ (2 :> [schema |-> documentSchema(<<>>), program |-> [relation |-> 3, approvals |-> <<>>]])

MCActiveSlots == 4 :> [revision |-> 1, slotGeneration |-> 2]

MCBuckets == {<<2, id, 3>> : id \in 1..2}

paths == {<<5>>, <<6>>, <<6, 6>>, <<6, 7>>}
MCAttributeKeys == {attributeKey(document(id), path) : id \in 1..2, path \in paths \cup {<<6, 7, 7>>, <<7>>}}

-----------------------------------------------------------------------------
(* Writes.                                                                   *)

noWrites == [namespace |-> MCNamespace, revision |-> 1, key |-> 1, tupleWrites |-> <<>>,
             tupleDeletes |-> <<>>, attributeWrites |-> <<>>, attributeDeletes |-> <<>>]

user == [id |-> 2, attributes |-> <<[name |-> 2, value |-> 1], [name |-> 1, value |-> 0]>>]
grantOf(text, wildcard, capabilities) ==
  [pattern |-> [text |-> text, wildcard |-> wildcard], capabilities |-> capabilities]
writer == made(<<grantOf(2, TRUE, <<DataWrite>>)>>)

writes(requests) ==
  {[op |-> "write", request |-> r, caller |-> user, authorizer |-> writer] : r \in requests}

keys == {viewer(1, id) : id \in 1..5} \cup {viewer(2, 1)}
expiryOf(key) == IF key[5] = 2 THEN 2 ELSE 0

writtenKeys == {attributeKey(document(1), path) : path \in paths}
               \cup {attributeKey(document(2), path) : path \in {<<6>>, <<6, 7>>}}

tupleWrites ==
  writes({[noWrites EXCEPT !.tupleWrites = <<fact(key, expiryOf(key))>>] : key \in keys}
         \cup {[noWrites EXCEPT !.tupleDeletes = <<key>>] : key \in keys})

attributeWrites ==
  writes({[noWrites EXCEPT !.attributeWrites = <<attribute(key.entity, key.path, yes)>>] : key \in writtenKeys}
         \cup {[noWrites EXCEPT !.attributeDeletes = <<key>>] : key \in writtenKeys}
         \cup {[noWrites EXCEPT !.attributeDeletes = <<attributeKey(document(1), <<6>>)>>,
                                !.attributeWrites = <<attribute(document(1), <<5>>, no)>>],
               [noWrites EXCEPT !.tupleWrites = <<fact(viewer(1, 1), 0)>>,
                                !.attributeWrites = <<attribute(document(1), <<6, 7>>, no),
                                                      attribute(document(2), <<6>>, no)>>],
               [noWrites EXCEPT !.attributeWrites = <<attribute(document(1), <<7>>, no)>>],
               [noWrites EXCEPT !.revision = 3, !.tupleWrites = <<fact(viewer(1, 1), 0)>>]})

-----------------------------------------------------------------------------
(* Requests and responses.                                                   *)

facts == {fact(viewer(1, 1), 0), fact(viewer(1, 1), 2), fact(viewer(1, 2), 0), fact(<<2, 1, 3, 1, -2, 0>>, 0)}
attributes == {attribute(document(1), <<6>>, yes), attribute(document(1), <<6, 7>>, yes),
               attribute(document(1), <<6, 7>>, no), attribute(document(1), <<6, 8>>, yes),
               attribute(document(1), <<6, 9>>, yes),
               attribute(document(2), <<6>>, yes)}
fewAttributes == {attribute(document(1), <<6, 7>>, yes), attribute(document(2), <<6>>, yes),
                  attribute(document(1), <<5>>, word(MaxInt - 20))}
fewKeys == {attributeKey(document(1), path) : path \in {<<6>>, <<6, 7>>, <<6, 6>>}}
           \cup {attributeKey(document(2), <<6, 5>>)}

rawWrites ==
  {[noWrites EXCEPT !.attributeWrites = a] : a \in listsOf(attributes, 3)}
  \cup {[noWrites EXCEPT !.attributeWrites = a, !.attributeDeletes = d] :
          a \in listsOf(fewAttributes, 2), d \in listsOf(fewKeys, 2)}
  \cup {[noWrites EXCEPT !.tupleWrites = w, !.tupleDeletes = d] :
          w \in listsOf(facts, 2), d \in listsOf({viewer(1, 1), viewer(1, 2), viewer(2, 1)}, 2)}
  \cup {[noWrites EXCEPT !.tupleDeletes = [i \in 1..n |-> viewer(1, 1)]] : n \in {MaxMutationItems, MaxMutationItems + 1}}

rawContexts ==
  {[tuples |-> t, attributes |-> <<>>] : t \in listsOf(facts, 3)}
  \cup {[tuples |-> <<>>, attributes |-> a] : a \in listsOf(attributes, 3)}

grants == {grantOf(2, TRUE, <<DataWrite>>), grantOf(3, FALSE, <<AuthorizationCheck, DataWrite>>),
           grantOf(3, TRUE, <<AuthorizationCheck>>), grantOf(3, FALSE, <<DataWrite>>),
           grantOf(2, FALSE, <<DataWrite, AuthorizationCheck>>)}

rawGrants ==
  {grantOf(text, TRUE, capabilities) :
     text \in {0, 3, -1, MaxInt - 10}, capabilities \in listsOf({-1, AuthorizationCheck, DataWrite}, 3)}
  \cup {grantOf(3, FALSE, [i \in 1..n |-> DataWrite]) : n \in {MaxCapabilitiesPerGrant, MaxCapabilitiesPerGrant + 1}}

identifiers == {0, 5, 6, 40, -1, MaxInt - 5}

components == {[name |-> n, state |-> s, reason |-> 1] : n \in 0..2, s \in {1, 3}}

activations ==
  {[namespace |-> 3, slot |-> s, revision |-> 1, generation |-> g, activatedAt |-> 1] :
     s \in 4..5, g \in 1..3}

events ==
  {[namespace |-> 3, cursor |-> c, kind |-> k, revision |-> 1, slot |-> 0, slotGeneration |-> 0,
    dataGeneration |-> 0, occurredAt |-> 1] : c \in 1..3, k \in {1, 3}}

pageRequest == [namespace |-> 3, slot |-> 4, cursor |-> 0, limit |-> 2]

constructs(kind, values) == {[op |-> "construct", kind |-> kind, value |-> v] : v \in values}

pages(kind, values) ==
  {[op |-> "construct", kind |-> kind, value |-> v, request |-> pageRequest, next |-> 1] : v \in values}

-----------------------------------------------------------------------------
(* Decisions.                                                                *)

item(subject, documentId, action) ==
  [subject |-> <<1, subject>>, resource |-> document(documentId), action |-> action, arguments |-> <<>>]

noContext == [tuples |-> <<>>, attributes |-> <<>>]
contexts == {noContext,
             [tuples |-> <<fact(viewer(1, 1), 2)>>, attributes |-> <<>>],
             [tuples |-> <<>>, attributes |-> <<attribute(document(1), <<6, 7>>, yes)>>]}

bySlot == [slot |-> 4, revision |-> 0]
byRevision(id) == [slot |-> 0, revision |-> id]

shared(selector, contextual, approval, delegation) ==
  [namespace |-> MCNamespace, selector |-> selector, contextual |-> contextual,
   approval |-> approval, delegation |-> delegation, minimum |-> 0]

ofItem(base, i) == base @@ [item |-> i]
ofItems(base, is) == base @@ [items |-> is]

\* Grants of what the request needs, of less, of more, under a wildcard and in two parts.
authorizers(needed) ==
  {made(<<grantOf(3, FALSE, needed)>>), made(<<grantOf(3, TRUE, needed)>>),
   made(<<grantOf(4, FALSE, needed)>>), DefaultCallerAuthorizer,
   made(<<grantOf(3, FALSE, needed), grantOf(1, TRUE, <<SystemStatus>>)>>),
   made(<<grantOf(3, FALSE, <<AuthorizationCheck>>), grantOf(2, TRUE, needed)>>)}

approvalAnswers == {made(<<5>>), made(<<5, 6>>), made(<<7>>), DefaultApprovalVerifier}

delegations == {made([tuples |-> <<fact(viewer(1, 2), 0)>>, attributes |-> <<>>]),
                made([tuples |-> <<fact(viewer(1, 1), 2)>>,
                      attributes |-> <<attribute(document(1), <<6, 7>>, yes)>>]),
                DefaultDelegationVerifier}

callOf(op, r, authorizer, approval, delegation, now) ==
  [op |-> op, request |-> r, caller |-> user, authorizer |-> authorizer, approval |-> approval,
   delegation |-> delegation, now |-> now]

entitled(op, r) ==
  made(<<grantOf(3, FALSE, IF op = "explain" THEN explainCapabilities(r) ELSE checkCapabilities(r))>>)

\* Any answers of the verifiers, and any authorizer with the plain ones.
callsOf(op, r, now) ==
  {callOf(op, r, entitled(op, r), a, d, now) :
     a \in IF r.approval = 0 THEN {DefaultApprovalVerifier} ELSE approvalAnswers,
     d \in IF r.delegation = 0 THEN {DefaultDelegationVerifier} ELSE delegations}

evidence == {0, 9}

requests ==
  {shared(bySlot, c, a, d) : c \in contexts, a \in evidence, d \in evidence}
  \cup {shared(byRevision(1), noContext, a, 0) : a \in evidence}
  \cup {shared(s, noContext, 0, 0) : s \in {byRevision(2), byRevision(3), [slot |-> 5, revision |-> 0]}}

checkCalls ==
  UNION {callsOf("check", ofItem(r, item(of[1], 1, 4)), of[2]) :
           r \in requests, of \in {<<1, 1>>, <<1, 2>>, <<2, 1>>}}
  \cup UNION {callsOf("explain", ofItem(r, item(1, 1, 4)), 1) : r \in requests}

authorizerCalls ==
  UNION {{callOf(op, r, a, DefaultApprovalVerifier, DefaultDelegationVerifier, 1) :
            a \in authorizers(IF op = "explain" THEN explainCapabilities(r) ELSE checkCapabilities(r))} :
          op \in {"check", "explain"}, r \in {ofItem(shared(bySlot, c, 0, 0), item(1, 1, 4)) : c \in contexts}}

batchCalls ==
  UNION {callsOf("batch", ofItems(shared(bySlot, c, a, d), is), 1) :
           c \in contexts, a \in evidence, d \in evidence,
           is \in {<<item(1, 1, 4), item(2, 1, 4)>>, <<item(1, 1, 4), item(1, 1, 5), item(1, 2, 4)>>}}
  \cup callsOf("batch", ofItems(shared(bySlot, noContext, 0, 0), [i \in 1..4 |-> item(1, 1, 4)]), 1)

decisionWrites ==
  writes({[noWrites EXCEPT !.tupleWrites = <<fact(viewer(1, 1), 0)>>],
          [noWrites EXCEPT !.tupleWrites = <<fact(viewer(1, 2), 2)>>],
          [noWrites EXCEPT !.attributeWrites = <<attribute(document(1), <<6, 7>>, yes)>>],
          [noWrites EXCEPT !.attributeWrites = <<attribute(document(1), <<6>>, word(4))>>]})

-----------------------------------------------------------------------------
(* Rows and cursors.                                                         *)

damages ==
  {[kind |-> "none", at |-> 0, byte |-> 0]}
  \cup {[kind |-> "changed", at |-> at, byte |-> byte] : at \in 1..40, byte \in 0..3}
  \cup {[kind |-> "cut", at |-> at, byte |-> 0] : at \in {1, 2, 5, 9, 14, 20}}
  \cup {[kind |-> "longer", at |-> 0, byte |-> byte] : byte \in 0..1}

rowsOf(kind, values) ==
  {[op |-> "row", kind |-> kind, value |-> v, damage |-> d] : v \in values, d \in damages}

event(kind, revision, slot, slotGeneration, dataGeneration) ==
  [namespace |-> 3, cursor |-> 2, kind |-> kind, revision |-> revision, slot |-> slot,
   slotGeneration |-> slotGeneration, dataGeneration |-> dataGeneration, occurredAt |-> 5]

durables(kind, columns, values, harm) ==
  {[op |-> "durable", kind |-> kind, column |-> c, value |-> v, damage |-> d] :
     c \in columns, v \in values, d \in harm}

\* Damage to a column of texts: one of them is another.
otherText == {d \in damages : d.kind \in {"none", "changed"} /\ d.at <= 6}

durableAttributes == {attribute(document(1), <<2, 1>>, yes), attribute(document(2), <<3>>, word(2))}
durableTuples == {fact(viewer(1, 1), 2), fact(viewer(1, 2), 0), fact(viewer(2, 1), 1)}
                 \cup {fact(viewer(1, 2), UnixEpoch * NanosPerSecond + MaxInt64 + i) : i \in 0..1}

cursorStates ==
  {cursorAt(RevisionDomain, 3, 0, 0, 0, 5, 2), cursorAt(HistoryDomain, 3, 4, 3, 1, 0, 0),
   cursorAt(HistoryDomain, 3, 4, 1, 1, 0, 0), cursorAt(EventDomain, 3, 0, 3, 0, 0, 0)}

cursors ==
  {[op |-> "cursor", state |-> s, key |-> k, domain |-> d, namespace |-> n, slot |-> l, damage |-> x] :
     s \in cursorStates, k \in 1..2, d \in 1..3, n \in {2, 3}, l \in {0, 4, 5},
     x \in {[kind |-> "none", at |-> 0, byte |-> 0], [kind |-> "changed", at |-> 10, byte |-> 9],
            [kind |-> "longer", at |-> 0, byte |-> 0]}}

-----------------------------------------------------------------------------
revision(id, publishedAt) == [namespace |-> MCNamespace, id |-> id, publishedAt |-> publishedAt]

listings ==
  {[op |-> "list", limit |-> limit] : limit \in 1..2}

publications ==
  {[op |-> "publish", revision |-> r] :
     r \in {revision(id, at) : id \in 1..2, at \in {2, 4}} \cup {revision(3, 4), revision(4, 2)}}

workloads ==
  [tuples |-> tupleWrites, attributes |-> attributeWrites,
   writes |-> constructs("write", rawWrites), contexts |-> constructs("contextual", rawContexts),
   grant |-> constructs("grant", rawGrants), approvals |-> constructs("approvals", listsOf(identifiers, 3) \cup listsOf({5, 6}, 4)),
   grants |-> constructs("grants", listsOf(grants, 3)),
   status |-> constructs("status", listsOf(components, 3)),
   history |-> pages("history", listsOf(activations, 3)), events |-> pages("events", listsOf(events, 3)),
   decisions |-> decisionWrites \cup checkCalls \cup authorizerCalls, batches |-> decisionWrites \cup batchCalls,
   metadata |-> rowsOf("metadata", {revision(1, 1), revision(2, 4)}),
   activation |-> rowsOf("activation", {[namespace |-> 3, slot |-> 4, revision |-> 1, generation |-> 2, activatedAt |-> 5]}),
   event |-> rowsOf("event", {event(1, 1, 0, 0, 0), event(2, 1, 4, 2, 0), event(3, 0, 0, 0, 2)}),
   provenance |-> rowsOf("provenance", {noProvenance, [name |-> 2, source |-> <<0, 3>>]}),
   key |-> rowsOf("key", {attributeKey(document(1), <<2>>), attributeKey(document(3), <<1, 2>>)}),
   value |-> rowsOf("value", {yes, no, word(0), word(3), newValue("integer", 0, -2, FALSE),
                              newValue("integer", 0, 5, FALSE), newValue("null", 0, 0, FALSE)}),
   tuple |-> rowsOf("tuple", {viewer(1, 1), <<2, 1, 3, 1, 2, 3>>}),
   durableAttributes |-> durables("attribute", {"key", "path", "value"}, durableAttributes, damages)
                         \cup durables("attribute", {"entity"}, durableAttributes, otherText),
   durableTuples |-> durables("tuple", {"key"}, durableTuples, damages)
                     \cup durables("tuple", {"tuple"}, durableTuples, otherText),
   cursors |-> cursors, revisions |-> publications \cup listings]

\* TLC evaluates a definition that replaces a constant at every use, and workloads once.
MCWorkloads == workloads

=============================================================================
