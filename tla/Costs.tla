------------------------------- MODULE Costs -------------------------------
(***************************************************************************)
(* cost.go: what each public value is charged for.  The code threads one   *)
(* budget through every field in turn; a cost here is the list of those    *)
(* charges, in the code's order, for Texts!spend to make.                  *)
(***************************************************************************)
EXTENDS Texts

valueMetadataBytes == 9
collectionMetadataBytes == 8
fieldMetadataBytes == 8
timestampBytes == 40
digestBytes == 32
uint64Bytes == 8
boolBytes == 1
enumBytes == 1
revisionIDBytes == 64

one(size) == <<<<1, size>>>>

\* The costs of the elements of a list, one after the other.
each(values, Cost(_)) == FlattenSeq([i \in DOMAIN values |-> Cost(values[i])])

fixedFieldCost(size) == one(fieldMetadataBytes) \o one(size)

textCost(text) == fixedFieldCost(bytes(text))

bytesCost(size) == fixedFieldCost(size)

\* A revision identifier is a positive number, 0 when empty, negative when malformed.
revisionIDCost(id) == fixedFieldCost(IF id = 0 THEN 0 ELSE revisionIDBytes)

textsCost(texts) == each(texts, textCost)

identifiersCost(values) == one(collectionMetadataBytes) \o textsCost(values)

\* A value is [kind, text, integer, boolean]; only its text is of any length.
valueCost(value) ==
  one(valueMetadataBytes) \o IF value.kind = "string" THEN one(bytes(value.text)) ELSE <<>>

\* An entity is its type and ID, a subject those and a relation, a tuple the fields
\* of its resource, its relation and the fields of its subject.
entityRefCost(entity) == textsCost(entity)

attributePathCost(path) == one(collectionMetadataBytes) \o textsCost(path)

tupleCost(tuple) == textsCost(tuple)

relationshipTupleCost(fact) ==
  tupleCost(fact.tuple) \o fixedFieldCost(boolBytes)
  \o IF fact.expiresAt # 0 THEN fixedFieldCost(timestampBytes) ELSE <<>>

attributeCost(attribute) ==
  entityRefCost(attribute.entity) \o attributePathCost(attribute.path) \o valueCost(attribute.value)

attributeKeyCost(key) == entityRefCost(key.entity) \o attributePathCost(key.path)

contextualDataCost(data) ==
  <<<<2, collectionMetadataBytes>>>>
  \o each(data.tuples, relationshipTupleCost) \o each(data.attributes, attributeCost)

\* Arguments come from a map; their order in the list does not matter to the sum.
argumentsCost(arguments) ==
  LET argumentCost(argument) == textCost(argument.name) \o valueCost(argument.value)
  IN one(collectionMetadataBytes) \o each(arguments, argumentCost)

selectorCost(selector) == textCost(selector.slot) \o revisionIDCost(selector.revision)

\* Evidence is told by its length.
sharedRequestCost(r) ==
  contextualDataCost(r.contextual) \o bytesCost(r.approval) \o bytesCost(r.delegation)
  \o fixedFieldCost(uint64Bytes)

batchItemCost(item) ==
  entityRefCost(item.subject) \o entityRefCost(item.resource) \o textCost(item.action)
  \o argumentsCost(item.arguments)

checkRequestCost(r) ==
  textCost(r.namespace) \o selectorCost(r.selector) \o batchItemCost(r.item) \o sharedRequestCost(r)

batchRequestCost(r) ==
  textCost(r.namespace) \o selectorCost(r.selector) \o one(collectionMetadataBytes)
  \o each(r.items, batchItemCost) \o sharedRequestCost(r)

writeDataRequestCost(r) ==
  textCost(r.namespace) \o revisionIDCost(r.revision) \o textCost(r.key)
  \o fixedFieldCost(uint64Bytes) \o <<<<4, collectionMetadataBytes>>>>
  \o each(r.tupleWrites, relationshipTupleCost) \o each(r.tupleDeletes, tupleCost)
  \o each(r.attributeWrites, attributeCost) \o each(r.attributeDeletes, attributeKeyCost)

-----------------------------------------------------------------------------
(* Decisions and evidence.                                                   *)

decisionResultCost(result) ==
  textCost(result.id) \o textCost(result.reason) \o revisionIDCost(result.revision)
  \o each(<<enumBytes, uint64Bytes, uint64Bytes, timestampBytes, boolBytes, boolBytes, boolBytes>>,
          fixedFieldCost)
  \o (IF result.bound THEN fixedFieldCost(digestBytes) ELSE <<>>)
  \o identifiersCost(result.requirements)

batchResponseCost(results) == one(collectionMetadataBytes) \o each(results, decisionResultCost)

explainResponseCost(result, steps) ==
  LET stepCost(step) ==
        textCost(step.path) \o textCost(step.operator) \o fixedFieldCost(boolBytes)
  IN decisionResultCost(result) \o one(collectionMetadataBytes) \o each(steps, stepCost)

evidenceBindingCost(binding) ==
  fixedFieldCost(digestBytes) \o textCost(binding.namespace) \o selectorCost(binding.selector)
  \o revisionIDCost(binding.revision)
  \o each(<<uint64Bytes, uint64Bytes, timestampBytes, digestBytes>>, fixedFieldCost)

approvalVerificationRequestCost(binding, requirements, evidence) ==
  evidenceBindingCost(binding) \o identifiersCost(requirements) \o bytesCost(evidence)

delegationVerificationRequestCost(binding, evidence) ==
  evidenceBindingCost(binding) \o bytesCost(evidence)

callerCost(caller) ==
  LET attributeOf(attribute) == textCost(attribute.name) \o textCost(attribute.value)
  IN textCost(caller.id) \o one(collectionMetadataBytes) \o each(caller.attributes, attributeOf)

\* A capability is its rank, -1 for the empty one; these are the lengths of the names.
capabilityBytes == <<11, 14, 15, 19, 29, 31, 21, 10, 11, 13>>

capabilityCost(rank) == fixedFieldCost(IF rank \in 0..9 THEN capabilityBytes[rank + 1] ELSE 0)

grantCost(grant) ==
  fixedFieldCost(patternBytes(grant.pattern)) \o one(collectionMetadataBytes)
  \o each(grant.capabilities, capabilityCost)

callerAuthorizationCost(grants) == one(collectionMetadataBytes) \o each(grants, grantCost)

-----------------------------------------------------------------------------
(* Pages and status.                                                         *)

pageCost(values, next, Cost(_)) ==
  one(collectionMetadataBytes) \o textCost(next) \o each(values, Cost)

publishRequestCost(namespace, name, source) ==
  textCost(namespace) \o textCost(name) \o bytesCost(source)

revisionMetadataCost(revision) ==
  textCost(revision.namespace) \o fixedFieldCost(revisionIDBytes) \o fixedFieldCost(timestampBytes)

revisionPageCost(revisions, next) == pageCost(revisions, next, revisionMetadataCost)

activationCost(activation) ==
  textCost(activation.namespace) \o textCost(activation.slot) \o revisionIDCost(activation.revision)
  \o fixedFieldCost(uint64Bytes) \o fixedFieldCost(timestampBytes)

activationHistoryPageCost(activations, next) == pageCost(activations, next, activationCost)

stateEventCost(event) ==
  textCost(event.namespace) \o textCost(event.cursor) \o revisionIDCost(event.revision)
  \o textCost(event.slot)
  \o each(<<enumBytes, uint64Bytes, uint64Bytes, timestampBytes>>, fixedFieldCost)

eventPageCost(events, next) == pageCost(events, next, stateEventCost)

componentStatusCost(component) ==
  textCost(component.name) \o fixedFieldCost(enumBytes) \o textCost(component.reason)

statusResponseCost(components) ==
  fixedFieldCost(boolBytes) \o one(collectionMetadataBytes) \o each(components, componentStatusCost)

=============================================================================
