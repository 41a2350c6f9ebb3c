----------------------------- MODULE Decisions -----------------------------
(***************************************************************************)
(* authorization.go, evidence.go, extensions.go and internal/app check.go, *)
(* batch.go and explain.go: the values of a check, and how one pinned      *)
(* session turns a request into decisions.  Pinning, caching, cancellation *)
(* and the slots of the extensions are in Engine; here a call runs alone   *)
(* against an authority: the schema and program of the revision its slot   *)
(* or selector names, and a snapshot of the data.                          *)
(***************************************************************************)
EXTENDS Reader

CONSTANTS
  MaxArgumentItems,
  MaxEvidenceBytes,
  MaxBatchItems,
  MaxExplainSteps

-----------------------------------------------------------------------------
(* Requests.  An item is [subject, resource, action, arguments].             *)

validSelector(selector) ==
  /\ (selector.slot = 0) # (selector.revision = 0)
  /\ IF selector.slot # 0 THEN validIdentifier(selector.slot) ELSE selector.revision > 0

validateArguments(arguments) ==
  firstError(<<within(Len(arguments) <= MaxArgumentItems)>>
             \o [i \in DOMAIN arguments |-> firstError(<<validateIdentifier(arguments[i].name),
                                                         required(validValue(arguments[i].value))>>)])

validateItem(item) ==
  firstError(<<validateEntityRef(item.subject), validateEntityRef(item.resource),
               validateIdentifier(item.action), validateArguments(item.arguments)>>)

evidenceFits(r) == r.approval <= MaxEvidenceBytes /\ r.delegation <= MaxEvidenceBytes

NewCheckRequest(r) ==
  constructed(firstError(<<within(Len(r.item.arguments) <= MaxArgumentItems /\ evidenceFits(r)),
                           spend(MaxAggregateInputBytes, checkRequestCost(r)),
                           required(validSelector(r.selector) /\ validContextualData(r.contextual)),
                           validateNamespace(r.namespace), validateItem(r.item)>>),
              r)

validCheckRequest(r) == NewCheckRequest(r).status = "OK"

NewBatchCheckItem(item) ==
  constructed(firstError(<<within(Len(item.arguments) <= MaxArgumentItems),
                           spend(MaxAggregateInputBytes, batchItemCost(item)), validateItem(item)>>),
              item)

validBatchCheckItem(item) == NewBatchCheckItem(item).status = "OK"

batchWork(r) ==
  one(contextualWorkItems(r.contextual)) \o [i \in DOMAIN r.items |-> <<1, 1 + Len(r.items[i].arguments)>>]

NewBatchCheckRequest(r) ==
  constructed(firstError(<<within(Len(r.items) <= MaxBatchItems /\ evidenceFits(r)),
                           spend(MaxAggregateInputBytes, batchRequestCost(r)),
                           spend(MaxAggregateWorkItems, batchWork(r)),
                           required(validSelector(r.selector) /\ r.items # <<>>
                                    /\ validContextualData(r.contextual)),
                           validateNamespace(r.namespace), required(allOf(r.items, validBatchCheckItem))>>),
              r)

validBatchCheckRequest(r) == NewBatchCheckRequest(r).status = "OK"

-----------------------------------------------------------------------------
(* What SHA-256 is given, as lists of words; equal digests are equal lists.  *)

valueWords(value) ==
  <<kindRank(value.kind)>>
  \o CASE value.kind = "string" -> <<value.text>>
       [] value.kind = "integer" -> <<value.integer>>
       [] value.kind = "boolean" -> <<IF value.boolean THEN 1 ELSE 0>>
       [] OTHER -> <<>>

argumentsWords(arguments) ==
  each(sortedBy(arguments, LAMBDA a, b : a.name < b.name),
       LAMBDA argument : <<argument.name>> \o valueWords(argument.value))

itemWords(item) == item.subject \o item.resource \o <<item.action>>

selectorWords(selector) == IF exact(selector) THEN <<2, selector.revision>> ELSE <<1, selector.slot>>

factWords(fact) == Append(fact.tuple, fact.expiresAt)

contextualWords(data) ==
  each(data.tuples, factWords)
  \o each(data.attributes, LAMBDA a : a.entity \o a.path \o valueWords(a.value))

checkFingerprint(r) ==
  <<r.namespace>> \o selectorWords(r.selector) \o itemWords(r.item) \o argumentsWords(r.item.arguments)
  \o <<r.minimum>> \o contextualWords(r.contextual)

batchFingerprint(r) ==
  LET words(item) == itemWords(item) \o <<Len(item.arguments)>> \o argumentsWords(item.arguments)
  IN <<r.namespace>> \o selectorWords(r.selector) \o <<Len(r.items)>> \o each(r.items, words)
     \o <<r.minimum, Len(r.contextual.tuples), Len(r.contextual.attributes)>> \o contextualWords(r.contextual)

fingerprintEffectiveContext(data) ==
  <<Len(data.tuples)>> \o each(data.tuples, factWords)
  \o <<Len(data.attributes)>>
  \o each(data.attributes, LAMBDA a : a.entity \o <<Len(a.path)>> \o a.path \o valueWords(a.value))

approvalItemFingerprint(item, data, usedDelegation) ==
  itemWords(item) \o <<Len(item.arguments)>> \o argumentsWords(item.arguments)
  \o fingerprintEffectiveContext(data) \o <<IF usedDelegation THEN 1 ELSE 0>>

\* Caller.Binding: attributes in the order of their names.
callerBinding(caller) ==
  <<caller.id>> \o each(sortedBy(caller.attributes, LAMBDA a, b : a.name < b.name),
                        LAMBDA a : <<a.name, a.value>>)

-----------------------------------------------------------------------------
(* Evidence bindings.                                                        *)

selectorPins(selector, revision, slotGeneration) ==
  IF exact(selector) THEN selector.revision = revision /\ slotGeneration = 0 ELSE slotGeneration > 0

NewEvidenceBinding(binding) ==
  constructed(firstError(<<spend(MaxAggregateInputBytes, evidenceBindingCost(binding)),
                           required(validSelector(binding.selector) /\ binding.revision > 0
                                    /\ binding.evaluatedAt # 0),
                           validateNamespace(binding.namespace),
                           required(selectorPins(binding.selector, binding.revision,
                                                 binding.slotGeneration))>>),
              binding)

validEvidenceBinding(binding) == NewEvidenceBinding(binding).status = "OK"

\* Everything of the binding but the time of the evaluation.
AuthorizationDigest(binding) ==
  <<Len(binding.caller)>> \o binding.caller \o <<binding.namespace>> \o selectorWords(binding.selector)
  \o <<binding.revision, binding.slotGeneration, binding.dataGeneration>> \o binding.fingerprint

-----------------------------------------------------------------------------
(* Verifiers.  An answer is what the extension gave: an error, or a value.   *)

NewApprovalVerificationRequest(binding, requirements, evidence) ==
  constructed(firstError(<<within(Len(requirements) <= MaxVerifierOutputItems
                                  /\ evidence <= MaxEvidenceBytes),
                           required(requirements # <<>> /\ evidence # 0),
                           spend(MaxAggregateInputBytes,
                                 approvalVerificationRequestCost(binding, requirements, evidence)),
                           required(validEvidenceBinding(binding)),
                           validateIdentifiers(requirements, MaxVerifierOutputItems,
                                               MaxVerifierOutputBytes)>>),
              canonicalIdentifiers(requirements))

NewApprovalVerificationResult(satisfied) ==
  constructed(firstError(<<within(Len(satisfied) <= MaxVerifierOutputItems),
                           spend(MaxVerifierOutputBytes, identifiersCost(satisfied)),
                           validateIdentifiers(satisfied, MaxVerifierOutputItems, MaxVerifierOutputBytes)>>),
              canonicalIdentifiers(satisfied))

validApprovalVerificationResult(satisfied) ==
  /\ validCanonicalIdentifiers(satisfied, MaxVerifierOutputItems, MaxVerifierOutputBytes)
  /\ spend(MaxVerifierOutputBytes, identifiersCost(satisfied)) = "OK"

\* The scan over two sorted lists: is every satisfied requirement a requested one?
RECURSIVE onlyRequested(_, _)
onlyRequested(satisfied, requested) ==
  \/ satisfied = <<>>
  \/ /\ requested # <<>>
     /\ IF Head(requested) < Head(satisfied) THEN onlyRequested(satisfied, Tail(requested))
        ELSE Head(requested) = Head(satisfied) /\ onlyRequested(Tail(satisfied), requested)

InvokeApprovalVerifier(answer, requested) ==
  LET accepted(satisfied) ==
        IF validApprovalVerificationResult(satisfied) /\ onlyRequested(satisfied, requested)
          THEN made(satisfied) ELSE refused("INTERNAL")
  IN andThen(answer, accepted)

NewDelegationVerificationRequest(binding, evidence) ==
  constructed(firstError(<<within(evidence <= MaxEvidenceBytes), required(evidence # 0),
                           spend(MaxAggregateInputBytes,
                                 delegationVerificationRequestCost(binding, evidence)),
                           required(validEvidenceBinding(binding))>>),
              binding)

NewDelegationVerificationResult(data) ==
  constructed(firstError(<<spend(MaxVerifierOutputItems,
                                 <<<<1, Len(data.tuples)>>, <<1, Len(data.attributes)>>>>),
                           spend(MaxVerifierOutputBytes, contextualDataCost(data)),
                           required(validContextualData(data))>>),
              data)

InvokeDelegationVerifier(answer) ==
  andThen(answer, LAMBDA data : IF NewDelegationVerificationResult(data).status = "OK" THEN made(data)
                                ELSE refused("INTERNAL"))

\* The defaults refuse all evidence.
DefaultApprovalVerifier == refused("PERMISSION_DENIED")
DefaultDelegationVerifier == refused("PERMISSION_DENIED")

=============================================================================
