------------------------------ MODULE Sessions ------------------------------
(***************************************************************************)
(* internal/app check.go, batch.go and explain.go over the values of       *)
(* Decisions: one session, the items it evaluates and the responses it     *)
(* makes.  An authority is [policies, slots, snapshot, generation], with a *)
(* policy [schema, program] for every published revision.  A call is [op,  *)
(* request, caller, authorizer, approval, delegation, now]; authorizer,    *)
(* approval and delegation are what the extensions answer.                 *)
(***************************************************************************)
EXTENDS Decisions

-----------------------------------------------------------------------------
(* Results and responses.                                                    *)

decisions == {"allow", "deny", "require_approval"}

resultShape(result) ==
  /\ (result.decision = "require_approval") = (result.requirements # <<>>)
  /\ (result.decision = "require_approval") = result.bound

NewDecisionResult(input) ==
  LET kept == [input EXCEPT !.requirements = canonicalIdentifiers(@)]
  IN constructed(firstError(<<within(Len(input.requirements) <= MaxVerifierOutputItems),
                              spend(MaxAggregateOutputBytes, decisionResultCost(input)),
                              required(input.decision \in decisions /\ input.revision > 0
                                       /\ input.evaluatedAt # 0),
                              validateIdentifier(input.id), validateIdentifier(input.reason),
                              validateIdentifiers(input.requirements, MaxVerifierOutputItems,
                                                  MaxAggregateOutputBytes),
                              required(resultShape(kept))>>),
                 kept)

validDecisionResult(result) ==
  /\ result.decision \in decisions /\ validIdentifier(result.id) /\ validIdentifier(result.reason)
  /\ result.revision > 0 /\ result.evaluatedAt # 0
  /\ validCanonicalIdentifiers(result.requirements, MaxVerifierOutputItems, MaxAggregateOutputBytes)
  /\ resultShape(result)
  /\ spend(MaxAggregateOutputBytes, decisionResultCost(result)) = "OK"

selectorMatchesResult(selector, result) ==
  validSelector(selector) /\ selectorPins(selector, result.revision, result.slotGeneration)

NewCheckResponse(r, result) ==
  constructed(required(/\ validCheckRequest(r) /\ validDecisionResult(result)
                       /\ selectorMatchesResult(r.selector, result)),
              result)

sameSnapshot(a, b) ==
  /\ a.revision = b.revision /\ a.slotGeneration = b.slotGeneration
  /\ a.dataGeneration = b.dataGeneration /\ a.evaluatedAt = b.evaluatedAt

NewBatchCheckResponse(r, results) ==
  LET coherent(result) == validDecisionResult(result) /\ sameSnapshot(result, results[1])
  IN constructed(firstError(<<within(Len(results) <= MaxBatchItems),
                              required(validBatchCheckRequest(r) /\ Len(results) = Len(r.items)),
                              spend(MaxAggregateOutputBytes, batchResponseCost(results)),
                              required(allOf(results, coherent)
                                       /\ selectorMatchesResult(r.selector, results[1]))>>),
                 results)

\* A step is [path, operator, outcome].
NewExplainStep(step) ==
  constructed(firstError(<<validateIdentifier(step.path), validateIdentifier(step.operator)>>), step)

NewExplainResponse(r, result, steps) ==
  LET validStep(step) == NewExplainStep(step).status = "OK"
  IN constructed(firstError(<<within(Len(steps) <= MaxExplainSteps),
                              spend(MaxAggregateOutputBytes, explainResponseCost(result, steps)),
                              NewCheckResponse(r, result).status, required(allOf(steps, validStep))>>),
                 [result |-> result, steps |-> steps])

\* Decision sinks are told of the decision and never of its subject.
NewCompletedDecisionEvent(result) ==
  constructed(firstError(<<required(result.decision \in decisions /\ result.revision > 0
                                    /\ result.evaluatedAt # 0),
                           validateIdentifier(result.reason)>>),
              [decision |-> result.decision, reason |-> result.reason, revision |-> result.revision])

-----------------------------------------------------------------------------
(* The program of a policy, as far as the engine sees it: it reads tuples,   *)
(* looks at the resource attributes, and gives a decision with a trace.      *)
(* This one lets the related subjects act, with approvals when a resource    *)
(* attribute is true.                                                        *)

dslResult(program, related, attributes) ==
  LET guarded == \E a \in attributes : a.value.kind = "boolean" /\ a.value.boolean
  IN [decision |-> IF ~ related THEN "deny" ELSE IF guarded THEN "require_approval" ELSE "allow",
      approvals |-> IF related /\ guarded THEN program.approvals ELSE <<>>,
      trace |-> <<[declaration |-> program.relation, matched |-> related]>>]

-----------------------------------------------------------------------------
(* finalizeApproval.                                                         *)

\* Mutant: the scan ends with the satisfied requirements.
RECURSIVE unsatisfiedOfShort(_, _)
unsatisfiedOfShort(requirements, satisfied) ==
  CASE requirements = <<>> \/ satisfied = <<>> -> <<>>
    [] requirements # <<>> /\ satisfied # <<>> /\ Head(satisfied) < Head(requirements) ->
         unsatisfiedOfShort(requirements, Tail(satisfied))
    [] requirements # <<>> /\ satisfied # <<>> /\ Head(satisfied) = Head(requirements) ->
         unsatisfiedOfShort(Tail(requirements), satisfied)
    [] OTHER -> <<Head(requirements)>> \o unsatisfiedOfShort(Tail(requirements), satisfied)

\* The scan over two sorted lists: the requirements that are not satisfied.
RECURSIVE unsatisfiedOf(_, _)
unsatisfiedOf(requirements, satisfied) ==
  CASE requirements = <<>> -> <<>>
    [] requirements # <<>> /\ satisfied # <<>> /\ Head(satisfied) < Head(requirements) ->
         unsatisfiedOf(requirements, Tail(satisfied))
    [] requirements # <<>> /\ satisfied # <<>> /\ Head(satisfied) = Head(requirements) ->
         unsatisfiedOf(Tail(requirements), satisfied)
    [] OTHER -> <<Head(requirements)>> \o unsatisfiedOf(Tail(requirements), satisfied)

identifiersBytes(values) == FoldLeft(LAMBDA sum, value : sum + 8 + value, 8, values)

\* The verdict is [decision, requirements, usedApproval, budget].
finalizeApproval(binding, evidence, result, answer, budget) ==
  LET verdict(decision, requirements, used, left) ==
        made([decision |-> decision, requirements |-> requirements, usedApproval |-> used, budget |-> left])
      requirements == sortedBy(result.approvals, LAMBDA a, b : a < b)
      weigh(satisfied, left) ==
        LET missing == unsatisfiedOf(requirements, satisfied)
        IN IF missing = <<>> THEN verdict("allow", <<>>, TRUE, left)
           ELSE verdict("require_approval", missing, TRUE, left)
  IN CASE result.approvals = <<>> /\ evidence # 0 -> refused("FAILED_PRECONDITION")
       [] (result.approvals # <<>> \/ evidence = 0) /\ result.decision \in {"allow", "deny"} ->
            verdict(result.decision, <<>>, FALSE, budget)
       [] result.approvals = <<>> /\ evidence = 0 /\ result.decision = "require_approval" ->
            refused("INTERNAL")
       [] OTHER -> IF evidence = 0 THEN verdict("require_approval", requirements, FALSE, budget)
                   ELSE andThen(NewApprovalVerificationRequest(binding, requirements, evidence),
                                LAMBDA requested :
                          andThen(InvokeApprovalVerifier(answer, requested), LAMBDA satisfied :
                            andThen(work(budget, Len(satisfied), identifiersBytes(satisfied)),
                                    LAMBDA left : weigh(satisfied, left))))

-----------------------------------------------------------------------------
(* Sessions.                                                                 *)

\* An error of a constructor that the engine feeds is an internal one: the binding of a
\* session, the result of an item, the response of a single check.
internal(answer) == IF answer.status = "OK" THEN answer ELSE refused("INTERNAL")

\* resolveRevision and loadRevision, as one read: the slot's activation, or the
\* revision itself when it is published.
pin(authority, selector) ==
  CASE exact(selector) /\ selector.revision \in DOMAIN authority.policies ->
         made([revision |-> selector.revision, slotGeneration |-> 0])
    [] ~ exact(selector) /\ selector.slot \in DOMAIN authority.slots -> made(authority.slots[selector.slot])
    [] OTHER -> refused("NOT_FOUND")

\* contextualDataVerifierBytes: batch.go counts the bytes of delegated facts itself.
contextualDataVerifierBytes(data) ==
  LET textBytes(sum, text) == sum + 8 + text
      tupleBytes(sum, fact) ==
        FoldLeft(textBytes, sum, fact.tuple) + 8 + 1 + IF fact.expiresAt # 0 THEN 8 + 40 ELSE 0
      attributeBytes(sum, a) ==
        FoldLeft(textBytes, FoldLeft(textBytes, sum, a.entity) + 8, a.path)
        + 9 + IF a.value.kind = "string" THEN a.value.text ELSE 0
  IN FoldLeft(attributeBytes, FoldLeft(tupleBytes, 2 * 8, data.tuples), data.attributes)

\* The facts of the request, and those of the delegation when there is one.
effectiveContext(call, authority, schema, binding, budget) ==
  LET effective(data, used, left) ==
        made([contextual |-> data, usedDelegation |-> used, verifier |-> left])
  IN IF ValidateContextualTuples(schema, call.request.contextual) # "OK" THEN refused("INVALID_ARGUMENT")
     ELSE andThen(NormalizeContextualData(schema, authority.snapshot, call.request.contextual), LAMBDA data :
       IF call.request.delegation = 0 THEN effective(data, FALSE, budget)
       ELSE andThen(NewDelegationVerificationRequest(binding, call.request.delegation), LAMBDA requested :
         andThen(InvokeDelegationVerifier(call.delegation), LAMBDA delegated :
           andThen(work(budget, contextualWorkItems(delegated), contextualDataVerifierBytes(delegated)),
                   LAMBDA left :
             IF ValidateContextualTuples(schema, delegated) # "OK" THEN refused("INVALID_ARGUMENT")
             ELSE andThen(NewContextualData(data.tuples \o delegated.tuples,
                                            data.attributes \o delegated.attributes), LAMBDA merged :
               andThen(NormalizeContextualData(schema, authority.snapshot, merged),
                       LAMBDA kept : effective(kept, TRUE, left)))))))

openEvaluationSession(call, authority, fingerprint, budget) ==
  LET r == call.request
      bindingOf(pinned) ==
        NewEvidenceBinding([caller |-> callerBinding(call.caller), namespace |-> r.namespace,
                            selector |-> r.selector, revision |-> pinned.revision,
                            slotGeneration |-> pinned.slotGeneration,
                            dataGeneration |-> authority.generation, evaluatedAt |-> call.now,
                            fingerprint |-> fingerprint])
      opened(binding, context) ==
        made([binding |-> binding, policy |-> authority.policies[binding.revision],
              contextual |-> context.contextual,
              usedDelegation |-> context.usedDelegation,
              budgets |-> [verifier |-> context.verifier, graph |-> Nil,
                           attributes |-> newWork(MaxAggregateWorkItems, MaxAggregateInputBytes)]])
  IN andThen(pin(authority, r.selector), LAMBDA pinned :
       andThen(internal(bindingOf(pinned)), LAMBDA binding :
         andThen(effectiveContext(call, authority, authority.policies[binding.revision].schema,
                                  binding, budget),
                 LAMBDA context : opened(binding, context))))

-----------------------------------------------------------------------------
(* One item.                                                                 *)

\* session.program.Check, with the reader of the session and the graph budget.  The
\* program refuses a resource whose type its policy does not declare.
evaluateProgram(authority, session, item, resolved) ==
  LET related(subjects) == (item.subject \o <<0>>) \in Range(subjects)
      result(subjects) == dslResult(session.policy.program, related(subjects), resolved.attributes)
      counted(dsl, graph) ==
        andThen(work(graph, Len(dsl.trace), 0),
                LAMBDA left : made([dsl |-> dsl,
                                    budgets |-> [session.budgets EXCEPT !.attributes = resolved.budget,
                                                                        !.graph = left]]))
  IN IF ~ declared(session.policy.schema, item.resource[1]) THEN refused("FAILED_PRECONDITION")
     ELSE andThen(ReadTuples(authority.snapshot, session.contextual,
                             item.resource \o <<session.policy.program.relation>>), LAMBDA subjects :
            andThen(work(session.budgets.graph, 1 + Len(subjects), 0),
                    LAMBDA graph : counted(result(subjects), graph)))

\* evaluateSessionItem gives [result, digest, budgets, trace].
evaluateSessionItem(call, authority, session, item) ==
  LET itemBinding ==
        [session.binding EXCEPT !.fingerprint =
           approvalItemFingerprint(item, session.contextual, session.usedDelegation)]
      input(verdict) ==
        [decision |-> verdict.decision, id |-> 64, reason |-> 8, revision |-> itemBinding.revision,
         slotGeneration |-> itemBinding.slotGeneration, dataGeneration |-> itemBinding.dataGeneration,
         evaluatedAt |-> itemBinding.evaluatedAt, requirements |-> verdict.requirements,
         bound |-> verdict.decision = "require_approval",
         digest |-> IF verdict.decision = "require_approval" THEN AuthorizationDigest(itemBinding) ELSE <<>>,
         usedContextual |-> ~ contextualEmpty(session.contextual),
         usedApproval |-> verdict.usedApproval, usedDelegation |-> session.usedDelegation]
      complete(verdict, evaluated) ==
        andThen(internal(NewDecisionResult(input(verdict))), LAMBDA result :
          made([result |-> result, trace |-> evaluated.dsl.trace,
                budgets |-> [evaluated.budgets EXCEPT !.verifier = verdict.budget]]))
  IN andThen(resolveResourceAttributes(session.policy.schema, authority.snapshot, session.contextual,
                                       session.budgets.attributes, item.resource, item.action),
             LAMBDA resolved :
       andThen(evaluateProgram(authority, session, item, resolved), LAMBDA evaluated :
         andThen(finalizeApproval(itemBinding, call.request.approval, evaluated.dsl, call.approval,
                                  session.budgets.verifier),
                 LAMBDA verdict : complete(verdict, evaluated))))

-----------------------------------------------------------------------------
(* The three operations.                                                     *)

authorized(call, capabilities) ==
  constructed(AuthorizeCaller(call.authorizer, call.caller, call.request.namespace, capabilities),
              call.request)

Check(call, authority) ==
  andThen(NewCheckRequest(call.request), LAMBDA r :
    andThen(authorized(call, checkCapabilities(r)), LAMBDA granted :
      andThen(openEvaluationSession(call, authority, checkFingerprint(r), Nil), LAMBDA session :
        andThen(evaluateSessionItem(call, authority, session, call.request.item), LAMBDA item :
          internal(NewCheckResponse(call.request, item.result))))))

verifierBudget == newWork(MaxVerifierOutputItems, MaxVerifierOutputBytes)

\* The items in turn; every one of them uses what the earlier ones left of the budgets.
BatchCheck(call, authority) ==
  LET step(state, item) ==
        andThen(evaluateSessionItem(call, authority, state.session, item),
                LAMBDA one_ : made([results |-> Append(state.results, one_.result),
                                    session |-> [state.session EXCEPT !.budgets = one_.budgets]]))
      begin(session) ==
        made([results |-> <<>>,
              session |-> [session EXCEPT !.budgets.graph = newWork(MaxAggregateWorkItems, 0)]])
  IN andThen(NewBatchCheckRequest(call.request), LAMBDA r :
       andThen(authorized(call, checkCapabilities(r)), LAMBDA granted :
         andThen(openEvaluationSession(call, authority, batchFingerprint(r), verifierBudget), LAMBDA session :
           andThen(FoldLeft(LAMBDA done, item : andThen(done, LAMBDA state : step(state, item)),
                            begin(session), call.request.items),
                   LAMBDA state : NewBatchCheckResponse(call.request, state.results)))))

\* Only what the schema declares is named in a step.
redactedExplainSteps(schema, type, trace) ==
  LET step(item) == [path |-> type + 1 + item.declaration, operator |-> 8, outcome |-> item.matched]
      steps == [i \in DOMAIN trace |-> step(trace[i])]
      sound(i) == trace[i].declaration \in DOMAIN schema.entities[type] /\ NewExplainStep(steps[i]).status = "OK"
  IN CASE Len(trace) > MaxExplainSteps -> refused("RESOURCE_EXHAUSTED")
       [] OTHER -> IF \A i \in DOMAIN trace : sound(i) THEN made(steps) ELSE refused("INTERNAL")

Explain(call, authority) ==
  LET r == call.request
  IN andThen(NewCheckRequest(r), LAMBDA validated :
       andThen(authorized(call, explainCapabilities(validated)), LAMBDA granted :
         andThen(openEvaluationSession(call, authority, checkFingerprint(validated), verifierBudget),
                 LAMBDA session :
           andThen(evaluateSessionItem(call, authority, session, r.item), LAMBDA item :
             andThen(redactedExplainSteps(session.policy.schema, r.item.resource[1], item.trace),
                     LAMBDA steps : NewExplainResponse(r, item.result, steps))))))

=============================================================================
