------------------------------- MODULE Pages -------------------------------
(***************************************************************************)
(* policy.go and events.go: revisions, activations, state events, the      *)
(* pages that list them and the status of the components.  A time is a     *)
(* number, 0 the zero time; a revision identifier is as in Costs.          *)
(***************************************************************************)
EXTENDS Facts

CONSTANTS
  MaxPolicySourceBytes,
  MaxPageRequestItems,
  MaxPageResponseItems,
  MaxEventPageItems,
  MaxEventPageBytes,
  MaxStatusComponents

-----------------------------------------------------------------------------
(* Revisions: [namespace, id, publishedAt].                                  *)

NewRevisionMetadata(revision) ==
  constructed(firstError(<<spend(MaxAggregateOutputBytes, revisionMetadataCost(revision)),
                           validateNamespace(revision.namespace),
                           required(revision.id > 0 /\ revision.publishedAt # 0)>>),
              revision)

validRevisionMetadata(revision) == NewRevisionMetadata(revision).status = "OK"

\* The source is told by its length.
NewPublishRequest(namespace, name, source) ==
  constructed(firstError(<<required(source # 0), within(source <= MaxPolicySourceBytes),
                           spend(MaxAggregateInputBytes, publishRequestCost(namespace, name, source)),
                           validateNamespace(namespace), validateText(name, MaxIdentifierBytes, FALSE)>>),
              [namespace |-> namespace, name |-> name, source |-> source])

-----------------------------------------------------------------------------
(* Slots: [namespace, slot, revision, generation, activatedAt].              *)

NewActivation(activation) ==
  constructed(firstError(<<spend(MaxAggregateOutputBytes, activationCost(activation)),
                           validateNamespace(activation.namespace), validateIdentifier(activation.slot),
                           required(activation.revision > 0 /\ activation.generation # 0
                                    /\ activation.activatedAt # 0)>>),
              activation)

validActivation(activation) == NewActivation(activation).status = "OK"

-----------------------------------------------------------------------------
(* State events: [namespace, cursor, kind, revision, slot, slotGeneration,   *)
(* dataGeneration, occurredAt]; the kinds are numbered as in the code.       *)

eventShape(event) ==
  CASE event.kind = 1 -> /\ event.revision > 0 /\ event.slot = 0
                         /\ event.slotGeneration = 0 /\ event.dataGeneration = 0
    [] event.kind = 2 -> /\ event.revision > 0 /\ validIdentifier(event.slot)
                         /\ event.slotGeneration > 0 /\ event.dataGeneration = 0
    [] event.kind = 3 -> /\ event.revision = 0 /\ event.slot = 0
                         /\ event.slotGeneration = 0 /\ event.dataGeneration > 0
    [] OTHER -> FALSE

NewStateEvent(event) ==
  constructed(firstError(<<spend(MaxEventPageBytes, stateEventCost(event)),
                           required(event.occurredAt # 0), validateNamespace(event.namespace),
                           validateIdentifier(event.cursor), required(eventShape(event))>>),
              event)

validStateEvent(event) == NewStateEvent(event).status = "OK"

-----------------------------------------------------------------------------
(* Pages.  A request is [namespace, slot, cursor, limit], without the slot for *)
(* revisions and events.                                                       *)

NewListRequest(r) ==
  firstError(<<required(r.limit > 0), validateNamespace(r.namespace), validateOptionalIdentifier(r.cursor),
               within(r.limit <= MaxPageRequestItems)>>)

NewListActivationHistoryRequest(r) ==
  firstError(<<required(r.limit > 0), validateNamespace(r.namespace), validateIdentifier(r.slot),
               validateOptionalIdentifier(r.cursor), within(r.limit <= MaxPageRequestItems)>>)

\* What the constructors of the three pages have in common.
newPage(status, r, values, next, maximum, maxBytes, cost, inScope) ==
  constructed(firstError(<<required(status = "OK"),
                           within(Len(values) <= r.limit /\ Len(values) <= maximum),
                           spend(maxBytes, cost), validateOptionalIdentifier(next),
                           required(inScope)>>),
              [request |-> r, values |-> values, next |-> next])

distinct(values, Key(_)) == \A i, j \in DOMAIN values : Key(values[i]) = Key(values[j]) => i = j

validRevisionPage(r, revisions) ==
  LET inScope(revision) == validRevisionMetadata(revision) /\ revision.namespace = r.namespace
  IN /\ allOf(revisions, inScope)
     /\ distinct(revisions, LAMBDA revision : revision.id)
     /\ ascending(revisions, LAMBDA a, b : before(<<a.publishedAt, a.id>>, <<b.publishedAt, b.id>>))

NewListRevisionsResponse(r, revisions, next) ==
  newPage(NewListRequest(r), r, revisions, next, MaxPageResponseItems, MaxAggregateOutputBytes,
          revisionPageCost(revisions, next), validRevisionPage(r, revisions))

validActivationHistoryPage(r, activations) ==
  LET inScope(activation) ==
        validActivation(activation) /\ activation.namespace = r.namespace /\ activation.slot = r.slot
  IN /\ allOf(activations, inScope)
     /\ ascending(activations, LAMBDA a, b : a.generation < b.generation)

NewListActivationHistoryResponse(r, activations, next) ==
  newPage(NewListActivationHistoryRequest(r), r, activations, next, MaxPageResponseItems,
          MaxAggregateOutputBytes, activationHistoryPageCost(activations, next),
          validActivationHistoryPage(r, activations))

validEventPage(r, events) ==
  LET inScope(event) == validStateEvent(event) /\ event.namespace = r.namespace
  IN allOf(events, inScope) /\ distinct(events, LAMBDA event : event.cursor)

smaller(a, b) == IF a < b THEN a ELSE b

NewListEventsResponse(r, events, next) ==
  newPage(NewListRequest(r), r, events, next, smaller(MaxEventPageItems, MaxPageResponseItems),
          MaxEventPageBytes, eventPageCost(events, next), validEventPage(r, events))

-----------------------------------------------------------------------------
(* Status.  A component is [name, state, reason]; the states are 1, 2 and 3. *)

NewComponentStatus(component) ==
  constructed(firstError(<<spend(MaxAggregateOutputBytes, componentStatusCost(component)),
                           required(component.state \in 1..3), validateIdentifier(component.name),
                           validateIdentifier(component.reason)>>),
              component)

validComponentStatus(component) == NewComponentStatus(component).status = "OK"

NewStatusResponse(components) ==
  constructed(firstError(<<within(Len(components) <= MaxStatusComponents),
                           spend(MaxAggregateOutputBytes, statusResponseCost(components)),
                           required(allOf(components, validComponentStatus)),
                           required(distinct(components, LAMBDA component : component.name))>>),
              sortedBy(components, LAMBDA a, b : a.name < b.name))

validStatusResponse(components) ==
  /\ Len(components) <= MaxStatusComponents
  /\ spend(MaxAggregateOutputBytes, statusResponseCost(components)) = "OK"
  /\ allOf(components, validComponentStatus)
  /\ ascending(components, LAMBDA a, b : a.name < b.name)

=============================================================================
