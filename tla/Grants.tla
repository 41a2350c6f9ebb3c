------------------------------- MODULE Grants -------------------------------
(***************************************************************************)
(* caller.go: callers, the capabilities an operation requires, the grants  *)
(* an authorizer answers with and what the engine makes of the answer.     *)
(* A capability is its rank (capabilityRank), -1 when it is none of them.  *)
(* Of two texts the shorter one is a prefix of the other.                  *)
(***************************************************************************)
EXTENDS Facts

CONSTANTS
  MaxCallerAttributes,
  MaxCallerGrants,
  MaxCapabilitiesPerGrant,
  MaxAuthorizerOutputBytes

PolicyRead == 0
PolicyPublish == 1
PolicyActivate == 2
AuthorizationCheck == 3
AuthorizationContextualData == 4
AuthorizationExplicitRevision == 5
AuthorizationExplain == 6
DataWrite == 7
EventsRead == 8
SystemStatus == 9

validCapability(rank) == rank >= 0

canonicalCapabilities(capabilities) == canonicalIdentifiers(capabilities)

-----------------------------------------------------------------------------
(* Callers.  A caller is [id, attributes].                                   *)

callerTexts(caller) ==
  firstError(<<validateIdentifier(caller.id)>>
             \o [i \in DOMAIN caller.attributes |->
                   firstError(<<validateIdentifier(caller.attributes[i].name),
                                validateOptionalIdentifier(caller.attributes[i].value)>>)])

NewCaller(caller) ==
  constructed(firstError(<<within(Len(caller.attributes) <= MaxCallerAttributes),
                           spend(MaxAggregateInputBytes, callerCost(caller)), callerTexts(caller)>>),
              caller)

validCaller(caller) == NewCaller(caller).status = "OK"

-----------------------------------------------------------------------------
(* Grants.                                                                   *)

NewGrant(pattern, capabilities) ==
  LET raw == [pattern |-> pattern, capabilities |-> capabilities]
  IN constructed(firstError(<<required(capabilities # <<>>),
                              within(Len(capabilities) <= MaxCapabilitiesPerGrant),
                              spend(MaxAggregateInputBytes, grantCost(raw)),
                              validateNamespacePattern(pattern),
                              required(allOf(capabilities, validCapability))>>),
                 [raw EXCEPT !.capabilities = canonicalCapabilities(@)])

MatchesNamespace(grant, namespace) ==
  /\ validNamespace(namespace) /\ validateNamespacePattern(grant.pattern) = "OK"
  /\ IF grant.pattern.wildcard THEN grant.pattern.text <= namespace ELSE grant.pattern.text = namespace

validGrant(grant) ==
  /\ validateNamespacePattern(grant.pattern) = "OK"
  /\ Len(grant.capabilities) \in 1..MaxCapabilitiesPerGrant
  /\ allOf(grant.capabilities, validCapability)
  /\ ascending(grant.capabilities, LAMBDA a, b : a < b)
  /\ spend(MaxAggregateInputBytes, grantCost(grant)) = "OK"

\* Exact patterns come before wildcards.
grantLess(a, b) ==
  IF a.pattern.wildcard # b.pattern.wildcard THEN ~ a.pattern.wildcard
  ELSE a.pattern.text < b.pattern.text

NewCallerAuthorization(grants) ==
  LET distinct == \A i, j \in DOMAIN grants : grants[i].pattern = grants[j].pattern => i = j
      fits(grant) == Len(grant.capabilities) <= MaxCapabilitiesPerGrant
  IN constructed(firstError(<<required(grants # <<>>), within(Len(grants) <= MaxCallerGrants),
                              spend(MaxAuthorizerOutputBytes, callerAuthorizationCost(grants)),
                              within(allOf(grants, fits)), required(allOf(grants, validGrant)),
                              required(distinct)>>),
                 sortedBy(grants, grantLess))

validCallerAuthorization(grants) ==
  /\ Len(grants) \in 1..MaxCallerGrants
  /\ spend(MaxAuthorizerOutputBytes, callerAuthorizationCost(grants)) = "OK"
  /\ allOf(grants, validGrant) /\ ascending(grants, grantLess)

-----------------------------------------------------------------------------
(* AuthorizeCaller.  The answer is [status, value], the value a list of grants: *)
(* what the authorizer gave, or its error.  The default one refuses everyone.   *)

DefaultCallerAuthorizer == refused("PERMISSION_DENIED")

\* The capabilities of the grants that cover the namespace.
grantedIn(grants, namespace) ==
  UNION {Range(grants[i].capabilities) : i \in {j \in DOMAIN grants : MatchesNamespace(grants[j], namespace)}}

AuthorizeCaller(answer, caller, namespace, capabilities) ==
  LET requested == Range(canonicalCapabilities(capabilities))
      granted == grantedIn(answer.value, namespace)
      malformed == firstError(<<required(validCaller(caller) /\ validNamespace(namespace) /\ capabilities # <<>>),
                                within(Len(capabilities) <= MaxCapabilitiesPerGrant),
                                required(allOf(capabilities, validCapability))>>)
  IN CASE malformed # "OK" -> malformed
       [] malformed = "OK" /\ answer.status # "OK" -> answer.status
       [] OTHER -> IF ~ validCallerAuthorization(answer.value) \/ ~ granted \subseteq requested
                     THEN "INTERNAL"
                     ELSE IF granted # requested THEN "PERMISSION_DENIED" ELSE "OK"

\* Selector.ExactRevision.
exact(selector) == selector.revision # 0 /\ selector.slot = 0

\* RequiredCapabilities of a check or a batch, and of an explanation.
checkCapabilities(r) ==
  canonicalCapabilities(
    <<AuthorizationCheck>>
    \o (IF contextualEmpty(r.contextual) THEN <<>> ELSE <<AuthorizationContextualData>>)
    \o (IF exact(r.selector) THEN <<AuthorizationExplicitRevision>> ELSE <<>>))

explainCapabilities(r) == canonicalCapabilities(checkCapabilities(r) \o <<AuthorizationExplain>>)

\* RequiredCapabilities of the other operations.
requiredCapability(operation) ==
  CASE operation = "publish" -> PolicyPublish
    [] operation \in {"get_revision", "list_revisions", "resolve", "list_history"} -> PolicyRead
    [] operation = "activate" -> PolicyActivate
    [] operation \in {"get_generation", "write"} -> DataWrite
    [] operation = "list_events" -> EventsRead
    [] operation = "status" -> SystemStatus

=============================================================================
