------------------------------- MODULE Facts -------------------------------
(***************************************************************************)
(* data.go: relationship tuples, attributes, contextual data and data      *)
(* writes.  A constructor takes lists in any order and with repeats and    *)
(* gives a canonical value; the valid of a value is what the engine asks   *)
(* again of one that reached it.                                           *)
(***************************************************************************)
EXTENDS Costs

CONSTANTS
  MaxContextualTuples,
  MaxContextualAttributes,
  MaxMutationItems

-----------------------------------------------------------------------------
(* Elements.                                                                 *)

validateEntityRef(entity) == validateTexts(entity)

\* The last field of a tuple, the relation of its subject, may be empty.
validateDSLRelationship(tuple) ==
  firstError(<<validateTexts(Front(tuple)), validateOptionalIdentifier(Last(tuple))>>)

\* RelationshipTuple.valid; an expiry of 0 is none.
validTuple(fact) == validateDSLRelationship(fact.tuple) = "OK"

validateAttributePath(path) ==
  firstError(<<required(path # <<>>), within(Len(path) <= MaxAggregateWorkItems),
               spend(MaxAggregateInputBytes, attributePathCost(path))>>
             \o [i \in DOMAIN path |-> firstError(<<validateIdentifier(path[i]),
                                                   required(validDSLIdentifier(path[i]))>>)])

\* Value.valid: the fields of the other kinds are zero.
validValue(value) ==
  CASE value.kind = "string" ->
         value.integer = 0 /\ ~ value.boolean
         /\ validateText(value.text, MaxStringValueBytes, TRUE) = "OK"
    [] value.kind = "integer" -> value.text = 0 /\ ~ value.boolean
    [] value.kind = "boolean" -> value.text = 0 /\ value.integer = 0
    [] value.kind = "null" -> value.text = 0 /\ value.integer = 0 /\ ~ value.boolean
    [] OTHER -> FALSE

validAttributeKey(key) ==
  validateEntityRef(key.entity) = "OK" /\ validateAttributePath(key.path) = "OK"

validAttribute(attribute) == validAttributeKey(attribute) /\ validValue(attribute.value)

NewAttributeKeyPath(entity, path) ==
  constructed(firstError(<<validateEntityRef(entity), validateAttributePath(path),
                           spend(MaxAggregateInputBytes,
                                 attributeKeyCost([entity |-> entity, path |-> path]))>>),
              [entity |-> entity, path |-> path])

NewAttributePath(entity, path, value) ==
  LET attribute == [entity |-> entity, path |-> path, value |-> value]
  IN constructed(firstError(<<validateEntityRef(entity), validateAttributePath(path),
                              required(validValue(value)),
                              spend(MaxAggregateInputBytes, attributeCost(attribute))>>),
                 attribute)

-----------------------------------------------------------------------------
(* Orders and conflicts.                                                     *)

compareTuple(a, b) == before(a, b)

\* No expiry comes before any expiry.
relationshipTupleBefore(a, b) == before(Append(a.tuple, a.expiresAt), Append(b.tuple, b.expiresAt))

attributeKeyBefore(a, b) ==
  before(a.entity, b.entity) \/ (a.entity = b.entity /\ before(a.path, b.path))

kindRank(kind) == CASE kind = "string" -> 1 [] kind = "integer" -> 2
                    [] kind = "boolean" -> 3 [] kind = "null" -> 4 [] OTHER -> 0

valueBefore(a, b) ==
  LET fields(v) == <<kindRank(v.kind), v.text, v.integer, IF v.boolean THEN 1 ELSE 0>>
  IN before(fields(a), fields(b))

sameAttributeKey(a, b) == a.entity = b.entity /\ a.path = b.path

attributeBefore(a, b) ==
  attributeKeyBefore(a, b) \/ (sameAttributeKey(a, b) /\ valueBefore(a.value, b.value))

attributePathPrefixConflict(a, b) ==
  /\ a.entity = b.entity
  /\ IsStrictPrefix(a.path, b.path) \/ IsStrictPrefix(b.path, a.path)

\* The scan of the canonical* functions over a sorted list: an element equal to the last
\* one kept is dropped, one that clashes with it ends the scan.
canonical(values, Less(_, _), Clash(_, _)) ==
  LET keep(kept, value) ==
        IF kept = Nil \/ (kept # <<>> /\ Clash(Last(kept), value)) THEN Nil
        ELSE IF kept # <<>> /\ Last(kept) = value THEN kept ELSE Append(kept, value)
  IN FoldLeft(keep, <<>>, sortedBy(values, Less))

tuplesClash(a, b) == a.tuple = b.tuple /\ a # b

\* Mutant: only equal paths are compared.
attributesClashOnKey(a, b) == sameAttributeKey(a, b) /\ a # b

attributesClash(a, b) ==
  (sameAttributeKey(a, b) /\ a # b) \/ attributePathPrefixConflict(a, b)

neverClash(a, b) == FALSE

canonicalRelationshipTuples(values) == canonical(values, relationshipTupleBefore, tuplesClash)

canonicalAttributes(values) == canonical(values, attributeBefore, attributesClash)

canonicalTupleKeys(values) == canonical(values, compareTuple, neverClash)

canonicalAttributeKeys(values) ==
  canonical(values, attributeKeyBefore, attributePathPrefixConflict)

\* The merge of two sorted lists, which stops at the first pair that clashes.
RECURSIVE tupleWriteDeleteConflict(_, _)
tupleWriteDeleteConflict(writes, deletes) ==
  /\ writes # <<>> /\ deletes # <<>>
  /\ \/ Head(writes).tuple = Head(deletes)
     \/ IF compareTuple(Head(writes).tuple, Head(deletes))
          THEN tupleWriteDeleteConflict(Tail(writes), deletes)
          ELSE tupleWriteDeleteConflict(writes, Tail(deletes))

RECURSIVE attributeWriteDeleteConflict(_, _)
attributeWriteDeleteConflict(writes, deletes) ==
  /\ writes # <<>> /\ deletes # <<>>
  /\ \/ sameAttributeKey(Head(writes), Head(deletes))
     \/ attributePathPrefixConflict(Head(writes), Head(deletes))
     \/ IF attributeKeyBefore(Head(writes), Head(deletes))
          THEN attributeWriteDeleteConflict(Tail(writes), deletes)
          ELSE attributeWriteDeleteConflict(writes, Tail(deletes))

-----------------------------------------------------------------------------
(* Contextual data.                                                          *)

allOf(values, Valid(_)) == \A i \in DOMAIN values : Valid(values[i])

NewContextualData(tuples, attributes) ==
  LET raw == [tuples |-> tuples, attributes |-> attributes]
      kept == [tuples |-> canonicalRelationshipTuples(tuples),
               attributes |-> canonicalAttributes(attributes)]
  IN constructed(
       firstError(<<within(Len(tuples) <= MaxContextualTuples
                           /\ Len(attributes) <= MaxContextualAttributes),
                    spend(MaxAggregateInputBytes, contextualDataCost(raw)),
                    required(allOf(tuples, validTuple)), required(allOf(attributes, validAttribute)),
                    required(kept.tuples # Nil), required(kept.attributes # Nil)>>),
       kept)

\* ContextualData.valid: neighbours differ in their key and are in order.
validContextualData(data) ==
  /\ Len(data.tuples) <= MaxContextualTuples /\ Len(data.attributes) <= MaxContextualAttributes
  /\ spend(MaxAggregateInputBytes, contextualDataCost(data)) = "OK"
  /\ allOf(data.tuples, validTuple) /\ allOf(data.attributes, validAttribute)
  /\ ascending([i \in DOMAIN data.tuples |-> data.tuples[i].tuple], compareTuple)
  /\ ascending(data.attributes, attributeKeyBefore)

contextualEmpty(data) == data.tuples = <<>> /\ data.attributes = <<>>

contextualWorkItems(data) == Len(data.tuples) + Len(data.attributes)

-----------------------------------------------------------------------------
(* Data writes.                                                              *)

validTupleKey(tuple) == validateDSLRelationship(tuple) = "OK"

mutationCost(r) ==
  [i \in 1..4 |-> <<1, Len(<<r.tupleWrites, r.tupleDeletes, r.attributeWrites, r.attributeDeletes>>[i])>>]

noMutations(r) == \A i \in 1..4 : mutationCost(r)[i][2] = 0

NewWriteDataRequest(r) ==
  LET kept == [r EXCEPT !.tupleWrites = canonicalRelationshipTuples(@),
                        !.tupleDeletes = canonicalTupleKeys(@),
                        !.attributeWrites = canonicalAttributes(@),
                        !.attributeDeletes = canonicalAttributeKeys(@)]
      canonicalized == {kept.tupleWrites, kept.attributeWrites, kept.attributeDeletes}
  IN constructed(
       firstError(<<spend(MaxMutationItems, mutationCost(r)),
                    spend(MaxAggregateInputBytes, writeDataRequestCost(r)),
                    required(r.revision > 0 /\ ~ noMutations(r)),
                    validateNamespace(r.namespace), validateIdentifier(r.key),
                    required(allOf(r.tupleWrites, validTuple)),
                    required(allOf(r.tupleDeletes, validTupleKey)),
                    required(allOf(r.attributeWrites, validAttribute)),
                    required(allOf(r.attributeDeletes, validAttributeKey)),
                    required(Nil \notin canonicalized)>>
                  \o IF Nil \in canonicalized THEN <<>>
                     ELSE <<required(~ tupleWriteDeleteConflict(kept.tupleWrites, kept.tupleDeletes)),
                            required(~ attributeWriteDeleteConflict(kept.attributeWrites,
                                                                    kept.attributeDeletes))>>),
       kept)

validCanonicalAttributeKeys(values) ==
  /\ ascending(values, attributeKeyBefore)
  /\ \A i \in 2..Len(values) : ~ attributePathPrefixConflict(values[i - 1], values[i])

\* WriteDataRequest.valid.
validWriteDataRequest(r) ==
  /\ spend(MaxMutationItems, mutationCost(r)) = "OK" /\ ~ noMutations(r)
  /\ validNamespace(r.namespace) /\ r.revision > 0 /\ validIdentifier(r.key)
  /\ spend(MaxAggregateInputBytes, writeDataRequestCost(r)) = "OK"
  /\ allOf(r.tupleWrites, validTuple) /\ allOf(r.tupleDeletes, validTupleKey)
  /\ ascending([i \in DOMAIN r.tupleWrites |-> r.tupleWrites[i].tuple], compareTuple)
  /\ ascending(r.tupleDeletes, compareTuple)
  /\ allOf(r.attributeWrites, validAttribute) /\ allOf(r.attributeDeletes, validAttributeKey)
  /\ validCanonicalAttributeKeys(r.attributeWrites) /\ validCanonicalAttributeKeys(r.attributeDeletes)
  /\ ~ tupleWriteDeleteConflict(r.tupleWrites, r.tupleDeletes)
  /\ ~ attributeWriteDeleteConflict(r.attributeWrites, r.attributeDeletes)

=============================================================================
