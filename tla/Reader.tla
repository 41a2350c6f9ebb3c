------------------------------- MODULE Reader -------------------------------
(***************************************************************************)
(* internal/domain (the data schema of a policy), store/data.go (results   *)
(* of snapshot queries), internal/evaluator and app/resource_attributes.go *)
(* (what the policy evaluator reads): persistent facts of one snapshot,    *)
(* merged with the contextual facts of one request.                        *)
(*                                                                         *)
(* A schema is [entities, guards]: per entity type the targets of its      *)
(* relations, and guards with the conditions of their rules.  A snapshot   *)
(* is [tuples, attributes, readAt] with the trees of Indexes.              *)
(***************************************************************************)
EXTENDS Indexes, Grants

-----------------------------------------------------------------------------
(* The data schema.                                                          *)

\* The resource fields a condition compares, without the leading "resource".
RECURSIVE collectResourcePaths(_)
collectResourcePaths(condition) ==
  IF condition.kind = "logical"
    THEN collectResourcePaths(condition.left) \cup collectResourcePaths(condition.right)
    ELSE IF condition.root = "resource" /\ condition.path # <<>> THEN {condition.path} ELSE {}

guardPaths(guard) == UNION {collectResourcePaths(guard.rules[i]) : i \in DOMAIN guard.rules}

\* attributePathTrie: every path that some guard of the entity reads.
attributePaths(schema, type) ==
  UNION {guardPaths(schema.guards[i]) : i \in {j \in DOMAIN schema.guards : schema.guards[j].entity = type}}

\* ResourcePaths: the paths the guard of one action reads, in order.
ResourcePaths(schema, type, action) ==
  LET paths == UNION {guardPaths(schema.guards[i]) :
                 i \in {j \in DOMAIN schema.guards :
                          schema.guards[j].entity = type /\ schema.guards[j].action = action}}
  IN [i \in 1..Cardinality(paths) |->
        CHOOSE path \in paths : Cardinality({p \in paths : before(p, path)}) = i - 1]

declared(schema, type) == type \in DOMAIN schema.entities

validAttributePath(schema, key) ==
  declared(schema, key.entity[1]) /\ key.path \in attributePaths(schema, key.entity[1])

\* The relation of the resource admits subjects of this type and relation.
validSchemaTuple(schema, tuple) ==
  /\ declared(schema, tuple[1])
  /\ tuple[3] \in DOMAIN schema.entities[tuple[1]]
  /\ <<tuple[4], tuple[6]>> \in schema.entities[tuple[1]][tuple[3]]

ValidateTuplePaths(schema, r) ==
  LET known(tuple) == validSchemaTuple(schema, tuple)
      knownFact(fact) == known(fact.tuple)
  IN required(allOf(r.tupleWrites, knownFact) /\ allOf(r.tupleDeletes, known))

ValidateAttributePaths(schema, r) ==
  LET known(key) == validAttributePath(schema, key)
  IN required(allOf(r.attributeWrites, known) /\ allOf(r.attributeDeletes, known))

ValidateContextualTuples(schema, data) ==
  required(\A i \in DOMAIN data.tuples : validSchemaTuple(schema, data.tuples[i].tuple))

-----------------------------------------------------------------------------
(* Results of snapshot queries.                                              *)

compareSubjects(a, b) == before(a, b)

tupleResultCost(bucket, subjects) ==
  textsCost(bucket) \o fixedFieldCost(uint64Bytes) \o one(collectionMetadataBytes)
  \o each(subjects, textsCost)

NewTupleQuery(bucket, limit) ==
  firstError(<<required(limit > 0), within(limit <= MaxAggregateWorkItems), validateTexts(bucket)>>)

\* All the subjects, ordered, or an error; an adapter's answer is never cut.
NewTupleResult(bucket, limit, subjects) ==
  constructed(firstError(<<NewTupleQuery(bucket, limit), within(Len(subjects) <= limit),
                           spend(MaxAggregateOutputBytes, tupleResultCost(bucket, subjects))>>),
              withoutRepeats(sortedBy(subjects, compareSubjects)))

attributeResultCost(key, value) ==
  attributeKeyCost(key) \o fixedFieldCost(boolBytes)
  \o IF value = Nil THEN one(valueMetadataBytes) ELSE valueCost(value)

\* A value, or Nil when the path holds none.
NewAttributeResult(key, value) ==
  constructed(firstError(<<NewAttributeKeyPath(key.entity, key.path).status,
                           IF value = Nil \/ validValue(value) THEN "OK" ELSE "INTEGRITY",
                           spend(MaxAggregateOutputBytes, attributeResultCost(key, value))>>),
              value)

snapshotTuples(snapshot, bucket, limit) ==
  andThen(QueryTuples(snapshot.tuples, bucket, limit, snapshot.readAt),
          LAMBDA found : NewTupleResult(bucket, limit, found))

snapshotAttribute(snapshot, entity, path) ==
  NewAttributeResult([entity |-> entity, path |-> path], attributeGet(snapshot.attributes, entity, path))

-----------------------------------------------------------------------------
(* NormalizeContextualData.                                                  *)

\* An attribute of the request against the snapshot: nothing may be above or below it, and
\* at its path only the same value.
contextualAttribute(schema, snapshot, attribute) ==
  LET path == attribute.path
      compared(length) ==
        LET found == snapshotAttribute(snapshot, attribute.entity, SubSeq(path, 1, length))
        IN IF found.status # "OK" THEN found.status
           ELSE required(found.value \in {Nil} \cup IF length = Len(path) THEN {attribute.value} ELSE {})
  IN firstError(<<required(validAttributePath(schema, attribute))>>
                \o [length \in DOMAIN path |-> compared(length)]
                \o <<required(~ attributeHasDescendant(snapshot.attributes, attribute.entity, path))>>)

\* Facts the snapshot holds already are dropped; an override is an error.
NormalizeContextualData(schema, snapshot, data) ==
  LET compared(validated) ==
        firstError([i \in DOMAIN validated.attributes |->
                      contextualAttribute(schema, snapshot, validated.attributes[i])])
      additive(attribute) == snapshotAttribute(snapshot, attribute.entity, attribute.path).value = Nil
  IN andThen(NewContextualData(data.tuples, data.attributes), LAMBDA validated :
       andThen(constructed(compared(validated), validated), LAMBDA sound :
         NewContextualData(sound.tuples, SelectSeq(sound.attributes, additive))))

-----------------------------------------------------------------------------
(* The reader of the policy evaluator.                                       *)

\* Two sorted lists merged; a subject in both is kept once.
RECURSIVE canonicalSubjects(_, _)
canonicalSubjects(contextual, persistent) ==
  CASE contextual = <<>> -> persistent
    [] contextual # <<>> /\ persistent = <<>> -> contextual
    [] OTHER ->
         LET c == Head(contextual)
             p == Head(persistent)
         IN CASE compareSubjects(c, p) -> <<c>> \o canonicalSubjects(Tail(contextual), persistent)
              [] compareSubjects(p, c) -> <<p>> \o canonicalSubjects(contextual, Tail(persistent))
              [] OTHER -> <<c>> \o canonicalSubjects(Tail(contextual), Tail(persistent))

ReadTuples(snapshot, data, bucket) ==
  LET ofBucket(fact) == bucketOf(fact.tuple) = bucket /\ active(fact, snapshot.readAt)
      facts == SelectSeq(data.tuples, ofBucket)
      contextual == [i \in DOMAIN facts |-> subjectOf(facts[i].tuple)]
      merged(persistent) ==
        constructed(within(Len(persistent) <= MaxAggregateWorkItems - Len(contextual)),
                    canonicalSubjects(contextual, persistent))
  IN IF NewTupleQuery(bucket, MaxAggregateWorkItems) # "OK" THEN refused("INVALID_ARGUMENT")
     ELSE andThen(snapshotTuples(snapshot, bucket, MaxAggregateWorkItems), merged)

\* rejectPersistentPathConflict: nothing persistent above or below the path.
rejectPersistentPathConflict(snapshot, entity, path) ==
  LET above(length) == snapshotAttribute(snapshot, entity, SubSeq(path, 1, length))
  IN firstError(<<required(~ attributeHasDescendant(snapshot.attributes, entity, path))>>
                \o [length \in 1..(Len(path) - 1) |->
                      firstError(<<above(length).status, required(above(length).value = Nil)>>)])

\* One resource field: the value both sources agree on, or Nil when there is none.
ResolveAttribute(snapshot, data, entity, path) ==
  LET own == {attribute \in Range(data.attributes) : attribute.entity = entity}
      same == {attribute.value : attribute \in {a \in own : a.path = path}}
      conflict == \E a \in own : IsStrictPrefix(a.path, path) \/ IsStrictPrefix(path, a.path)
      agreed(persistent) ==
        IF persistent # Nil /\ (conflict \/ ~ same \subseteq {persistent})
          THEN refused("INVALID_ARGUMENT")
          ELSE IF same = {} THEN made(persistent)
          ELSE constructed(rejectPersistentPathConflict(snapshot, entity, path),
                           CHOOSE value \in same : TRUE)
  IN IF NewAttributeKeyPath(entity, path).status # "OK" THEN refused("INVALID_ARGUMENT")
     ELSE andThen(snapshotAttribute(snapshot, entity, path), agreed)

-----------------------------------------------------------------------------
(* The attributes of one resource, as nested maps: a set of [path, value].   *)

\* batchWorkBudget: items and bytes; Nil is the budget that never runs out.
newWork(maxItems, maxBytes) == [items |-> maxItems, bytes |-> maxBytes]

work(budget, items, size) ==
  IF budget = Nil THEN made(Nil)
  ELSE constructed(within(items <= budget.items /\ size <= budget.bytes),
                   [items |-> budget.items - items, bytes |-> budget.bytes - size])

\* A part of the path is a leaf already, or the leaf is taken.
insertConflict(attributes, path) ==
  \E a \in attributes : IsPrefix(a.path, path) \/ IsStrictPrefix(path, a.path)

pathBytes(path) == 8 * Len(path) + FoldLeft(LAMBDA sum, segment : sum + segment, 0, path)

resolvedBytes(value) == 8 + IF value.kind = "string" THEN bytes(value.text) ELSE 0

\* One more path; state is [budget, attributes].
resolveResourcePath(snapshot, data, entity, path, state) ==
  LET insert(value, budget) ==
        IF insertConflict(state.attributes, path) THEN refused("INTEGRITY")
        ELSE made([budget |-> budget,
                   attributes |-> state.attributes \cup {[path |-> path, value |-> value]}])
      pay(value, budget) ==
        IF value = Nil THEN made([state EXCEPT !.budget = budget])
        ELSE andThen(work(budget, 0, resolvedBytes(value)), LAMBDA left : insert(value, left))
  IN andThen(work(state.budget, Len(path) + 2, pathBytes(path)), LAMBDA budget :
       andThen(ResolveAttribute(snapshot, data, entity, path), LAMBDA value : pay(value, budget)))

resolveResourceAttributes(schema, snapshot, data, budget, entity, action) ==
  FoldLeft(LAMBDA answer, path :
             andThen(answer, LAMBDA state : resolveResourcePath(snapshot, data, entity, path, state)),
           made([budget |-> budget, attributes |-> {}]), ResourcePaths(schema, entity[1], action))

=============================================================================
