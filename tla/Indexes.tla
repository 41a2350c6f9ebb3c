------------------------------ MODULE Indexes ------------------------------
(***************************************************************************)
(* store/memory indexed.go: the immutable search trees of one namespace    *)
(* version (relationship tuples, attributes by entity and path segment,    *)
(* revisions in page order), and the snapshot queries of both stores that  *)
(* read them.  A tree is a node or Nil; the source has one copy of the     *)
(* balanced tree per key type, each ordered field by field, so keys here   *)
(* are sequences of texts.                                                 *)
(***************************************************************************)
EXTENDS Texts

-----------------------------------------------------------------------------
(* The balanced tree.                                                        *)

height(tree) == IF tree = Nil THEN 0 ELSE tree.height

node(key, value, left, right) ==
  [key |-> key, value |-> value, left |-> left, right |-> right,
   height |-> 1 + IF height(left) > height(right) THEN height(left) ELSE height(right)]

balance(tree) == height(tree.left) - height(tree.right)

rotateRight(tree) ==
  LET pivot == tree.left
  IN node(pivot.key, pivot.value, pivot.left, node(tree.key, tree.value, pivot.right, tree.right))

rotateLeft(tree) ==
  LET pivot == tree.right
  IN node(pivot.key, pivot.value, node(tree.key, tree.value, tree.left, pivot.left), pivot.right)

\* Mutant: a zig-zag is rotated once.
rebalanceOnce(tree) ==
  CASE balance(tree) > 1 -> rotateRight(tree)
    [] balance(tree) < -1 -> rotateLeft(tree)
    [] OTHER -> tree

rebalance(tree) ==
  CASE balance(tree) > 1 ->
         rotateRight(IF balance(tree.left) < 0
                       THEN node(tree.key, tree.value, rotateLeft(tree.left), tree.right)
                       ELSE tree)
    [] balance(tree) < -1 ->
         rotateLeft(IF balance(tree.right) > 0
                      THEN node(tree.key, tree.value, tree.left, rotateRight(tree.right))
                      ELSE tree)
    [] OTHER -> tree

RECURSIVE treeSet(_, _, _)
treeSet(tree, key, value) ==
  CASE tree = Nil -> node(key, value, Nil, Nil)
    [] tree # Nil /\ before(key, tree.key) ->
         rebalance(node(tree.key, tree.value, treeSet(tree.left, key, value), tree.right))
    [] tree # Nil /\ before(tree.key, key) ->
         rebalance(node(tree.key, tree.value, tree.left, treeSet(tree.right, key, value)))
    [] OTHER -> node(key, value, tree.left, tree.right)

RECURSIVE treeGet(_, _)
treeGet(tree, key) ==
  CASE tree = Nil -> Nil
    [] tree # Nil /\ before(key, tree.key) -> treeGet(tree.left, key)
    [] tree # Nil /\ before(tree.key, key) -> treeGet(tree.right, key)
    [] OTHER -> tree.value

RECURSIVE treeMin(_)
treeMin(tree) == IF tree.left = Nil THEN tree ELSE treeMin(tree.left)

RECURSIVE treeDelete(_, _)
treeDelete(tree, key) ==
  CASE tree = Nil -> Nil
    [] tree # Nil /\ before(key, tree.key) ->
         rebalance(node(tree.key, tree.value, treeDelete(tree.left, key), tree.right))
    [] tree # Nil /\ before(tree.key, key) ->
         rebalance(node(tree.key, tree.value, tree.left, treeDelete(tree.right, key)))
    [] tree # Nil /\ key = tree.key /\ tree.left = Nil -> tree.right
    [] tree # Nil /\ key = tree.key /\ tree.left # Nil /\ tree.right = Nil -> tree.left
    [] OTHER ->
         LET successor == treeMin(tree.right)
         IN rebalance(node(successor.key, successor.value, tree.left,
                           treeDelete(tree.right, successor.key)))

-----------------------------------------------------------------------------
(* Relationship tuples.  A key holds the type and ID of the resource, the     *)
(* relation, and the type, ID and relation of the subject; the value is the   *)
(* time the tuple expires, 0 when it does not.                                *)

tupleSet(tree, key, expiresAt) == treeSet(tree, key, expiresAt)

tupleDelete(tree, key) == treeDelete(tree, key)

bucketOf(key) == SubSeq(key, 1, 3)

subjectOf(key) == SubSeq(key, 4, 6)

\* The keys of one resource and relation, in order.
RECURSIVE queryTupleBucket(_, _)
queryTupleBucket(tree, bucket) ==
  CASE tree = Nil -> <<>>
    [] tree # Nil /\ before(bucketOf(tree.key), bucket) -> queryTupleBucket(tree.right, bucket)
    [] tree # Nil /\ before(bucket, bucketOf(tree.key)) -> queryTupleBucket(tree.left, bucket)
    [] OTHER -> queryTupleBucket(tree.left, bucket) \o <<[key |-> tree.key, expiresAt |-> tree.value]>>
                \o queryTupleBucket(tree.right, bucket)

active(entry, readAt) == entry.expiresAt = 0 \/ entry.expiresAt > readAt

\* memory QueryTuples: every active subject of the bucket, or an error as soon as
\* there is one more than the limit; expired tuples count as work too.
QueryTuples(tree, bucket, limit, readAt) ==
  LET Active(entry) == active(entry, readAt)
      visited == queryTupleBucket(tree, bucket)
      found == SelectSeq(visited, Active)
  IN IF Len(visited) > MaxAggregateWorkItems \/ Len(found) > limit
       THEN refused("RESOURCE_EXHAUSTED")
       ELSE made([i \in DOMAIN found |-> subjectOf(found[i].key)])

\* ORDER BY the columns of the key.
inKeyOrder(rows) ==
  [i \in 1..Cardinality(rows) |->
     CHOOSE row \in rows : Cardinality({r \in rows : before(r.key, row.key)}) = i - 1]

\* sqlite QueryTuples: the same question as SQL, with LIMIT limit + 1.
queryTupleRows(rows, bucket, limit, readAt) ==
  LET ordered == inKeyOrder({row \in rows : bucketOf(row.key) = bucket /\ active(row, readAt)})
      fetched == SubSeq(ordered, 1, IF Len(ordered) > limit THEN limit + 1 ELSE Len(ordered))
  IN IF Len(fetched) > limit THEN refused("RESOURCE_EXHAUSTED")
     ELSE made([i \in DOMAIN fetched |-> subjectOf(fetched[i].key)])

-----------------------------------------------------------------------------
(* Attributes: a tree of entities, and under each a trie of path segments     *)
(* whose children are a tree of segments.                                     *)

EmptyTrie == [attribute |-> Nil, children |-> Nil]

hasValue(trie) == trie.attribute # Nil

segmentGet(children, segment) == treeGet(children, <<segment>>)

segmentSet(children, segment, child) == treeSet(children, <<segment>>, child)

segmentDelete(children, segment) == treeDelete(children, <<segment>>)

\* The trie with the value at the path, or Nil when a value above or below is in the way.
RECURSIVE trieSet(_, _, _)
trieSet(trie, path, value) ==
  LET here == IF trie = Nil THEN EmptyTrie ELSE trie
      updated == trieSet(segmentGet(here.children, path[1]), Tail(path), value)
  IN CASE path = <<>> -> IF here.children # Nil THEN Nil ELSE [attribute |-> value, children |-> Nil]
       [] path # <<>> /\ (hasValue(here) \/ updated = Nil) -> Nil
       [] OTHER -> [here EXCEPT !.children = segmentSet(@, path[1], updated)]

RECURSIVE trieAt(_, _)
trieAt(trie, path) ==
  IF trie = Nil \/ path = <<>> THEN trie
  ELSE trieAt(segmentGet(trie.children, path[1]), Tail(path))

trieGet(trie, path) ==
  LET found == trieAt(trie, path) IN IF found = Nil THEN Nil ELSE found.attribute

\* A node that is left with neither a value nor children goes away.
RECURSIVE trieDelete(_, _)
trieDelete(trie, path) ==
  LET child == segmentGet(trie.children, path[1])
      updated == trieDelete(child, Tail(path))
      children == IF updated = Nil THEN segmentDelete(trie.children, path[1])
                  ELSE segmentSet(trie.children, path[1], updated)
  IN CASE trie = Nil -> Nil
       [] trie # Nil /\ path = <<>> ->
            IF trie.children = Nil THEN Nil ELSE [trie EXCEPT !.attribute = Nil]
       [] trie # Nil /\ path # <<>> /\ child = Nil -> trie
       [] OTHER -> IF ~ hasValue(trie) /\ children = Nil THEN Nil
                   ELSE [trie EXCEPT !.children = children]

entityGet(root, entity) == treeGet(root, entity)

entitySet(root, entity, trie) == treeSet(root, entity, trie)

entityDelete(root, entity) == treeDelete(root, entity)

\* The new tree and whether the value was taken.
attributeSet(root, entity, path, value) ==
  LET updated == trieSet(entityGet(root, entity), path, value)
  IN IF updated = Nil THEN [ok |-> FALSE, root |-> root]
     ELSE [ok |-> TRUE, root |-> entitySet(root, entity, updated)]

attributeDelete(root, entity, path) ==
  LET trie == entityGet(root, entity)
      replaced(updated) == IF updated = Nil THEN entityDelete(root, entity) ELSE entitySet(root, entity, updated)
  IN IF trie = Nil THEN root ELSE replaced(trieDelete(trie, path))

attributeGet(root, entity, path) == trieGet(entityGet(root, entity), path)

attributeHasDescendant(root, entity, path) ==
  LET found == trieAt(entityGet(root, entity), path) IN found # Nil /\ found.children # Nil

\* The same two questions to the attribute rows of sqlite.  strictAttributePrefixes
\* says which ancestor rows an attribute has.
strictAttributePrefixes(row) ==
  {[entity |-> row.entity, path |-> SubSeq(row.path, 1, n)] : n \in 1..(Len(row.path) - 1)}

getAttributeRow(rows, entity, path) ==
  LET found == {row \in rows : row.entity = entity /\ row.path = path}
  IN IF found = {} THEN Nil ELSE (CHOOSE row \in found : TRUE).value

descendantRow(rows, entity, path) ==
  \E row \in rows : [entity |-> entity, path |-> path] \in strictAttributePrefixes(row)

-----------------------------------------------------------------------------
(* Revisions, in the order of their publication time and identifier.         *)

revisionSet(tree, key) == treeSet(tree, key, key)

\* Mutant: revisions of the cursor's own instant are taken to be listed already.
RECURSIVE walkAfterInstant(_, _)
walkAfterInstant(tree, after) ==
  CASE tree = Nil -> <<>>
    [] tree # Nil /\ after # Nil /\ tree.key[1] <= after[1] -> walkAfterInstant(tree.right, after)
    [] OTHER -> walkAfterInstant(tree.left, after) \o <<tree.key>> \o walkAfterInstant(tree.right, after)

\* The walk of revisionPage: keys after the cursor, until the limit is exceeded.
RECURSIVE walkAfter(_, _)
walkAfter(tree, after) ==
  CASE tree = Nil -> <<>>
    [] tree # Nil /\ after # Nil /\ ~ before(after, tree.key) -> walkAfter(tree.right, after)
    [] OTHER -> walkAfter(tree.left, after) \o <<tree.key>> \o walkAfter(tree.right, after)

revisionPage(tree, after, limit) ==
  LET candidates == walkAfter(tree, after)
  IN [page |-> SubSeq(candidates, 1, IF Len(candidates) > limit THEN limit ELSE Len(candidates)),
      more |-> Len(candidates) > limit]

=============================================================================
