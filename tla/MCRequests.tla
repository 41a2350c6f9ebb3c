----------------------------- MODULE MCRequests -----------------------------
(* Model values and request constructors the store instances share.          *)
EXTENDS StoreTypes

CONSTANTS r1, r2, m1, m2, s1, k1, k2

ParentPath == <<"a">>
ChildPath == <<"a", "b">>
OtherPath == <<"c">>
MCPaths == {ParentPath, ChildPath, OtherPath}

publish(id, metadata) == [op |-> "publish", id |-> id, metadata |-> metadata]

activate(target, revision, gen) ==
  [op |-> "activate", slot |-> s1, target |-> target,
   expectation |-> [revision |-> revision, generation |-> gen]]

write(key, expected, deletes, writes) ==
  [op |-> "write", key |-> key, revision |-> r1, expected |-> expected,
   deletes |-> deletes, writes |-> writes]

snapshot(minimum) == [op |-> "snapshot", minimum |-> minimum]

listEvents(cursor, limit) == [op |-> "events", cursor |-> cursor, limit |-> limit]

listHistory(cursor, limit) ==
  [op |-> "history", slot |-> s1, cursor |-> cursor, limit |-> limit]

=============================================================================
