------------------------------ MODULE Snapshot ------------------------------
(***************************************************************************)
(* The life of one open data snapshot, as the lifecycle mutex of           *)
(* store/sqlite snapshot.go and of store/memory data.go guards it: reads   *)
(* are admitted until the view is closing, and whoever finds the view      *)
(* closing and unread lets go of what it pins.  The memory view lets go    *)
(* inside the mutex; the SQLite view detaches its connection inside and    *)
(* rolls back, returns its permit and reports outside.                     *)
(***************************************************************************)
EXTENDS Naturals

\* closing: Close was called; active: admitted reads; pinned: the connection (or
\* data version) is still referenced; done: closeDone is closed; owned: the store
\* counts the view among its snapshots.
View == [closing : BOOLEAN, active : Nat, pinned : BOOLEAN, done : BOOLEAN, owned : BOOLEAN]

OpenedView == [closing |-> FALSE, active |-> 0, pinned |-> TRUE, done |-> FALSE, owned |-> TRUE]

NoView == [closing |-> TRUE, active |-> 0, pinned |-> FALSE, done |-> TRUE, owned |-> FALSE]

admits(view) == ~ view.closing /\ view.pinned

admit(view) == [view EXCEPT !.active = @ + 1]

\* Mutant: Close lets go of the connection whether or not it is read.
detachOnClose(view) == [view EXCEPT !.closing = TRUE, !.pinned = FALSE]

\* Close, under the mutex: no more reads, and an unread view is detached.
startClose(view) ==
  IF view.closing THEN view
  ELSE [view EXCEPT !.closing = TRUE, !.pinned = view.active # 0]

\* release, under the mutex: the last read of a closing view detaches it.
leave(view) ==
  [view EXCEPT !.active = @ - 1, !.pinned = ~ (view.closing /\ view.active = 1)]

\* This step took the connection away, so its goroutine has to finish the close.
detached(before, after) == before.pinned /\ ~ after.pinned

finishClose(view) == [view EXCEPT !.done = TRUE, !.owned = FALSE]

\* The memory view does both at once.
settled(before, after) == IF detached(before, after) THEN finishClose(after) ELSE after

=============================================================================
