------------------------------- MODULE Engine -------------------------------
(***************************************************************************)
(* The embedded engine above the store: calls of internal/app (sessions    *)
(* of Check, BatchCheck and Explain, the mutation services), the cache of  *)
(* revisions they share, and the bounded calls of extensions in            *)
(* invocation.go and caller.go.  A step is what happens between two points at which      *)
(* another goroutine can be noticed.  The store is the abstract one: slot  *)
(* heads, a data generation, and snapshots pinned to it.  What the         *)
(* evaluator makes of a snapshot is an outcome; its inputs are the pins.   *)
(***************************************************************************)
EXTENDS RevisionCache

CONSTANTS
  Slots,             \* namespace-local slots
  Procs,             \* goroutines that call the engine
  Workloads,         \* the calls each goroutine makes, one choice of them at a time
  MaxCallsPerPort,   \* maxConcurrentExtensionCallsPerPort
  MaxGeneration,     \* bound on slot generations
  MaxData,           \* bound on data generations
  MaxLeaving,        \* bound on ended contexts and deserted extensions at a time
  None, NoCall

Ports == {"authorizer", "delegation", "approval", "sink"}

SessionOps == {"check", "batch", "explain"}

Call == [op : SessionOps, slot : Slots \cup {None}, revision : Revisions,
         items : Nat \ {0}, minimum : 0..MaxData,
         delegation : BOOLEAN, approval : BOOLEAN]
        \cup [op : {"activate"}, slot : Slots, revision : Revisions]
        \cup [op : {"write"}]

ASSUME EngineAssumption ==
  /\ Workloads \subseteq [Procs -> SUBSET Call]
  /\ MaxCallsPerPort \in Nat \ {0}
  /\ IsFiniteSet(Procs)
  /\ Revisions # {} /\ None \notin Revisions \cup Slots
  /\ NoLoad \notin LoadIds \cup Revisions
  /\ NoCall \notin Nat

VARIABLES
  workload,     \* the calls each goroutine makes
  slotHistory,  \* store: the revisions a slot pointed to, one per generation
  generation,   \* store: data generation
  cache,        \* RevisionCache entries
  inflight,     \* RevisionCache.inflight
  calls,        \* revisionCall objects
  running,      \* slots taken on each port
  deserted,     \* extension goroutines on each port whose caller has left
  pc, call,     \* control point and call of each goroutine
  pin,          \* what its session has pinned
  load,         \* the load its GetOrLoad waits for
  extension,    \* what its extension call has come to
  snapshots,    \* open snapshots, by the goroutine that opened them
  cancelled     \* goroutines whose context has ended

storeVars == <<workload, slotHistory, generation>>
cacheVars == <<cache, inflight, calls, load>>
extensionVars == <<running, deserted, extension>>
localVars == <<pc, call, pin, snapshots, cancelled>>
vars == <<storeVars, cacheVars, extensionVars, localVars>>

NoPin == [revision |-> None, slotGeneration |-> 0, program |-> None,
          head |-> 0, item |-> 1]

head(s) == [revision |-> slotHistory[s][Len(slotHistory[s])], generation |-> Len(slotHistory[s])]

Init ==
  /\ workload \in Workloads
  /\ slotHistory = [s \in Slots |-> <<CHOOSE r \in Revisions : TRUE>>]
  /\ generation = 0
  /\ cache = NewRevisionCache
  /\ inflight = [r \in Revisions |-> NoLoad]
  /\ calls = [id \in LoadIds |-> FreeCall]
  /\ running = [port \in Ports |-> 0]
  /\ deserted = [port \in Ports |-> 0]
  /\ pc = [p \in Procs |-> "idle"]
  /\ call = [p \in Procs |-> NoCall]
  /\ pin = [p \in Procs |-> NoPin]
  /\ load = [p \in Procs |-> NoLoad]
  /\ extension = [p \in Procs |-> "none"]
  /\ snapshots = [p \in Procs |-> NoCall]
  /\ cancelled = {}

-----------------------------------------------------------------------------
(* A call returns to its caller.                                             *)

Goto(p, point) == pc' = [pc EXCEPT ![p] = point]

\* The locals of a finished call are gone.
Return(p) ==
  /\ Goto(p, "idle")
  /\ call' = [call EXCEPT ![p] = NoCall]
  /\ pin' = [pin EXCEPT ![p] = NoPin]
  /\ cancelled' = cancelled \ {p}

\* Mutant: the error path of openEvaluationSession that leaves the snapshot open.
FailKeeping(p) == Return(p) /\ UNCHANGED snapshots

\* An error: the snapshot is closed if it was opened, then the call returns.
Fail(p) == Return(p) /\ snapshots' = [snapshots EXCEPT ![p] = NoCall]

Start(p) ==
  /\ pc[p] = "idle"
  /\ \E c \in workload[p] :
       /\ call' = [call EXCEPT ![p] = c]
       /\ Goto(p, "authorizer")
  /\ UNCHANGED <<storeVars, cacheVars, extensionVars, pin, snapshots, cancelled>>

\* The context of a call under way ends.
CancelContext(p) ==
  /\ pc[p] # "idle" /\ p \notin cancelled
  /\ Cardinality(cancelled) + SumFunction(deserted) < MaxLeaving
  /\ cancelled' = cancelled \cup {p}
  /\ UNCHANGED <<storeVars, cacheVars, extensionVars, pc, call, pin, snapshots>>

-----------------------------------------------------------------------------
(* Extension calls.  A goroutine at the point named after a port is about to *)
(* call it; "none", "running" and "answered" say how far the call is.        *)

\* The next item of a batch is evaluated, or the session is closed.
nextItem(p) ==
  IF pin[p].item < call[p].items
    THEN pin' = [pin EXCEPT ![p].item = @ + 1] /\ Goto(p, "evaluate")
    ELSE Goto(p, "close") /\ UNCHANGED pin

\* Where a call goes on when an extension has answered.
goOn(p) ==
  /\ CASE pc[p] = "authorizer" ->
            Goto(p, IF call[p].op \in SessionOps THEN "resolve" ELSE "mutate") /\ UNCHANGED pin
       [] pc[p] = "delegation" -> Goto(p, "evaluate") /\ UNCHANGED pin
       [] pc[p] = "approval" -> nextItem(p)
  /\ UNCHANGED <<call, snapshots, cancelled>>

\* invokeExtension: no slot, no call.
invokeExtension(p) ==
  /\ pc[p] \in Ports /\ extension[p] = "none" /\ p \notin cancelled
  /\ running[pc[p]] < MaxCallsPerPort
  /\ running' = [running EXCEPT ![pc[p]] = @ + 1]
  /\ extension' = [extension EXCEPT ![p] = "running"]
  /\ UNCHANGED <<storeVars, cacheVars, deserted, localVars>>

\* The context has ended or the port is busy: RESOURCE_EXHAUSTED.  A decision that
\* cannot be delivered is returned all the same.
ExtensionRefused(p) ==
  /\ pc[p] \in Ports /\ extension[p] = "none"
  /\ p \in cancelled \/ running[pc[p]] = MaxCallsPerPort
  /\ Fail(p)
  /\ UNCHANGED <<storeVars, cacheVars, extensionVars>>

\* The extension's goroutine gives the slot back, also after a panic, and leaves
\* the answer in its buffered channel.
ExtensionReturns(p) ==
  /\ extension[p] = "running"
  /\ running' = [running EXCEPT ![pc[p]] = @ - 1]
  /\ extension' = [extension EXCEPT ![p] = "answered"]
  /\ UNCHANGED <<storeVars, cacheVars, deserted, localVars>>

\* An extension whose caller has left answers a channel nobody reads.
DesertedReturns(port) ==
  /\ deserted[port] > 0
  /\ deserted' = [deserted EXCEPT ![port] = @ - 1]
  /\ running' = [running EXCEPT ![port] = @ - 1]
  /\ UNCHANGED <<storeVars, cacheVars, extension, localVars>>

\* Mutant: the caller waits for the extension whatever becomes of its context.
StayWithExtension(p) ==
  /\ p \in cancelled /\ extension[p] = "answered"
  /\ extension' = [extension EXCEPT ![p] = "none"]
  /\ UNCHANGED deserted
  /\ Fail(p)
  /\ UNCHANGED <<storeVars, cacheVars, running>>

\* The caller leaves when its context ends; the context is looked at again after
\* the answer, which is then not used.
LeaveExtension(p) ==
  /\ p \in cancelled /\ extension[p] # "none"
  /\ extension' = [extension EXCEPT ![p] = "none"]
  /\ deserted' = IF extension[p] = "running" THEN [deserted EXCEPT ![pc[p]] = @ + 1] ELSE deserted
  /\ Fail(p)
  /\ UNCHANGED <<storeVars, cacheVars, running>>

\* The answer is used, or is an error, a denial or not valid and ends the call.
\* After the sink there is nothing left to do, whatever it answered.
ExtensionAnswered(p) ==
  /\ pc[p] \in Ports /\ extension[p] = "answered" /\ p \notin cancelled
  /\ extension' = [extension EXCEPT ![p] = "none"]
  /\ \/ pc[p] # "sink" /\ goOn(p)
     \/ Fail(p)
  /\ UNCHANGED <<storeVars, cacheVars, running, deserted>>

-----------------------------------------------------------------------------
(* openEvaluationSession: pin a revision.                                    *)

\* An exact revision needs no store; a slot is resolved by the store.  UpdateCommitted
\* of what was resolved changes nothing: it refreshes pointers that are resident or
\* being filled, and nothing in the program fills the pointer cache.
resolveRevision(p) ==
  /\ pc[p] = "resolve"
  /\ IF call[p].slot = None
       THEN pin' = [pin EXCEPT ![p].revision = call[p].revision]
       ELSE pin' = [pin EXCEPT ![p].revision = head(call[p].slot).revision,
                               ![p].slotGeneration = head(call[p].slot).generation]
  /\ Goto(p, "load")
  /\ UNCHANGED <<storeVars, cacheVars, extensionVars, call, snapshots, cancelled>>

\* Mutant: the revision loaded is the one the slot has now.
keyOfSlot(p) ==
  IF call[p].slot = None THEN pin[p].revision ELSE head(call[p].slot).revision

\* The key of loadRevision.
keyOf(p) == pin[p].revision

\* GetOrLoad finds the revision resident.
Hit(p) ==
  /\ pc[p] = "load" /\ p \notin cancelled /\ keyOf(p) \in resident(cache)
  /\ cache' = [cache EXCEPT !.recency = moveToFront(@, keyOf(p))]
  /\ pin' = [pin EXCEPT ![p].program = keyOf(p)]
  /\ Goto(p, "head")
  /\ UNCHANGED <<storeVars, inflight, calls, load, extensionVars, call, snapshots,
                 cancelled>>

\* GetOrLoad joins the load under way or starts one.
GetOrLoad(p) ==
  /\ pc[p] = "load" /\ p \notin cancelled /\ keyOf(p) \notin resident(cache)
  /\ IF inflight[keyOf(p)] # NoLoad
       THEN /\ load' = [load EXCEPT ![p] = inflight[keyOf(p)]]
            /\ calls' = [calls EXCEPT ![inflight[keyOf(p)]].waiters = @ + 1]
            /\ UNCHANGED inflight
       ELSE \E id \in LoadIds :
              /\ calls[id] = FreeCall /\ \A other \in 1..(id - 1) : calls[other] # FreeCall
              /\ load' = [load EXCEPT ![p] = id]
              /\ calls' = [calls EXCEPT ![id] = startedCall(keyOf(p))]
              /\ inflight' = [inflight EXCEPT ![keyOf(p)] = id]
  /\ Goto(p, "loading")
  /\ UNCHANGED <<storeVars, cache, extensionVars, call, pin, snapshots, cancelled>>

\* A call object is garbage when it is done and nobody waits for it.
collect(cs, waiting) ==
  [id \in LoadIds |->
     IF cs[id].outcome # "running" /\ \A p \in Procs : waiting[p] # id THEN FreeCall ELSE cs[id]]

\* completeRevisionLoad: an abandoned load is not admitted, nor is one that failed.
completeRevisionLoad(id) ==
  /\ calls[id] # FreeCall /\ calls[id].outcome = "running"
  /\ \E outcome \in {"loaded", "failed"} :
       /\ calls' = collect([calls EXCEPT ![id].outcome = outcome], load)
       /\ cache' = IF outcome = "loaded" /\ ~ calls[id].abandoned
                     THEN admitLocked(cache, calls[id].key) ELSE cache
  /\ inflight' = IF inflight[calls[id].key] = id
                   THEN [inflight EXCEPT ![calls[id].key] = NoLoad] ELSE inflight
  /\ UNCHANGED <<storeVars, load, extensionVars, localVars>>

\* waitForRevision is served.
Loaded(p) ==
  /\ pc[p] = "loading" /\ calls[load[p]].outcome # "running"
  /\ load' = [load EXCEPT ![p] = NoLoad]
  /\ calls' = collect(calls, load')
  /\ IF calls[load[p]].outcome = "loaded"
       THEN /\ pin' = [pin EXCEPT ![p].program = calls[load[p]].key]
            /\ Goto(p, "head")
            /\ UNCHANGED <<call, snapshots, cancelled>>
       ELSE Fail(p)
  /\ UNCHANGED <<storeVars, cache, inflight, extensionVars>>

\* waitForRevision gives up.
LeaveLoad(p) ==
  /\ pc[p] = "loading" /\ p \in cancelled
  /\ LET left == leaveCall(inflight, calls, load[p])
     IN /\ inflight' = left.inflight
        /\ load' = [load EXCEPT ![p] = NoLoad]
        /\ calls' = collect(left.calls, load')
  /\ Fail(p)
  /\ UNCHANGED <<storeVars, cache, extensionVars>>

-----------------------------------------------------------------------------
(* openExactSnapshot, the delegation, the items, and the answer.             *)

GetDataGeneration(p) ==
  /\ pc[p] = "head"
  /\ pin' = [pin EXCEPT ![p].head = generation]
  /\ Goto(p, "open")
  /\ UNCHANGED <<storeVars, cacheVars, extensionVars, call, snapshots, cancelled>>

\* The snapshot must be the head that was read; it is closed again if not.
snapshotAccepted(p) == generation = pin[p].head /\ generation >= call[p].minimum

\* OpenSnapshot waits for the larger of the head read and the requested minimum.
openExactSnapshot(p) ==
  /\ pc[p] = "open"
  /\ generation >= pin[p].head /\ generation >= call[p].minimum
  /\ IF snapshotAccepted(p)
       THEN /\ snapshots' = [snapshots EXCEPT ![p] = generation]
            /\ Goto(p, IF call[p].delegation THEN "delegation" ELSE "evaluate")
            /\ UNCHANGED <<call, pin, cancelled>>
       ELSE Fail(p)
  /\ UNCHANGED <<storeVars, cacheVars, extensionVars>>

\* One item is evaluated against the snapshot.  Approvals are verified only when
\* they are required and evidence came with the call; evidence nobody asked for
\* is an error, which Fault stands for.  A batch looks at its context before each
\* item.
evaluateSessionItem(p) ==
  /\ pc[p] = "evaluate" /\ snapshots[p] # NoCall
  /\ \/ p \in cancelled /\ Fail(p)
     \/ p \notin cancelled /\ nextItem(p) /\ UNCHANGED <<call, snapshots, cancelled>>
     \/ /\ p \notin cancelled /\ call[p].approval
        /\ Goto(p, "approval") /\ UNCHANGED <<call, pin, snapshots, cancelled>>
  /\ UNCHANGED <<storeVars, cacheVars, extensionVars>>

\* The session is closed before the response is built and the event delivered.
\* The events of a batch are delivered one by one, as one call here.
CloseSession(p) ==
  /\ pc[p] = "close"
  /\ snapshots' = [snapshots EXCEPT ![p] = NoCall]
  /\ Goto(p, "sink")
  /\ UNCHANGED <<storeVars, cacheVars, extensionVars, call, pin, cancelled>>

\* A store call, the clock, the schema, a budget or the evaluator fails.
Fault(p) ==
  /\ pc[p] \in {"resolve", "head", "open", "evaluate", "close"}
  /\ Fail(p)
  /\ UNCHANGED <<storeVars, cacheVars, extensionVars>>

\* Every wait on the store ends with the context.
LeaveStore(p) ==
  /\ pc[p] \in {"load", "open"} /\ p \in cancelled
  /\ Fail(p)
  /\ UNCHANGED <<storeVars, cacheVars, extensionVars>>

-----------------------------------------------------------------------------
(* Mutations.                                                                *)

\* Activate and WriteData once authorized: the store commits or refuses.
Mutate(p) ==
  /\ pc[p] = "mutate"
  /\ \/ /\ call[p].op = "activate" /\ head(call[p].slot).generation < MaxGeneration
        /\ slotHistory' = [slotHistory EXCEPT ![call[p].slot] = Append(@, call[p].revision)]
        /\ UNCHANGED <<workload, generation>>
     \/ /\ call[p].op = "write" /\ generation < MaxData
        /\ generation' = generation + 1
        /\ UNCHANGED <<workload, slotHistory>>
     \/ UNCHANGED storeVars
  /\ Fail(p)
  /\ UNCHANGED <<cacheVars, extensionVars>>

-----------------------------------------------------------------------------
(* What the scheduler runs, and what the environment may do.                 *)

Step(p) ==
  \/ invokeExtension(p) \/ ExtensionRefused(p) \/ LeaveExtension(p)
  \/ ExtensionAnswered(p)
  \/ resolveRevision(p) \/ Hit(p) \/ GetOrLoad(p) \/ Loaded(p) \/ LeaveLoad(p)
  \/ GetDataGeneration(p) \/ openExactSnapshot(p) \/ evaluateSessionItem(p)
  \/ CloseSession(p) \/ LeaveStore(p) \/ Mutate(p)

Environment ==
  \/ \E p \in Procs : Start(p) \/ CancelContext(p) \/ ExtensionReturns(p) \/ Fault(p)
  \/ \E port \in Ports : DesertedReturns(port)
  \/ \E id \in LoadIds : completeRevisionLoad(id)

Next == Environment \/ \E p \in Procs : Step(p)

\* Goroutines that can run do; extensions, loads and the store may hang.
Spec == Init /\ [][Next]_vars /\ \A p \in Procs : WF_vars(Step(p))

-----------------------------------------------------------------------------
(* Properties.                                                               *)

\* Slots are taken by exactly the extension goroutines that run, deserted or not,
\* within the limit of a port, and snapshots are open in exactly the sessions
\* between their opening and their end: no error path of invocation.go, check.go or
\* batch.go keeps or returns one too many.
ResourcesHeldExactly ==
  /\ \A port \in Ports :
       /\ running[port] <= MaxCallsPerPort
       /\ running[port] = deserted[port]
            + Cardinality({p \in Procs : pc[p] = port /\ extension[p] = "running"})
  /\ \A p \in Procs :
       snapshots[p] # NoCall <=>
         pc[p] \in {"delegation", "evaluate", "approval", "close"}

\* A decision is about one state: the program evaluated is the revision the call
\* was pinned to, the slot pointed to it at the generation reported, and the
\* snapshot is the head that was read after the pin, not below the minimum.
SessionsArePinned ==
  \A p \in Procs :
    LET session == pin[p]
    IN /\ session.program # None => session.program = session.revision
       /\ session.slotGeneration # 0 =>
            slotHistory[call[p].slot][session.slotGeneration] = session.revision
       /\ snapshots[p] # NoCall =>
            /\ snapshots[p] = session.head /\ session.program # None
            /\ snapshots[p] <= generation
            /\ snapshots[p] >= call[p].minimum

\* Callers share a load and are neither stranded on one that was abandoned nor
\* counted out of one that others wait for; a key has one live load at most.  What the
\* loads leave in the cache, in whatever order they end, is counted exactly and fits.
LoadsAreShared ==
  /\ IsInjective(cache.recency) /\ Len(cache.recency) <= MaxEntries
  /\ cache.bytes = MapThenSumSet(LAMBDA r : ApproximateBytes[r], resident(cache))
  /\ cache.bytes <= MaxBytes
  /\ \A p \in Procs : pc[p] = "loading" => ~ calls[load[p]].abandoned
  /\ \A r \in Revisions : inflight[r] # NoLoad =>
       /\ calls[inflight[r]].key = r /\ ~ calls[inflight[r]].abandoned
       /\ calls[inflight[r]].waiters = Cardinality({p \in Procs : load[p] = inflight[r]})
       /\ calls[inflight[r]].waiters > 0
  /\ \A id \in LoadIds :
       calls[id].key # NoLoad /\ calls[id].outcome = "running" /\ ~ calls[id].abandoned =>
         inflight[calls[id].key] = id

\* A call whose context has ended returns, although the extension, the load or the
\* store it waits for hangs.
CancelledCallsReturn == \A p \in Procs : p \in cancelled ~> p \notin cancelled

=============================================================================
