--------------------------- MODULE Engine_proofs ---------------------------
(***************************************************************************)
(* The engine, for any number of goroutines, revisions, slots and loads: a *)
(* session is about one pinned state, and an extension slot is taken by    *)
(* exactly the extensions that run.                                        *)
(***************************************************************************)
EXTENDS Engine, TLAPS

-----------------------------------------------------------------------------
(* Sessions.                                                                 *)

Pins == [revision : Revisions \cup {None}, slotGeneration : Nat,
         program : Revisions \cup {None}, head : Nat, item : Nat]

viewing == {"delegation", "evaluate", "approval", "close"}
loaded == viewing \cup {"head", "open", "sink"}
resolved == loaded \cup {"load", "loading"}
unpinned == {"idle", "authorizer", "resolve", "mutate"}

\* A control point belongs to the call under way.
placed(point, c) ==
  /\ point # "idle" => c \in Call
  /\ point \in resolved \cup {"resolve"} => c.op \in SessionOps

\* What is pinned was committed, and the program is the pinned revision's.
pinned(point, c, session, history) ==
  /\ session \in Pins
  /\ point \in unpinned => session = NoPin
  /\ point \in resolved => session.revision \in Revisions
  /\ point \in loaded => session.program # None
  /\ session.program # None => session.program = session.revision
  /\ session.slotGeneration # 0 =>
       /\ c.slot \in Slots
       /\ session.slotGeneration \in 1..Len(history[c.slot])
       /\ history[c.slot][session.slotGeneration] = session.revision

\* A snapshot is open where one is needed, at the head that was read.
viewed(point, c, session, view, data) ==
  /\ view # NoCall <=> point \in viewing
  /\ view # NoCall => /\ view \in Nat /\ view = session.head
                      /\ view <= data /\ view >= c.minimum

sessionOK(point, c, session, view, history, data) ==
  placed(point, c) /\ pinned(point, c, session, history) /\ viewed(point, c, session, view, data)

Histories == {history \in [Slots -> Seq(Revisions)] :
                \A s \in Slots : Len(history[s]) > 0}

\* Every goroutine's session is in order.
PinInv ==
  /\ workload \in [Procs -> SUBSET Call]
  /\ slotHistory \in Histories /\ generation \in Nat
  /\ pc = [p \in Procs |-> pc[p]] /\ call = [p \in Procs |-> call[p]]
  /\ snapshots = [p \in Procs |-> snapshots[p]] /\ pin \in [Procs -> Pins]
  /\ \A p \in Procs : sessionOK(pc[p], call[p], pin[p], snapshots[p], slotHistory, generation)

\* The fields of a session's call and of an activation.
LEMMA CallFields ==
  ASSUME NEW c \in Call
  PROVE  /\ c.op \in SessionOps => /\ c.slot \in Slots \cup {None}
                                   /\ c.revision \in Revisions
         /\ c.op = "activate" => c.slot \in Slots /\ c.revision \in Revisions
BY DEF Call, SessionOps

\* A slot's head is the last entry of its history.
LEMMA HeadFields ==
  ASSUME slotHistory \in Histories, NEW s \in Slots
  PROVE  /\ head(s).revision \in Revisions /\ head(s).generation \in Nat \ {0}
         /\ head(s).generation \in 1..Len(slotHistory[s])
         /\ slotHistory[s][head(s).generation] = head(s).revision
BY DEF head, Histories

\* A goroutine without a call pins nothing.
LEMMA IdleOK ==
  ASSUME NEW history, NEW data PROVE sessionOK("idle", NoCall, NoPin, NoCall, history, data)
<1>1. NoPin \in Pins
  BY DEF NoPin, Pins
<1>2. placed("idle", NoCall)
  BY DEF placed, resolved, loaded, viewing
<1>3. pinned("idle", NoCall, NoPin, history)
  BY <1>1 DEF pinned, NoPin, resolved, loaded, viewing, unpinned
<1>4. viewed("idle", NoCall, NoPin, NoCall, data)
  BY DEF viewed, viewing
<1> QED
  BY <1>2, <1>3, <1>4 DEF sessionOK

\* Nothing is pinned at first.
LEMMA PinInit == Init => PinInv
<1> SUFFICES ASSUME Init PROVE PinInv
  OBVIOUS
<1>1. workload \in [Procs -> SUBSET Call] /\ generation \in Nat
  BY EngineAssumption DEF Init
<1>2. (CHOOSE r \in Revisions : TRUE) \in Revisions
  BY EngineAssumption
<1>3. PICK r \in Revisions : slotHistory = [s \in Slots |-> <<r>>]
  BY <1>2 DEF Init
<1>6. <<r>> \in Seq(Revisions) /\ Len(<<r>>) = 1
  OBVIOUS
<1>8. \A s \in Slots : slotHistory[s] \in Seq(Revisions) /\ Len(slotHistory[s]) > 0
  BY <1>3, <1>6
<1>9. slotHistory \in [Slots -> Seq(Revisions)]
  BY <1>3, <1>8
<1>7. slotHistory \in Histories
  BY <1>8, <1>9 DEF Histories
<1>4. \A p \in Procs : sessionOK(pc[p], call[p], pin[p], snapshots[p], slotHistory, generation)
  BY IdleOK DEF Init
<1>5. NoPin \in Pins
  BY DEF NoPin, Pins
<1> QED
  BY <1>1, <1>4, <1>5, <1>7 DEF PinInv, Init

\* One goroutine moves; the store and the other sessions stay.
LEMMA PinMove ==
  ASSUME PinInv, NEW p \in Procs, NEW label, NEW c, NEW session \in Pins, NEW view,
         pc' = [pc EXCEPT ![p] = label], call' = [call EXCEPT ![p] = c],
         pin' = [pin EXCEPT ![p] = session], snapshots' = [snapshots EXCEPT ![p] = view],
         UNCHANGED storeVars, sessionOK(label, c, session, view, slotHistory, generation)
  PROVE  PinInv'
<1>1. /\ pc' = [q \in Procs |-> pc'[q]] /\ call' = [q \in Procs |-> call'[q]]
      /\ snapshots' = [q \in Procs |-> snapshots'[q]] /\ pin' \in [Procs -> Pins]
  BY Zenon DEF PinInv
<1>2. pc'[p] = label /\ call'[p] = c /\ pin'[p] = session /\ snapshots'[p] = view
  BY DEF PinInv
<1>3. \A q \in Procs \ {p} : /\ pc'[q] = pc[q] /\ call'[q] = call[q]
                             /\ pin'[q] = pin[q] /\ snapshots'[q] = snapshots[q]
  BY Zenon DEF PinInv
<1>4. slotHistory' = slotHistory /\ generation' = generation /\ workload' = workload
  BY DEF storeVars
<1>5. ASSUME NEW q \in Procs
      PROVE  sessionOK(pc'[q], call'[q], pin'[q], snapshots'[q], slotHistory', generation')
  <2>1. CASE q = p
    BY <1>2, <1>4, <2>1
  <2>2. CASE q # p
    <3>1. /\ pc'[q] = pc[q] /\ call'[q] = call[q]
          /\ pin'[q] = pin[q] /\ snapshots'[q] = snapshots[q]
      BY <1>3, <2>2
    <3>2. sessionOK(pc[q], call[q], pin[q], snapshots[q], slotHistory, generation)
      BY DEF PinInv
    <3> QED
      BY <1>4, <3>1, <3>2
  <2> QED
    BY <2>1, <2>2
<1> QED
  BY <1>1, <1>4, <1>5 DEF PinInv

\* A call ends: its session is gone.
LEMMA PinReturn ==
  ASSUME PinInv, NEW p \in Procs, Fail(p), UNCHANGED storeVars
  PROVE  PinInv'
<1>1. NoPin \in Pins
  BY DEF NoPin, Pins
<1> QED
  BY <1>1, IdleOK, PinMove, Zenon DEF Fail, Return, Goto

\* A step that leaves sessions and store where they are.
LEMMA PinStutter ==
  ASSUME PinInv, UNCHANGED <<pc, call, pin, snapshots, storeVars>>
  PROVE  PinInv'
BY DEF PinInv, storeVars

\* What a session pinned stays committed when the store goes on.
LEMMA SessionKept ==
  ASSUME NEW point, NEW c, NEW session, NEW view, NEW history, NEW data \in Nat,
         NEW longer, NEW later \in Nat, data <= later,
         history \in Histories, longer \in Histories,
         \A s \in Slots : /\ Len(history[s]) <= Len(longer[s])
                                /\ \A i \in 1..Len(history[s]) : longer[s][i] = history[s][i],
         sessionOK(point, c, session, view, history, data)
  PROVE  sessionOK(point, c, session, view, longer, later)
<1>1. pinned(point, c, session, history)
  BY DEF sessionOK
<1>2. ASSUME session.slotGeneration # 0
      PROVE  /\ c.slot \in Slots
             /\ session.slotGeneration \in 1..Len(longer[c.slot])
             /\ longer[c.slot][session.slotGeneration] = session.revision
  <2>1. /\ c.slot \in Slots
        /\ session.slotGeneration \in 1..Len(history[c.slot])
        /\ history[c.slot][session.slotGeneration] = session.revision
    BY <1>1, <1>2 DEF pinned
  <2>2. Len(history[c.slot]) \in Nat /\ Len(longer[c.slot]) \in Nat
    BY <2>1 DEF Histories
  <2> QED
    BY <2>1, <2>2
<1>3. pinned(point, c, session, longer)
  BY <1>1, <1>2 DEF pinned
<1>4. viewed(point, c, session, view, later)
  BY DEF sessionOK, viewed
<1> QED
  BY <1>3, <1>4 DEF sessionOK

\* The store goes on, if it goes on, by one activation or one write.
LEMMA StoreMutated ==
  ASSUME PinInv, NEW p \in Procs, Mutate(p)
  PROVE  /\ workload' = workload /\ slotHistory' \in Histories
         /\ generation' \in Nat /\ generation <= generation'
         /\ \A s \in Slots :
              /\ Len(slotHistory[s]) <= Len(slotHistory'[s])
              /\ \A i \in 1..Len(slotHistory[s]) : slotHistory'[s][i] = slotHistory[s][i]
<1>4. call[p] \in Call /\ slotHistory \in Histories /\ generation \in Nat
  BY ZenonT(40) DEF PinInv, Mutate, sessionOK, placed
<1>1. CASE call[p].op = "activate" /\ UNCHANGED <<workload, generation>>
           /\ slotHistory' = [slotHistory EXCEPT ![call[p].slot] = Append(@, call[p].revision)]
  <2>1. call[p].slot \in Slots /\ call[p].revision \in Revisions
    BY <1>4, <1>1, CallFields
  <2>2. PICK s \in Slots, r \in Revisions :
        slotHistory' = [slotHistory EXCEPT ![s] = Append(slotHistory[s], r)]
    BY <1>1, <2>1, Zenon
  <2>3. /\ slotHistory \in [Slots -> Seq(Revisions)] /\ slotHistory[s] \in Seq(Revisions)
        /\ \A t \in Slots : Len(slotHistory[t]) \in Nat /\ Len(slotHistory[t]) > 0
    BY <1>4 DEF Histories
  <2>4. /\ slotHistory'[s] = Append(slotHistory[s], r)
        /\ slotHistory' \in [Slots -> Seq(Revisions)]
        /\ \A t \in Slots \ {s} : slotHistory'[t] = slotHistory[t]
    BY <2>2, <2>3
  <2>5. /\ Len(slotHistory'[s]) = Len(slotHistory[s]) + 1
        /\ \A i \in 1..Len(slotHistory[s]) : slotHistory'[s][i] = slotHistory[s][i]
    BY <2>3, <2>4
  <2>6. ASSUME NEW t \in Slots PROVE Len(slotHistory'[t]) > 0
    <3>1. Len(slotHistory[t]) \in Nat /\ Len(slotHistory[t]) > 0
      BY <2>3
    <3>2. CASE t = s
      BY <2>5, <3>1, <3>2
    <3>3. CASE t # s
      BY <2>4, <3>1, <3>3
    <3> QED
      BY <3>2, <3>3
  <2>7. PICK longer \in [Slots -> Seq(Revisions)] : longer = slotHistory'
    BY <2>4
  <2>8. slotHistory' \in Histories
    <3>1. \A t \in Slots : Len(longer[t]) > 0
      BY <2>6, <2>7
    <3>2. longer \in Histories
      BY <3>1 DEF Histories
    <3> QED
      BY <2>7, <3>2
  <2> QED
    BY <1>4, <1>1, <2>3, <2>4, <2>5, <2>8
<1>2. CASE generation' = generation + 1 /\ UNCHANGED <<workload, slotHistory>>
  BY <1>4, <1>2 DEF Histories
<1>3. CASE UNCHANGED storeVars
  BY <1>4, <1>3 DEF storeVars, Histories
<1> QED
  BY <1>1, <1>2, <1>3 DEF Mutate

\* What was pinned stays pinned when the store goes on.
LEMMA PinMutate ==
  ASSUME PinInv, NEW p \in Procs, Mutate(p)
  PROVE  PinInv'
<1>1. slotHistory \in Histories /\ generation \in Nat
  BY DEF PinInv
<1>2. /\ workload' = workload /\ slotHistory' \in Histories
      /\ generation' \in Nat /\ generation <= generation'
      /\ \A s \in Slots :
           /\ Len(slotHistory[s]) <= Len(slotHistory'[s])
           /\ \A i \in 1..Len(slotHistory[s]) : slotHistory'[s][i] = slotHistory[s][i]
  BY StoreMutated, Zenon
<1>3. /\ pc' = [pc EXCEPT ![p] = "idle"] /\ call' = [call EXCEPT ![p] = NoCall]
      /\ pin' = [pin EXCEPT ![p] = NoPin] /\ snapshots' = [snapshots EXCEPT ![p] = NoCall]
  BY DEF Mutate, Fail, Return, Goto
<1>4. NoPin \in Pins
  BY DEF NoPin, Pins
<1>5. /\ pc' = [q \in Procs |-> pc'[q]] /\ call' = [q \in Procs |-> call'[q]]
      /\ snapshots' = [q \in Procs |-> snapshots'[q]] /\ pin' \in [Procs -> Pins]
  BY <1>3, <1>4, Zenon DEF PinInv
<1>6. pc'[p] = "idle" /\ call'[p] = NoCall /\ pin'[p] = NoPin /\ snapshots'[p] = NoCall
  BY <1>3 DEF PinInv
<1>7. \A q \in Procs \ {p} : /\ pc'[q] = pc[q] /\ call'[q] = call[q]
                             /\ pin'[q] = pin[q] /\ snapshots'[q] = snapshots[q]
  BY <1>3, Zenon DEF PinInv
<1>8. ASSUME NEW q \in Procs
      PROVE  sessionOK(pc'[q], call'[q], pin'[q], snapshots'[q], slotHistory', generation')
  <2>1. CASE q = p
    BY <1>6, <2>1, IdleOK
  <2>2. CASE q # p
    <3>1. sessionOK(pc[q], call[q], pin[q], snapshots[q], slotHistory, generation)
      BY Zenon DEF PinInv
    <3>2. sessionOK(pc[q], call[q], pin[q], snapshots[q], slotHistory', generation')
      BY <1>1, <1>2, <3>1, SessionKept
    <3>3. /\ pc'[q] = pc[q] /\ call'[q] = call[q]
          /\ pin'[q] = pin[q] /\ snapshots'[q] = snapshots[q]
      BY <1>7, <2>2
    <3> QED
      BY <3>2, <3>3
  <2> QED
    BY <2>1, <2>2, Zenon
<1> QED
  BY <1>2, <1>5, <1>8 DEF PinInv

\* A goroutine goes on with its session as it is.
LEMMA PinGoto ==
  ASSUME PinInv, NEW p \in Procs, NEW label, Goto(p, label),
         UNCHANGED <<call, pin, snapshots, storeVars>>,
         sessionOK(label, call[p], pin[p], snapshots[p], slotHistory, generation)
  PROVE  PinInv'
<1>1. PICK session \in Pins : session = pin[p]
  BY DEF PinInv
<1>2. PICK c, view : c = call[p] /\ view = snapshots[p]
  OBVIOUS
<1>3. /\ call' = [call EXCEPT ![p] = c] /\ pin' = [pin EXCEPT ![p] = session]
      /\ snapshots' = [snapshots EXCEPT ![p] = view]
  BY <1>1, <1>2, Zenon DEF PinInv
<1>4. sessionOK(label, c, session, view, slotHistory, generation)
  BY <1>1, <1>2, Zenon
<1>5. pc' = [pc EXCEPT ![p] = label] /\ UNCHANGED storeVars
  BY DEF Goto
<1> QED
  BY <1>3, <1>4, <1>5, PinMove, Zenon

\* A goroutine pins something more and goes on.
LEMMA PinMore ==
  ASSUME PinInv, NEW p \in Procs, NEW label, NEW session \in Pins, Goto(p, label),
         pin' = [pin EXCEPT ![p] = session], UNCHANGED <<call, snapshots, storeVars>>,
         sessionOK(label, call[p], session, snapshots[p], slotHistory, generation)
  PROVE  PinInv'
<1>1. PICK c, view : c = call[p] /\ view = snapshots[p]
  OBVIOUS
<1>2. /\ call' = [call EXCEPT ![p] = c] /\ snapshots' = [snapshots EXCEPT ![p] = view]
  BY <1>1, Zenon DEF PinInv
<1>3. sessionOK(label, c, session, view, slotHistory, generation)
  BY <1>1
<1>4. pc' = [pc EXCEPT ![p] = label] /\ UNCHANGED storeVars
  BY DEF Goto
<1> QED
  BY <1>2, <1>3, <1>4, PinMove, Zenon

\* A session goes on as it is to a point that asks no more of it.
LEMMA Onward ==
  ASSUME NEW from, NEW to, NEW c, NEW session, NEW view, NEW history, NEW data,
         sessionOK(from, c, session, view, history, data), from # "idle",
         to \in resolved \cup {"resolve"} =>
           from \in resolved \cup {"resolve"} \/ c.op \in SessionOps,
         to \in {"begin", "read", "complete"} => from \in {"begin", "read", "complete"},
         to \in unpinned => from \in unpinned, to \in resolved => from \in resolved,
         to \in loaded => from \in loaded, to \in viewing <=> from \in viewing
  PROVE  sessionOK(to, c, session, view, history, data)
<1>1. placed(to, c)
  BY Zenon DEF sessionOK, placed
<1>2. pinned(to, c, session, history)
  BY DEF sessionOK, pinned
<1>3. viewed(to, c, session, view, data)
  BY DEF sessionOK, viewed
<1> QED
  BY <1>1, <1>2, <1>3 DEF sessionOK

\* What a session pins more changes nothing else of what it has pinned.
LEMMA PinnedItem ==
  ASSUME NEW s \in Pins
  PROVE  /\ [s EXCEPT !.item = @ + 1] \in Pins
         /\ [s EXCEPT !.item = @ + 1].revision = s.revision
         /\ [s EXCEPT !.item = @ + 1].slotGeneration = s.slotGeneration
         /\ [s EXCEPT !.item = @ + 1].program = s.program
         /\ [s EXCEPT !.item = @ + 1].head = s.head
BY DEF Pins

\* The same for the head.
LEMMA PinnedHead ==
  ASSUME NEW s \in Pins, NEW data \in Nat
  PROVE  /\ [s EXCEPT !.head = data] \in Pins
         /\ [s EXCEPT !.head = data].revision = s.revision
         /\ [s EXCEPT !.head = data].slotGeneration = s.slotGeneration
         /\ [s EXCEPT !.head = data].program = s.program
BY DEF Pins

\* The same for the program.
LEMMA PinnedProgram ==
  ASSUME NEW s \in Pins, NEW r \in Revisions
  PROVE  /\ [s EXCEPT !.program = r] \in Pins
         /\ [s EXCEPT !.program = r].revision = s.revision
         /\ [s EXCEPT !.program = r].slotGeneration = s.slotGeneration
         /\ [s EXCEPT !.program = r].program = r
BY DEF Pins

\* A revision pinned exactly.
LEMMA PinnedRevision ==
  ASSUME NEW r \in Revisions
  PROVE  /\ [NoPin EXCEPT !.revision = r] \in Pins
         /\ [NoPin EXCEPT !.revision = r].revision = r
         /\ [NoPin EXCEPT !.revision = r].slotGeneration = 0
         /\ [NoPin EXCEPT !.revision = r].program = None
BY DEF Pins, NoPin

\* A revision pinned by the generation of its slot.
LEMMA PinnedSlot ==
  ASSUME NEW r \in Revisions, NEW g \in Nat
  PROVE  /\ [NoPin EXCEPT !.revision = r, !.slotGeneration = g] \in Pins
         /\ [NoPin EXCEPT !.revision = r, !.slotGeneration = g].revision = r
         /\ [NoPin EXCEPT !.revision = r, !.slotGeneration = g].slotGeneration = g
         /\ [NoPin EXCEPT !.revision = r, !.slotGeneration = g].program = None
BY Zenon DEF Pins, NoPin

\* A call begins, with nothing pinned.
LEMMA PinStart ==
  ASSUME PinInv, NEW p \in Procs, Start(p)
  PROVE  PinInv'
<1>1. PICK c \in Call, label \in {"authorizer"} :
        call' = [call EXCEPT ![p] = c] /\ Goto(p, label)
  BY Zenon DEF PinInv, Start
<1>2. pin[p] = NoPin /\ snapshots[p] = NoCall /\ NoPin \in Pins
  BY Zenon DEF Start, PinInv, sessionOK, pinned, viewed, unpinned, viewing
<1>3. pinned(label, c, NoPin, slotHistory)
  BY <1>1, <1>2 DEF pinned, NoPin, resolved, loaded, viewing
<1>4. placed(label, c)
  BY <1>1 DEF placed, resolved, loaded, viewing
<1>5. viewed(label, c, NoPin, NoCall, generation)
  BY <1>1 DEF viewed, viewing
<1>6. sessionOK(label, c, NoPin, NoCall, slotHistory, generation)
  BY <1>3, <1>4, <1>5 DEF sessionOK
<1>7. /\ pin' = [pin EXCEPT ![p] = NoPin] /\ snapshots' = [snapshots EXCEPT ![p] = NoCall]
      /\ UNCHANGED storeVars /\ pc' = [pc EXCEPT ![p] = label]
  BY <1>1, <1>2, Zenon DEF Start, PinInv, Goto
<1> QED
  BY <1>1, <1>2, <1>6, <1>7, PinMove, Zenon

\* The next item, or the end of the items.
LEMMA PinNextItem ==
  ASSUME PinInv, NEW p \in Procs, pc[p] \in {"evaluate", "approval"}, nextItem(p),
         UNCHANGED <<call, snapshots, storeVars>>
  PROVE  PinInv'
<1> PICK s \in Pins : s = pin[p]
  BY DEF PinInv
<1>1. PICK from, c, view : from = pc[p] /\ c = call[p] /\ view = snapshots[p]
  OBVIOUS
<1>2. sessionOK(from, c, s, view, slotHistory, generation) /\ from \in {"evaluate", "approval"}
  BY <1>1, Zenon DEF PinInv
<1>3. CASE Goto(p, "close") /\ UNCHANGED pin
  <2>1. sessionOK("close", c, s, view, slotHistory, generation)
    BY <1>2, Onward DEF resolved, loaded, viewing, unpinned
  <2> QED
    BY <1>1, <1>3, <2>1, PinGoto, Zenon
<1>4. CASE pin' = [pin EXCEPT ![p].item = @ + 1] /\ Goto(p, "evaluate")
  <2>1. PICK session \in Pins : session = [s EXCEPT !.item = @ + 1]
    BY PinnedItem, Zenon
  <2>2. /\ session.revision = s.revision /\ session.slotGeneration = s.slotGeneration
        /\ session.program = s.program /\ session.head = s.head
    BY <2>1, PinnedItem, Zenon
  <2>3. sessionOK("evaluate", c, s, view, slotHistory, generation)
    BY <1>2, Onward, Zenon DEF resolved, loaded, viewing, unpinned
  <2>4. pinned("evaluate", c, session, slotHistory)
    BY <2>2, <2>3, Zenon DEF sessionOK, pinned, unpinned
  <2>5. viewed("evaluate", c, session, view, generation)
    BY <2>2, <2>3, Zenon DEF sessionOK, viewed
  <2>6. sessionOK("evaluate", call[p], session, snapshots[p], slotHistory, generation)
    BY <1>1, <2>3, <2>4, <2>5 DEF sessionOK
  <2>7. pin' = [pin EXCEPT ![p] = session]
    BY <1>1, <1>4, <2>1
  <2> QED
    BY <1>4, <2>6, <2>7, PinMore, Zenon
<1> QED
  BY <1>3, <1>4 DEF nextItem

\* An extension's answer is used.
LEMMA PinAnswered ==
  ASSUME PinInv, NEW p \in Procs, ExtensionAnswered(p)
  PROVE  PinInv'
<1>1. UNCHANGED storeVars /\ pc[p] \in Ports
  BY DEF ExtensionAnswered
<1>2. CASE Fail(p)
  BY <1>1, <1>2, PinReturn
<1>3. CASE pc[p] # "sink" /\ goOn(p)
  <2> PICK s \in Pins : s = pin[p]
    BY DEF PinInv
  <2>1. PICK c, view : c = call[p] /\ view = snapshots[p]
    OBVIOUS
  <2>2. sessionOK(pc[p], c, s, view, slotHistory, generation)
    BY <2>1 DEF PinInv
  <2>3. UNCHANGED <<call, snapshots, storeVars>>
    BY <1>1, <1>3 DEF goOn
  <2>4. CASE pc[p] = "authorizer"
    <3>1. sessionOK("authorizer", c, s, view, slotHistory, generation)
      BY <2>2, <2>4
    <3>2. UNCHANGED pin
      BY <1>3, <2>4, Zenon DEF goOn
    <3>3. CASE Goto(p, "resolve") /\ c.op \in SessionOps
      <4>1. sessionOK("resolve", c, s, view, slotHistory, generation)
        BY <3>1, <3>3, Onward, Zenon DEF resolved, loaded, viewing, unpinned
      <4> QED
        BY <2>1, <2>3, <3>2, <3>3, <4>1, PinGoto
    <3>4. CASE Goto(p, "mutate")
      <4>1. sessionOK("mutate", c, s, view, slotHistory, generation)
        BY <3>1, Onward, Zenon DEF resolved, loaded, viewing, unpinned
      <4> QED
        BY <2>1, <2>3, <3>2, <3>4, <4>1, PinGoto, Zenon
    <3> QED
      BY <1>3, <2>1, <2>4, <3>3, <3>4 DEF goOn
  <2>5. CASE pc[p] = "delegation"
    <3>1. sessionOK("delegation", c, s, view, slotHistory, generation)
      BY <2>2, <2>5
    <3>2. sessionOK("evaluate", c, s, view, slotHistory, generation)
      BY <3>1, Onward DEF resolved, loaded, viewing, unpinned
    <3>3. Goto(p, "evaluate") /\ UNCHANGED pin
      BY <1>3, <2>5 DEF goOn
    <3> QED
      BY <2>1, <2>3, <3>2, <3>3, PinGoto, Zenon
  <2>6. CASE pc[p] = "approval"
    <3>1. nextItem(p)
      BY <1>3, <2>6 DEF goOn
    <3> QED
      BY <2>3, <2>6, <3>1, PinNextItem
  <2> QED
    BY <1>1, <1>3, <2>4, <2>5, <2>6 DEF Ports
<1> QED
  BY <1>2, <1>3 DEF ExtensionAnswered

\* An exact revision is pinned, or what the slot points to, as committed.
LEMMA PinResolve ==
  ASSUME PinInv, NEW p \in Procs, resolveRevision(p)
  PROVE  PinInv'
<1>1. PICK c, view : c = call[p] /\ view = snapshots[p]
  BY Zenon
<1>2. sessionOK("resolve", c, NoPin, view, slotHistory, generation) /\ pin[p] = NoPin
  BY <1>1 DEF resolveRevision, PinInv, sessionOK, pinned, unpinned
<1>3. /\ c \in Call /\ c.op \in SessionOps /\ view = NoCall
      /\ slotHistory \in Histories /\ UNCHANGED <<call, snapshots, storeVars>>
  BY <1>2 DEF sessionOK, placed, viewed, viewing, PinInv, resolveRevision
<1>4. CASE c.slot = None
  <2>1. c.revision \in Revisions
    BY <1>3, CallFields
  <2>2. PICK session \in Pins : session = [NoPin EXCEPT !.revision = c.revision]
    BY <2>1, PinnedRevision, Zenon
  <2>3. /\ session.revision \in Revisions /\ session.slotGeneration = 0
        /\ session.program = None
    BY <2>1, <2>2, PinnedRevision
  <2>4. pinned("load", c, session, slotHistory)
    BY <2>3 DEF pinned, resolved, loaded, viewing, unpinned
  <2>5. placed("load", c) /\ viewed("load", c, session, view, generation)
    BY <1>3, Zenon DEF placed, viewed, viewing
  <2>6. sessionOK("load", call[p], session, snapshots[p], slotHistory, generation)
    BY <1>1, <2>4, <2>5 DEF sessionOK
  <2>7. pin' = [pin EXCEPT ![p] = session] /\ Goto(p, "load")
    BY <1>1, <1>2, <1>4, <2>2 DEF resolveRevision
  <2> QED
    BY <1>3, <2>6, <2>7, PinMore, Zenon
<1>5. CASE c.slot # None
  <2>1. c.slot \in Slots
    BY <1>3, <1>5, CallFields, Zenon
  <2>2. PICK r \in Revisions, g \in Nat \ {0} :
        /\ r = head(c.slot).revision /\ g = head(c.slot).generation
        /\ g \in 1..Len(slotHistory[c.slot]) /\ slotHistory[c.slot][g] = r
    BY <1>3, <2>1, HeadFields
  <2>3. PICK session \in Pins : session = [NoPin EXCEPT !.revision = r, !.slotGeneration = g]
    BY PinnedSlot, Zenon
  <2>4. session.revision = r /\ session.slotGeneration = g /\ session.program = None
    BY <2>3, PinnedSlot, Zenon
  <2>5. pinned("load", c, session, slotHistory)
    BY <2>1, <2>2, <2>4 DEF pinned, resolved, loaded, viewing, unpinned
  <2>6. placed("load", c) /\ viewed("load", c, session, view, generation)
    BY <1>3, Zenon DEF placed, viewed, viewing
  <2>7. sessionOK("load", call[p], session, snapshots[p], slotHistory, generation)
    BY <1>1, <2>5, <2>6 DEF sessionOK
  <2>8. pin' = [pin EXCEPT ![p] = session] /\ Goto(p, "load")
    BY <1>1, <1>2, <1>5, <2>2, <2>3, Zenon DEF resolveRevision
  <2> QED
    BY <1>3, <2>7, <2>8, PinMore, Zenon
<1> QED
  BY <1>4, <1>5

\* The program pinned is the one of the pinned revision.
LEMMA PinProgram ==
  ASSUME PinInv, NEW p \in Procs, pc[p] \in {"load", "loading"},
         pin' = [pin EXCEPT ![p].program = pin[p].revision], Goto(p, "head"),
         UNCHANGED <<call, snapshots, storeVars>>
  PROVE  PinInv'
<1> PICK s \in Pins : s = pin[p]
  BY DEF PinInv
<1>1. PICK from, c, view : from = pc[p] /\ c = call[p] /\ view = snapshots[p]
  OBVIOUS
<1>2. sessionOK(from, c, s, view, slotHistory, generation) /\ from \in {"load", "loading"}
  BY <1>1 DEF PinInv
<1>3. s.revision \in Revisions
  BY <1>2 DEF sessionOK, pinned, resolved
<1>4. PICK session \in Pins : session = [s EXCEPT !.program = s.revision]
  BY <1>3, PinnedProgram, Zenon
<1>5. /\ session.revision = s.revision /\ session.slotGeneration = s.slotGeneration
      /\ session.program = s.revision /\ s.revision # None
  BY <1>3, <1>4, PinnedProgram, EngineAssumption
<1>6. pinned("head", c, session, slotHistory)
  BY <1>2, <1>3, <1>5 DEF sessionOK, pinned, unpinned
<1>7. placed("head", c) /\ viewed("head", c, session, view, generation)
  BY <1>2 DEF sessionOK, placed, viewed, resolved, loaded, viewing
<1>8. sessionOK("head", call[p], session, snapshots[p], slotHistory, generation)
  BY <1>1, <1>6, <1>7 DEF sessionOK
<1>9. pin' = [pin EXCEPT ![p] = session]
  BY <1>1, <1>4
<1> QED
  BY <1>8, <1>9, PinMore, Zenon

\* The head is read.
LEMMA PinHead ==
  ASSUME PinInv, NEW p \in Procs, GetDataGeneration(p)
  PROVE  PinInv'
<1> PICK s \in Pins : s = pin[p]
  BY DEF PinInv
<1>1. PICK data \in Nat : data = generation
  BY DEF PinInv
<1>2. PICK session \in Pins : session = [s EXCEPT !.head = data]
  BY PinnedHead, Zenon
<1>3. /\ session.revision = s.revision /\ session.slotGeneration = s.slotGeneration
      /\ session.program = s.program
  BY <1>2, PinnedHead
<1>4. sessionOK("head", call[p], s, snapshots[p], slotHistory, generation)
  BY Zenon DEF PinInv, GetDataGeneration
<1>5. pinned("open", call[p], session, slotHistory)
  BY <1>3, <1>4, Zenon DEF sessionOK, pinned, resolved, loaded, unpinned
<1>6. placed("open", call[p]) /\ viewed("open", call[p], session, snapshots[p], generation)
  BY <1>4, Zenon DEF sessionOK, placed, viewed, resolved, loaded, viewing
<1>7. sessionOK("open", call[p], session, snapshots[p], slotHistory, generation)
  BY <1>5, <1>6 DEF sessionOK
<1>8. /\ pin' = [pin EXCEPT ![p] = session] /\ Goto(p, "open")
      /\ UNCHANGED <<call, snapshots, storeVars>>
  BY <1>1, <1>2 DEF GetDataGeneration
<1> QED
  BY <1>7, <1>8, PinMore, Zenon

\* A snapshot is accepted at the head that was read.
LEMMA PinOpen ==
  ASSUME PinInv, NEW p \in Procs, openExactSnapshot(p)
  PROVE  PinInv'
<1>1. UNCHANGED storeVars
  BY Zenon DEF openExactSnapshot
<1>2. CASE ~ snapshotAccepted(p)
  BY <1>1, <1>2, PinReturn DEF openExactSnapshot
<1>3. CASE snapshotAccepted(p)
  <2> PICK s \in Pins : s = pin[p]
    BY DEF PinInv
  <2>1. PICK c : c = call[p]
    OBVIOUS
  <2>2. PICK data \in Nat : data = generation /\ data = s.head /\ data >= c.minimum
    BY <1>3, <2>1, Zenon DEF PinInv, snapshotAccepted
  <2>3. PICK label \in {"delegation", "evaluate"} : Goto(p, label)
    BY <1>3, Zenon DEF openExactSnapshot
  <2>4. sessionOK("open", c, s, snapshots[p], slotHistory, generation)
    BY <2>1, Zenon DEF PinInv, openExactSnapshot
  <2>5. placed(label, c) /\ pinned(label, c, s, slotHistory)
    BY <2>4, Zenon DEF sessionOK, placed, pinned, resolved, loaded, viewing, unpinned
  <2>6. viewed(label, c, s, data, generation)
    BY <2>2, EngineAssumption DEF viewed, viewing
  <2>7. sessionOK(label, c, s, data, slotHistory, generation)
    BY <2>5, <2>6, Zenon DEF sessionOK
  <2>8. /\ call' = [call EXCEPT ![p] = c] /\ pin' = [pin EXCEPT ![p] = s]
        /\ snapshots' = [snapshots EXCEPT ![p] = data] /\ pc' = [pc EXCEPT ![p] = label]
    BY <1>3, <2>1, <2>2, <2>3 DEF openExactSnapshot, PinInv, Goto
  <2> QED
    BY <1>1, <2>7, <2>8, PinMove, Zenon
<1> QED
  BY <1>2, <1>3, Zenon

\* The snapshot is closed before the decision is delivered.
LEMMA PinClose ==
  ASSUME PinInv, NEW p \in Procs, CloseSession(p)
  PROVE  PinInv'
<1> PICK s \in Pins : s = pin[p]
  BY DEF PinInv
<1>1. PICK c : c = call[p]
  OBVIOUS
<1>2. sessionOK("close", c, s, snapshots[p], slotHistory, generation)
  BY <1>1, ZenonT(40) DEF PinInv, CloseSession
<1>3. placed("sink", c) /\ pinned("sink", c, s, slotHistory)
  BY <1>2 DEF sessionOK, placed, pinned, resolved, loaded, viewing, unpinned
<1>4. viewed("sink", c, s, NoCall, generation)
  BY DEF viewed, viewing
<1>5. sessionOK("sink", c, s, NoCall, slotHistory, generation)
  BY <1>3, <1>4, Zenon DEF sessionOK
<1>6. /\ call' = [call EXCEPT ![p] = c] /\ pin' = [pin EXCEPT ![p] = s] /\ UNCHANGED storeVars
      /\ snapshots' = [snapshots EXCEPT ![p] = NoCall] /\ pc' = [pc EXCEPT ![p] = "sink"]
  BY <1>1 DEF CloseSession, PinInv, Goto
<1> QED
  BY <1>5, <1>6, PinMove, Zenon

\* The other steps of a session: on to the next point, or to the end.
LEMMA PinOnward ==
  ASSUME PinInv, NEW p \in Procs,
         GetOrLoad(p) \/ evaluateSessionItem(p)
  PROVE  PinInv'
<1>1. UNCHANGED storeVars
  BY DEF GetOrLoad, evaluateSessionItem, storeVars
<1>2. PICK from, c, s, view :
        from = pc[p] /\ c = call[p] /\ s = pin[p] /\ view = snapshots[p]
  BY Zenon
<1>3. sessionOK(from, c, s, view, slotHistory, generation)
  BY <1>2, Zenon DEF PinInv
<1>4. CASE from = "load" /\ Goto(p, "loading") /\ UNCHANGED <<call, pin, snapshots>>
  <2>1. sessionOK("loading", c, s, view, slotHistory, generation)
    BY <1>3, <1>4, Onward, Zenon DEF resolved, loaded, viewing, unpinned
  <2> QED
    BY <1>1, <1>2, <1>4, <2>1, PinGoto, Zenon
<1>5. CASE from = "evaluate" /\ Goto(p, "approval") /\ UNCHANGED <<call, pin, snapshots>>
  <2>1. sessionOK("approval", c, s, view, slotHistory, generation)
    BY <1>3, <1>5, Onward, Zenon DEF resolved, loaded, viewing, unpinned
  <2> QED
    BY <1>1, <1>2, <1>5, <2>1, PinGoto, Zenon
<1>6. CASE from = "evaluate" /\ nextItem(p) /\ UNCHANGED <<call, snapshots>>
  BY <1>1, <1>2, <1>6, PinNextItem, Zenon
<1>7. CASE Fail(p)
  BY <1>1, <1>7, PinReturn, Zenon
<1> QED
  BY <1>2, <1>4, <1>5, <1>6, <1>7 DEF GetOrLoad, evaluateSessionItem

-----------------------------------------------------------------------------
(* Shared loads: a goroutine waits for a load of the revision it has pinned. *)

Loads == [key : Revisions \cup {NoLoad}, waiters : Int, abandoned : BOOLEAN,
          outcome : {"running", "loaded", "failed"}]

\* A load that can be joined runs and is of the key it is found under; a load is not
\* forgotten while somebody waits for it.
LoadInv ==
  /\ load \in [Procs -> LoadIds \cup {NoLoad}]
  /\ inflight \in [Revisions -> LoadIds \cup {NoLoad}]
  /\ calls \in [LoadIds -> Loads]
  /\ \A r \in Revisions : inflight[r] # NoLoad =>
       calls[inflight[r]].key = r /\ calls[inflight[r]].outcome = "running"
  /\ \A p \in Procs : pc[p] = "loading" =>
       load[p] \in LoadIds /\ calls[load[p]].key = pin[p].revision

\* Nothing is loaded at first.
LEMMA LoadInit == Init => LoadInv
<1> SUFFICES ASSUME Init PROVE LoadInv
  OBVIOUS
<1>1. FreeCall \in Loads
  BY DEF FreeCall, Loads
<1>2. /\ load = [p \in Procs |-> NoLoad] /\ inflight = [r \in Revisions |-> NoLoad]
      /\ calls = [id \in LoadIds |-> FreeCall] /\ pc = [p \in Procs |-> "idle"]
  BY Zenon DEF Init
<1> QED
  BY <1>1, <1>2 DEF LoadInv

\* A step away from the loads.
LEMMA LoadMove ==
  ASSUME LoadInv, NEW p \in Procs, UNCHANGED <<inflight, calls, load>>, pc'[p] # "loading",
         \A q \in Procs \ {p} : pc'[q] = pc[q] /\ pin'[q] = pin[q]
  PROVE  LoadInv'
BY Zenon DEF LoadInv

\* A step that moves no session.
LEMMA LoadStutter ==
  ASSUME LoadInv, UNCHANGED <<inflight, calls, load, pc, pin>>
  PROVE  LoadInv'
BY Zenon DEF LoadInv

\* Garbage is a load that is done and that nobody waits for.
LEMMA Collected ==
  ASSUME NEW cs \in [LoadIds -> Loads], NEW waiting \in [Procs -> LoadIds \cup {NoLoad}]
  PROVE  /\ collect(cs, waiting) \in [LoadIds -> Loads]
         /\ \A id \in LoadIds :
              cs[id].outcome = "running" \/ (\E p \in Procs : waiting[p] = id) =>
                collect(cs, waiting)[id] = cs[id]
<1>1. FreeCall \in Loads
  BY DEF FreeCall, Loads
<1> QED
  BY <1>1 DEF collect

\* A load ends: it can no longer be joined, and those who wait for it still find it.
LEMMA LoadCompleted ==
  ASSUME LoadInv, NEW id \in LoadIds, completeRevisionLoad(id)
  PROVE  LoadInv'
<1>1. PICK outcome \in {"loaded", "failed"} :
        calls' = collect([calls EXCEPT ![id].outcome = outcome], load)
  BY Zenon DEF completeRevisionLoad
<1>2. PICK cs : cs = [calls EXCEPT ![id].outcome = outcome]
  BY Zenon
<1>3. [calls[id] EXCEPT !.outcome = outcome] \in Loads
      /\ [calls[id] EXCEPT !.outcome = outcome].key = calls[id].key
  BY DEF LoadInv, Loads
<1>4. /\ cs \in [LoadIds -> Loads] /\ cs[id].key = calls[id].key
      /\ \A i \in LoadIds \ {id} : cs[i] = calls[i]
  BY <1>2, <1>3, Zenon DEF LoadInv
<1>5. /\ calls' \in [LoadIds -> Loads]
      /\ \A i \in LoadIds : cs[i].outcome = "running" \/ (\E p \in Procs : load[p] = i) =>
           calls'[i] = cs[i]
  <2>1. PICK waiting \in [Procs -> LoadIds \cup {NoLoad}] : waiting = load
    BY Zenon DEF LoadInv
  <2>2. /\ collect(cs, waiting) \in [LoadIds -> Loads]
        /\ \A i \in LoadIds :
             cs[i].outcome = "running" \/ (\E p \in Procs : waiting[p] = i) =>
               collect(cs, waiting)[i] = cs[i]
    BY <1>4, Collected
  <2>3. calls' = collect(cs, waiting)
    BY <1>1, <1>2, <2>1
  <2> QED
    BY <2>1, <2>2, <2>3, Zenon
<1>6. /\ inflight' \in [Revisions -> LoadIds \cup {NoLoad}]
      /\ \A r \in Revisions : inflight'[r] # NoLoad => inflight'[r] = inflight[r]
      /\ \A r \in Revisions : inflight[r] = id => inflight'[r] = NoLoad
  <2>1. \A r \in Revisions : inflight[r] = id => calls[id].key = r
    BY EngineAssumption DEF LoadInv
  <2> QED
    BY <2>1, ZenonT(40) DEF completeRevisionLoad, LoadInv
<1>7. UNCHANGED <<load, pc, pin>>
  BY Zenon DEF completeRevisionLoad, localVars
<1>8. ASSUME NEW r \in Revisions, inflight'[r] # NoLoad
      PROVE  calls'[inflight'[r]].key = r /\ calls'[inflight'[r]].outcome = "running"
  <2>1. /\ inflight'[r] = inflight[r] /\ inflight[r] # id /\ inflight[r] \in LoadIds
        /\ calls[inflight[r]].key = r /\ calls[inflight[r]].outcome = "running"
    BY <1>6, <1>8 DEF LoadInv
  <2>2. cs[inflight[r]] = calls[inflight[r]]
    BY <1>4, <2>1, Zenon
  <2> QED
    BY <1>5, <2>1, <2>2, ZenonT(40)
<1>9. ASSUME NEW p \in Procs, pc'[p] = "loading"
      PROVE  load'[p] \in LoadIds /\ calls'[load'[p]].key = pin'[p].revision
  <2>1. /\ load'[p] = load[p] /\ load[p] \in LoadIds /\ calls[load[p]].key = pin[p].revision
        /\ pin'[p] = pin[p]
    BY <1>7, <1>9, Zenon DEF LoadInv
  <2>2. calls'[load[p]] = cs[load[p]] /\ cs[load[p]].key = calls[load[p]].key
    BY <1>4, <1>5, <2>1
  <2> QED
    BY <2>1, <2>2, Zenon
<1> QED
  BY <1>5, <1>6, <1>7, <1>8, <1>9 DEF LoadInv

\* A goroutine stops waiting; its load stays as long as others wait for it.
LEMMA LoadLeft ==
  ASSUME LoadInv, NEW p \in Procs, NEW cs \in [LoadIds -> Loads],
         \A id \in LoadIds : cs[id].key = calls[id].key /\ cs[id].outcome = calls[id].outcome,
         inflight' \in [Revisions -> LoadIds \cup {NoLoad}],
         \A r \in Revisions : inflight'[r] # NoLoad => inflight'[r] = inflight[r],
         load' = [load EXCEPT ![p] = NoLoad], calls' = collect(cs, load'),
         pc'[p] # "loading", \A q \in Procs \ {p} : pc'[q] = pc[q] /\ pin'[q] = pin[q]
  PROVE  LoadInv'
<1> PICK waiting \in [Procs -> LoadIds \cup {NoLoad}] : waiting = load'
  BY Zenon DEF LoadInv
<1>1. calls' = collect(cs, waiting)
  BY DEF collect
<1>2. /\ calls' \in [LoadIds -> Loads]
      /\ \A id \in LoadIds : cs[id].outcome = "running" \/ (\E q \in Procs : load'[q] = id) =>
           calls'[id] = cs[id]
  <2>1. /\ collect(cs, waiting) \in [LoadIds -> Loads]
        /\ \A id \in LoadIds :
             cs[id].outcome = "running" \/ (\E q \in Procs : waiting[q] = id) =>
               collect(cs, waiting)[id] = cs[id]
    BY Collected, ZenonT(40)
  <2> QED
    BY <1>1, <2>1, Zenon
<1>3. load' \in [Procs -> LoadIds \cup {NoLoad}] /\ \A q \in Procs \ {p} : load'[q] = load[q]
  BY Zenon DEF LoadInv
<1>4. ASSUME NEW r \in Revisions, inflight'[r] # NoLoad
      PROVE  calls'[inflight'[r]].key = r /\ calls'[inflight'[r]].outcome = "running"
  <2>1. /\ inflight'[r] = inflight[r] /\ inflight[r] \in LoadIds
        /\ calls[inflight[r]].key = r /\ calls[inflight[r]].outcome = "running"
    BY <1>4 DEF LoadInv
  <2>2. calls'[inflight[r]] = cs[inflight[r]]
    BY <1>2, <2>1, ZenonT(40)
  <2> QED
    BY <2>1, <2>2
<1>5. ASSUME NEW q \in Procs, pc'[q] = "loading"
      PROVE  load'[q] \in LoadIds /\ calls'[load'[q]].key = pin'[q].revision
  <2>1. /\ load'[q] = load[q] /\ load[q] \in LoadIds /\ calls[load[q]].key = pin[q].revision
        /\ pin'[q] = pin[q]
    BY <1>3, <1>5 DEF LoadInv
  <2>2. calls'[load[q]] = cs[load[q]]
    BY <1>2, <2>1, Zenon
  <2> QED
    BY <2>1, <2>2
<1> QED
  BY <1>2, <1>3, <1>4, <1>5, Zenon DEF LoadInv

\* Leaving a load changes neither its key nor its outcome.
LEMMA LeftFields ==
  ASSUME NEW l \in Loads, NEW last \in BOOLEAN
  PROVE  /\ [l EXCEPT !.waiters = @ - 1, !.abandoned = last] \in Loads
         /\ [l EXCEPT !.waiters = @ - 1, !.abandoned = last].key = l.key
         /\ [l EXCEPT !.waiters = @ - 1, !.abandoned = last].outcome = l.outcome
<1>1. PICK left : left = [l EXCEPT !.waiters = @ - 1, !.abandoned = last]
  OBVIOUS
<1>2. left = [key |-> l.key, waiters |-> l.waiters - 1, abandoned |-> last,
              outcome |-> l.outcome]
  BY <1>1, Zenon DEF Loads
<1>3. /\ l.key \in Revisions \cup {NoLoad} /\ l.waiters - 1 \in Int
      /\ l.outcome \in {"running", "loaded", "failed"}
  BY DEF Loads
<1>4. left \in Loads
  BY <1>2, <1>3, Zenon DEF Loads
<1>5. left.key = l.key /\ left.outcome = l.outcome
  BY <1>2
<1> QED
  BY <1>1, <1>4, <1>5

\* Nor does joining it.
LEMMA JoinedFields ==
  ASSUME NEW l \in Loads
  PROVE  /\ [l EXCEPT !.waiters = @ + 1] \in Loads
         /\ [l EXCEPT !.waiters = @ + 1].key = l.key
         /\ [l EXCEPT !.waiters = @ + 1].outcome = l.outcome
BY DEF Loads

\* waitForRevision is served or gives up.
LEMMA LoadWaited ==
  ASSUME LoadInv, PinInv, NEW p \in Procs, Loaded(p) \/ LeaveLoad(p)
  PROVE  LoadInv'
<1>1. /\ load' = [load EXCEPT ![p] = NoLoad] /\ pc'[p] # "loading"
      /\ \A q \in Procs \ {p} : pc'[q] = pc[q] /\ pin'[q] = pin[q]
  BY DEF Loaded, LeaveLoad, Fail, Return, Goto, PinInv
<1>2. pc[p] = "loading"
  BY DEF Loaded, LeaveLoad
<1>3. CASE Loaded(p)
  <2>1. PICK cs \in [LoadIds -> Loads] : cs = calls
    BY Zenon DEF LoadInv
  <2>2. calls' = collect(cs, load') /\ UNCHANGED inflight
    BY <1>3, <2>1 DEF Loaded
  <2>3. \A id \in LoadIds : cs[id].key = calls[id].key /\ cs[id].outcome = calls[id].outcome
    BY <2>1, ZenonT(40)
  <2>4. /\ inflight' \in [Revisions -> LoadIds \cup {NoLoad}]
        /\ \A r \in Revisions : inflight'[r] # NoLoad => inflight'[r] = inflight[r]
    BY <2>2 DEF LoadInv
  <2> QED
    BY <1>1, <2>2, <2>3, <2>4, LoadLeft, Zenon
<1>4. CASE LeaveLoad(p)
  <2>1. PICK id \in LoadIds, key \in Revisions : id = load[p] /\ key = calls[id].key
    BY <1>2 DEF LoadInv, PinInv, sessionOK, pinned, resolved
  <2>2. PICK cs : cs = leaveCall(inflight, calls, id).calls
    OBVIOUS
  <2>3. PICK last \in BOOLEAN :
        /\ last <=> inflight[key] = id /\ calls[id].waiters = 1
        /\ inflight' = IF last THEN [inflight EXCEPT ![key] = NoLoad] ELSE inflight
        /\ cs = IF inflight[key] = id
                  THEN [calls EXCEPT ![id].waiters = @ - 1, ![id].abandoned = last] ELSE calls
    BY <1>4, <2>1, <2>2, ZenonT(40) DEF LeaveLoad, leaveCall
  <2> PICK l \in Loads : l = calls[id]
    BY DEF LoadInv
  <2>4. PICK left \in Loads :
        /\ left = [calls[id] EXCEPT !.waiters = @ - 1, !.abandoned = last]
        /\ left.key = calls[id].key /\ left.outcome = calls[id].outcome
    BY LeftFields, Zenon
  <2>5. cs = calls \/ cs = [calls EXCEPT ![id] = left]
    BY <2>3, <2>4, Zenon DEF LoadInv
  <2>6. /\ cs \in [LoadIds -> Loads]
        /\ \A i \in LoadIds : cs[i].key = calls[i].key /\ cs[i].outcome = calls[i].outcome
    <3>1. CASE cs = calls
      BY <3>1 DEF LoadInv
    <3>2. CASE cs = [calls EXCEPT ![id] = left]
      BY <2>4, <3>2 DEF LoadInv
    <3> QED
      BY <2>5, <3>1, <3>2, Zenon
  <2>7. /\ inflight' \in [Revisions -> LoadIds \cup {NoLoad}]
        /\ \A r \in Revisions : inflight'[r] # NoLoad => inflight'[r] = inflight[r]
    BY <2>3, Zenon DEF LoadInv
  <2>8. calls' = collect(cs, load')
    BY <1>4, <2>1, <2>2 DEF LeaveLoad
  <2> QED
    BY <1>1, <2>6, <2>7, <2>8, LoadLeft, Zenon
<1> QED
  BY <1>3, <1>4

\* A goroutine joins the load of its revision, or starts one.
LEMMA LoadJoined ==
  ASSUME LoadInv, PinInv, NEW p \in Procs, GetOrLoad(p)
  PROVE  LoadInv'
<1>1. PICK key \in Revisions : key = pin[p].revision /\ key = keyOf(p)
  BY DEF GetOrLoad, PinInv, sessionOK, pinned, resolved, keyOf
<1>2. /\ pc' = [pc EXCEPT ![p] = "loading"] /\ UNCHANGED pin
      /\ \A q \in Procs \ {p} : pc'[q] = pc[q]
  BY Zenon DEF GetOrLoad, Goto, PinInv
<1>3. CASE inflight[key] # NoLoad
  <2>1. PICK id \in LoadIds : id = inflight[key] /\ calls[id].key = key
    BY <1>3 DEF LoadInv
  <2> PICK l \in Loads : l = calls[id]
    BY DEF LoadInv
  <2>2. PICK joined \in Loads :
        /\ joined = [calls[id] EXCEPT !.waiters = @ + 1]
        /\ joined.key = calls[id].key /\ joined.outcome = calls[id].outcome
    BY JoinedFields, Zenon
  <2>3. /\ load' = [load EXCEPT ![p] = id] /\ UNCHANGED inflight
        /\ calls' = [calls EXCEPT ![id] = joined]
    BY <1>1, <1>3, <2>1, <2>2 DEF GetOrLoad, LoadInv
  <2>4. /\ calls' \in [LoadIds -> Loads] /\ load' \in [Procs -> LoadIds \cup {NoLoad}]
        /\ \A i \in LoadIds : calls'[i].key = calls[i].key /\ calls'[i].outcome = calls[i].outcome
        /\ load'[p] = id /\ \A q \in Procs \ {p} : load'[q] = load[q]
    BY <2>2, <2>3, Zenon DEF LoadInv
  <2>5. ASSUME NEW q \in Procs, pc'[q] = "loading"
        PROVE  load'[q] \in LoadIds /\ calls'[load'[q]].key = pin'[q].revision
    <3>1. CASE q = p
      BY <1>1, <1>2, <2>1, <2>4, <3>1, Zenon
    <3>2. CASE q # p
      <4>1. load[q] \in LoadIds /\ calls[load[q]].key = pin[q].revision
        BY <1>2, <2>5, <3>2, ZenonT(40) DEF LoadInv
      <4> QED
        BY <1>2, <2>4, <3>2, <4>1, Zenon
    <3> QED
      BY <3>1, <3>2
  <2>6. \A r \in Revisions : inflight'[r] # NoLoad =>
          calls'[inflight'[r]].key = r /\ calls'[inflight'[r]].outcome = "running"
    BY <2>3, <2>4 DEF LoadInv
  <2> QED
    BY <2>3, <2>4, <2>5, <2>6, Zenon DEF LoadInv
<1>4. CASE inflight[key] = NoLoad
  <2>1. PICK id \in LoadIds :
        /\ calls[id] = FreeCall /\ load' = [load EXCEPT ![p] = id]
        /\ calls' = [calls EXCEPT ![id] = startedCall(key)]
        /\ inflight' = [inflight EXCEPT ![key] = id]
    BY <1>1, <1>4, Zenon DEF GetOrLoad
  <2>2. /\ startedCall(key) \in Loads /\ startedCall(key).key = key
        /\ startedCall(key).outcome = "running" /\ calls[id].key = NoLoad
    BY <2>1 DEF startedCall, Loads, FreeCall
  <2>3. /\ calls' \in [LoadIds -> Loads] /\ load' \in [Procs -> LoadIds \cup {NoLoad}]
        /\ inflight' \in [Revisions -> LoadIds \cup {NoLoad}]
        /\ calls'[id] = startedCall(key) /\ \A i \in LoadIds \ {id} : calls'[i] = calls[i]
        /\ load'[p] = id /\ \A q \in Procs \ {p} : load'[q] = load[q]
        /\ inflight'[key] = id /\ \A r \in Revisions \ {key} : inflight'[r] = inflight[r]
    BY <2>1, <2>2, Zenon DEF LoadInv
  <2>4. ASSUME NEW q \in Procs, pc'[q] = "loading"
        PROVE  load'[q] \in LoadIds /\ calls'[load'[q]].key = pin'[q].revision
    <3>1. CASE q = p
      BY <1>1, <1>2, <2>2, <2>3, <3>1, ZenonT(40)
    <3>2. CASE q # p
      <4>1. load[q] \in LoadIds /\ calls[load[q]].key = pin[q].revision /\ pc[q] = "loading"
        BY <1>2, <2>4, <3>2, Zenon DEF LoadInv
      <4>2. pin[q].revision \in Revisions
        BY <4>1, Zenon DEF PinInv, sessionOK, pinned, resolved
      <4>3. load[q] # id
        BY <2>2, <4>1, <4>2, EngineAssumption, Zenon
      <4> QED
        BY <1>2, <2>3, <3>2, <4>1, <4>3
    <3> QED
      BY <3>1, <3>2
  <2>5. ASSUME NEW r \in Revisions, inflight'[r] # NoLoad
        PROVE  calls'[inflight'[r]].key = r /\ calls'[inflight'[r]].outcome = "running"
    <3>1. CASE r = key
      BY <2>2, <2>3, <3>1, Zenon
    <3>2. CASE r # key
      <4>1. /\ inflight'[r] = inflight[r] /\ inflight[r] \in LoadIds
            /\ calls[inflight[r]].key = r /\ calls[inflight[r]].outcome = "running"
        BY <2>3, <2>5, <3>2 DEF LoadInv
      <4>2. inflight[r] # id
        BY <2>2, <4>1, EngineAssumption, Zenon
      <4> QED
        BY <2>3, <4>1, <4>2, ZenonT(40)
    <3> QED
      BY <3>1, <3>2, Zenon
  <2> QED
    BY <2>3, <2>4, <2>5, Zenon DEF LoadInv
<1> QED
  BY <1>3, <1>4, Zenon

-----------------------------------------------------------------------------
(* The theorems.                                                             *)

\* Every step keeps the sessions in order.
LEMMA PinStep == PinInv /\ LoadInv /\ [Next]_vars => PinInv'
<1> SUFFICES ASSUME PinInv, LoadInv, [Next]_vars PROVE PinInv'
  BY Zenon
<1>1. ASSUME NEW p \in Procs, invokeExtension(p) \/ ExtensionReturns(p) \/ CancelContext(p)
      PROVE  PinInv'
  BY <1>1, PinStutter, Zenon DEF invokeExtension, ExtensionReturns, CancelContext, localVars, storeVars
<1>2. ASSUME NEW port \in Ports, DesertedReturns(port) PROVE PinInv'
  BY <1>2, PinStutter DEF DesertedReturns, localVars, storeVars
<1>3. ASSUME NEW id \in LoadIds, completeRevisionLoad(id) PROVE PinInv'
  BY <1>3, PinStutter DEF completeRevisionLoad, localVars, storeVars
<1>4. ASSUME NEW p \in Procs, ExtensionRefused(p) \/ LeaveExtension(p) \/ LeaveLoad(p)
                              \/ LeaveStore(p) \/ Fault(p)
      PROVE  PinInv'
  BY <1>4, PinReturn, Zenon DEF ExtensionRefused, LeaveExtension, LeaveLoad, LeaveStore, Fault
<1>5. ASSUME NEW p \in Procs, Start(p) \/ ExtensionAnswered(p) \/ resolveRevision(p) \/ Mutate(p)
      PROVE  PinInv'
  BY <1>5, PinStart, PinAnswered, PinResolve, PinMutate
<1>6. ASSUME NEW p \in Procs, GetOrLoad(p) \/ evaluateSessionItem(p) PROVE PinInv'
  BY <1>6, PinOnward, Zenon
<1>7. ASSUME NEW p \in Procs, GetDataGeneration(p) \/ openExactSnapshot(p) \/ CloseSession(p)
      PROVE  PinInv'
  BY <1>7, PinHead, PinOpen, PinClose
<1>8. ASSUME NEW p \in Procs, Hit(p) PROVE PinInv'
  BY <1>8, PinProgram, Zenon DEF Hit, keyOf
<1>9. ASSUME NEW p \in Procs, Loaded(p) PROVE PinInv'
  <2>1. CASE calls[load[p]].outcome = "loaded"
    <3>1. calls[load[p]].key = pin[p].revision /\ pc[p] = "loading"
      BY <1>9 DEF Loaded, LoadInv
    <3> QED
      BY <1>9, <2>1, <3>1, PinProgram DEF Loaded
  <2>2. CASE calls[load[p]].outcome # "loaded"
    BY <1>9, <2>2, PinReturn, Zenon DEF Loaded
  <2> QED
    BY <2>1, <2>2
<1>10. CASE UNCHANGED vars
  BY <1>10, PinStutter, Zenon DEF vars, localVars, storeVars
<1> QED
  BY <1>1, <1>2, <1>3, <1>4, <1>5, <1>6, <1>7, <1>8, <1>9, <1>10 DEF Next, Environment, Step

\* Every step keeps the loads in order.
LEMMA LoadStep == LoadInv /\ PinInv /\ [Next]_vars => LoadInv'
<1> SUFFICES ASSUME LoadInv, PinInv, [Next]_vars PROVE LoadInv'
  BY Zenon
<1>1. ASSUME NEW p \in Procs, invokeExtension(p) \/ ExtensionReturns(p) \/ CancelContext(p)
      PROVE  LoadInv'
  BY <1>1, LoadStutter, Zenon DEF invokeExtension, ExtensionReturns, CancelContext, localVars, cacheVars
<1>2. ASSUME NEW port \in Ports, DesertedReturns(port) PROVE LoadInv'
  BY <1>2, LoadStutter DEF DesertedReturns, localVars, cacheVars
<1>3. ASSUME NEW id \in LoadIds, completeRevisionLoad(id) PROVE LoadInv'
  BY <1>3, LoadCompleted
<1>4. ASSUME NEW p \in Procs, NEW label, label # "loading", UNCHANGED <<inflight, calls, load>>,
             Goto(p, label), \A q \in Procs \ {p} : pin'[q] = pin[q]
      PROVE  LoadInv'
  <2>1. pc'[p] # "loading" /\ \A q \in Procs \ {p} : pc'[q] = pc[q]
    BY <1>4 DEF Goto, PinInv
  <2> QED
    BY <1>4, <2>1, LoadMove, Zenon
<1>5. ASSUME NEW p \in Procs, Fail(p), UNCHANGED cacheVars PROVE LoadInv'
  <2>1. Goto(p, "idle") /\ \A q \in Procs \ {p} : pin'[q] = pin[q]
    BY <1>5 DEF Fail, Return, PinInv
  <2> QED
    BY <1>4, <1>5, <2>1, Zenon DEF cacheVars
<1>6. ASSUME NEW p \in Procs, ExtensionRefused(p) \/ LeaveExtension(p) \/ LeaveStore(p)
                              \/ Fault(p) \/ Mutate(p)
      PROVE  LoadInv'
  BY <1>5, <1>6, Zenon DEF ExtensionRefused, LeaveExtension, LeaveStore, Fault, Mutate
<1>7. ASSUME NEW p \in Procs, Loaded(p) \/ LeaveLoad(p) \/ GetOrLoad(p) PROVE LoadInv'
  BY <1>7, LoadWaited, LoadJoined
<1>8. ASSUME NEW p \in Procs, nextItem(p), UNCHANGED cacheVars PROVE LoadInv'
  <2>1. /\ Goto(p, "evaluate") \/ Goto(p, "close")
        /\ \A q \in Procs \ {p} : pin'[q] = pin[q]
    BY <1>8, Zenon DEF nextItem, PinInv
  <2> QED
    BY <1>4, <1>8, <2>1, Zenon DEF cacheVars
<1>9. ASSUME NEW p \in Procs, ExtensionAnswered(p) PROVE LoadInv'
  <2>1. UNCHANGED cacheVars /\ pc[p] \in Ports
    BY <1>9 DEF ExtensionAnswered
  <2>2. CASE Fail(p)
    BY <1>5, <2>1, <2>2, Zenon
  <2>3. CASE pc[p] = "authorizer" /\ goOn(p)
    <3>1. (Goto(p, "resolve") \/ Goto(p, "mutate")) /\ UNCHANGED pin
      BY <2>3, Zenon DEF goOn
    <3> QED
      BY <1>4, <2>1, <3>1 DEF cacheVars
  <2>4. CASE pc[p] = "delegation" /\ goOn(p)
    <3>1. Goto(p, "evaluate") /\ UNCHANGED pin
      BY <2>4 DEF goOn
    <3> QED
      BY <1>4, <2>1, <3>1 DEF cacheVars
  <2>5. CASE pc[p] = "approval" /\ goOn(p)
    BY <1>8, <2>1, <2>5, Zenon DEF goOn
  <2> QED
    BY <1>9, <2>1, <2>2, <2>3, <2>4, <2>5, Zenon DEF ExtensionAnswered, Ports
<1>10. ASSUME NEW p \in Procs, Start(p) \/ CloseSession(p) PROVE LoadInv'
  <2>1. UNCHANGED <<cacheVars, pin>> /\ (Goto(p, "authorizer") \/ Goto(p, "sink"))
    BY <1>10, Zenon DEF Start, CloseSession
  <2> QED
    BY <1>4, <2>1 DEF cacheVars
<1>11. ASSUME NEW p \in Procs, resolveRevision(p) \/ GetDataGeneration(p) PROVE LoadInv'
  <2>1. /\ UNCHANGED cacheVars /\ \A q \in Procs \ {p} : pin'[q] = pin[q]
        /\ Goto(p, "load") \/ Goto(p, "open")
    BY <1>11, Zenon DEF resolveRevision, GetDataGeneration, PinInv
  <2> QED
    BY <1>4, <2>1, Zenon DEF cacheVars
<1>12. ASSUME NEW p \in Procs, Hit(p) PROVE LoadInv'
  <2>1. /\ UNCHANGED <<inflight, calls, load>> /\ Goto(p, "head")
        /\ \A q \in Procs \ {p} : pin'[q] = pin[q]
    BY <1>12, Zenon DEF Hit, PinInv
  <2> QED
    BY <1>4, <2>1
<1>13. ASSUME NEW p \in Procs, openExactSnapshot(p) PROVE LoadInv'
  <2>1. CASE Fail(p)
    BY <1>5, <1>13, <2>1, Zenon DEF openExactSnapshot
  <2>2. CASE UNCHANGED pin /\ (Goto(p, "delegation") \/ Goto(p, "evaluate"))
    BY <1>4, <1>13, <2>2, Zenon DEF openExactSnapshot, cacheVars
  <2> QED
    BY <1>13, <2>1, <2>2, Zenon DEF openExactSnapshot
<1>14. ASSUME NEW p \in Procs, evaluateSessionItem(p) PROVE LoadInv'
  <2>1. CASE Goto(p, "approval") /\ UNCHANGED pin
    BY <1>4, <1>14, <2>1, Zenon DEF evaluateSessionItem, cacheVars
  <2> QED
    BY <1>5, <1>8, <1>14, <2>1, Zenon DEF evaluateSessionItem
<1>15. CASE UNCHANGED vars
  BY <1>15, LoadStutter DEF vars, localVars, cacheVars
<1> QED
  BY <1>1, <1>2, <1>3, <1>6, <1>7, <1>9, <1>10, <1>11, <1>12, <1>13, <1>14, <1>15
     DEF Next, Environment, Step

\* A decision is about one pinned revision and one snapshot, whatever is activated,
\* written, loaded or evicted while openEvaluationSession and its items run.
THEOREM SessionsPinned == Spec => []SessionsArePinned
<1>1. PinInv => SessionsArePinned
  <2> SUFFICES ASSUME PinInv, NEW p \in Procs
               PROVE  /\ pin[p].program # None => pin[p].program = pin[p].revision
                      /\ pin[p].slotGeneration # 0 =>
                           slotHistory[call[p].slot][pin[p].slotGeneration] = pin[p].revision
                      /\ snapshots[p] # NoCall =>
                           /\ snapshots[p] = pin[p].head /\ pin[p].program # None
                           /\ snapshots[p] <= generation
                           /\ snapshots[p] >= call[p].minimum
    BY Zenon DEF SessionsArePinned
  <2>1. sessionOK(pc[p], call[p], pin[p], snapshots[p], slotHistory, generation)
    BY Zenon DEF PinInv
  <2>2. pinned(pc[p], call[p], pin[p], slotHistory)
    BY <2>1, Zenon DEF sessionOK
  <2>3. viewed(pc[p], call[p], pin[p], snapshots[p], generation)
    BY <2>1, Zenon DEF sessionOK
  <2>4. /\ pin[p].program # None => pin[p].program = pin[p].revision
        /\ pin[p].slotGeneration # 0 =>
             slotHistory[call[p].slot][pin[p].slotGeneration] = pin[p].revision
        /\ pc[p] \in viewing => pin[p].program # None
    BY <2>2, Zenon DEF pinned, loaded
  <2> QED
    BY <2>3, <2>4, Zenon DEF viewed
<1> QED
  BY <1>1, PinInit, PinStep, LoadInit, LoadStep, PTL DEF Spec

-----------------------------------------------------------------------------
(* Extension slots.                                                          *)

INSTANCE FiniteSetTheorems

callersOf(port) == {p \in Procs : pc[p] = port /\ extension[p] = "running"}

\* A goroutine that has something to do with an extension is at its port, and a slot
\* is taken for every extension that runs.
SlotInv ==
  /\ pc = [p \in Procs |-> pc[p]]
  /\ extension \in [Procs -> {"none", "running", "answered"}]
  /\ \A p \in Procs : extension[p] # "none" => pc[p] \in Ports
  /\ running \in [Ports -> Nat] /\ deserted \in [Ports -> Nat]
  /\ \A port \in Ports :
       /\ running[port] <= MaxCallsPerPort
       /\ running[port] = deserted[port] + Cardinality(callersOf(port))

\* The callers of a port are finitely many.
LEMMA CallersCounted ==
  ASSUME NEW port
  PROVE  IsFiniteSet(callersOf(port)) /\ Cardinality(callersOf(port)) \in Nat
<1>1. callersOf(port) \subseteq Procs
  BY Zenon DEF callersOf
<1>2. IsFiniteSet(callersOf(port))
  BY <1>1, EngineAssumption, FS_Subset, Zenon
<1> QED
  BY <1>2, FS_CardinalityType, Zenon

\* Nobody calls an extension at first.
LEMMA SlotInit == Init => SlotInv
<1> SUFFICES ASSUME Init PROVE SlotInv
  OBVIOUS
<1>1. \A port \in Ports : callersOf(port) = {}
  BY Zenon DEF Init, callersOf
<1>2. \A port \in Ports : Cardinality(callersOf(port)) = 0
  BY <1>1, FS_EmptySet, Zenon
<1>3. pc = [p \in Procs |-> pc[p]] /\ extension = [p \in Procs |-> "none"]
      /\ running = [port \in Ports |-> 0] /\ deserted = [port \in Ports |-> 0]
  BY Zenon DEF Init
<1> QED
  BY <1>2, <1>3, EngineAssumption DEF SlotInv

\* A step of a goroutine whose extension call is over or not begun, wherever it goes.
LEMMA SlotMove ==
  ASSUME SlotInv, NEW p \in Procs, NEW label, extension[p] # "running",
         pc' = [pc EXCEPT ![p] = label], UNCHANGED <<running, deserted>>,
         \/ extension' = [extension EXCEPT ![p] = "none"]
         \/ extension' = extension /\ extension[p] = "none"
  PROVE  SlotInv'
<1>1. /\ pc' = [q \in Procs |-> pc'[q]]
      /\ extension' \in [Procs -> {"none", "running", "answered"}]
      /\ extension'[p] = "none"
      /\ \A q \in Procs \ {p} : pc'[q] = pc[q] /\ extension'[q] = extension[q]
  BY Zenon DEF SlotInv
<1>2. \A port \in Ports : callersOf(port)' = callersOf(port)
  BY <1>1, Zenon DEF callersOf
<1>3. \A q \in Procs : extension'[q] # "none" => pc'[q] \in Ports
  BY <1>1, Zenon DEF SlotInv
<1> QED
  BY <1>1, <1>2, <1>3, Zenon DEF SlotInv

\* A step that leaves goroutines and extensions where they are.
LEMMA SlotStutter ==
  ASSUME SlotInv, UNCHANGED <<pc, running, deserted, extension>>
  PROVE  SlotInv'
BY ZenonT(40) DEF SlotInv, callersOf

\* A slot is taken.
LEMMA SlotTaken ==
  ASSUME SlotInv, NEW p \in Procs, invokeExtension(p)
  PROVE  SlotInv'
<1>1. PICK port \in Ports :
      /\ pc[p] = port /\ extension[p] = "none" /\ running[port] < MaxCallsPerPort
      /\ UNCHANGED <<pc, deserted>>
      /\ running' = [running EXCEPT ![port] = @ + 1]
      /\ extension' = [extension EXCEPT ![p] = "running"]
  BY Zenon DEF invokeExtension, localVars
<1>2. /\ extension' \in [Procs -> {"none", "running", "answered"}] /\ running' \in [Ports -> Nat]
      /\ pc' = [q \in Procs |-> pc'[q]]
      /\ \A q \in Procs : extension'[q] # "none" => pc'[q] \in Ports
  BY <1>1 DEF SlotInv
<1>3. callersOf(port)' = callersOf(port) \cup {p} /\ p \notin callersOf(port)
  BY <1>1, Zenon DEF callersOf, SlotInv
<1>4. \A other \in Ports \ {port} : callersOf(other)' = callersOf(other)
  BY <1>1, Zenon DEF callersOf, SlotInv
<1>5. Cardinality(callersOf(port)') = Cardinality(callersOf(port)) + 1
  BY <1>3, CallersCounted, FS_AddElement, Zenon
<1>6. /\ running'[port] = running[port] + 1
      /\ \A other \in Ports \ {port} : running'[other] = running[other]
  BY <1>1, Zenon DEF SlotInv
<1>7. /\ running'[port] <= MaxCallsPerPort
      /\ running'[port] = deserted[port] + Cardinality(callersOf(port)')
  BY <1>1, <1>5, <1>6, EngineAssumption, CallersCounted DEF SlotInv
<1>8. \A other \in Ports : /\ running'[other] <= MaxCallsPerPort
                           /\ running'[other] = deserted'[other] + Cardinality(callersOf(other)')
  BY <1>1, <1>4, <1>6, <1>7 DEF SlotInv
<1> QED
  BY <1>1, <1>2, <1>8 DEF SlotInv

\* The extension's goroutine is done; its caller is still there.
LEMMA SlotReturned ==
  ASSUME SlotInv, NEW p \in Procs, ExtensionReturns(p)
  PROVE  SlotInv'
<1>1. PICK port \in Ports :
      /\ pc[p] = port /\ extension[p] = "running"
      /\ UNCHANGED <<pc, deserted>>
      /\ running' = [running EXCEPT ![port] = @ - 1]
      /\ extension' = [extension EXCEPT ![p] = "answered"]
  BY Zenon DEF ExtensionReturns, localVars, SlotInv
<1>2. callersOf(port)' = callersOf(port) \ {p} /\ p \in callersOf(port)
  BY <1>1, Zenon DEF callersOf, SlotInv
<1>3. \A other \in Ports \ {port} : callersOf(other)' = callersOf(other)
  BY <1>1, Zenon DEF callersOf, SlotInv
<1>4. /\ Cardinality(callersOf(port)') = Cardinality(callersOf(port)) - 1
      /\ Cardinality(callersOf(port)') \in Nat
  BY <1>2, CallersCounted, FS_RemoveElement, FS_CardinalityType
<1>5. /\ running'[port] = running[port] - 1
      /\ \A other \in Ports \ {port} : running'[other] = running[other]
      /\ running[port] = deserted[port] + Cardinality(callersOf(port))
      /\ running[port] <= MaxCallsPerPort /\ running[port] \in Nat /\ deserted[port] \in Nat
  BY <1>1 DEF SlotInv
<1>6. /\ running'[port] \in Nat /\ running'[port] <= MaxCallsPerPort
      /\ running'[port] = deserted[port] + Cardinality(callersOf(port)')
  <2>1. Cardinality(callersOf(port)) \in Nat /\ MaxCallsPerPort \in Nat
    BY EngineAssumption, CallersCounted, Zenon
  <2> QED
    BY <1>4, <1>5, <2>1
<1>7. /\ extension' \in [Procs -> {"none", "running", "answered"}] /\ running' \in [Ports -> Nat]
      /\ pc' = [q \in Procs |-> pc'[q]]
      /\ \A q \in Procs : extension'[q] # "none" => pc'[q] \in Ports
  BY <1>1, <1>5, <1>6 DEF SlotInv
<1>8. \A other \in Ports : /\ running'[other] <= MaxCallsPerPort
                           /\ running'[other] = deserted'[other] + Cardinality(callersOf(other)')
  BY <1>1, <1>3, <1>5, <1>6 DEF SlotInv
<1> QED
  BY <1>1, <1>7, <1>8 DEF SlotInv

\* A caller leaves; the extension it deserts keeps its slot.
LEMMA SlotDeserted ==
  ASSUME SlotInv, NEW p \in Procs, LeaveExtension(p)
  PROVE  SlotInv'
<1>1. CASE extension[p] # "running"
  <2>1. /\ pc' = [pc EXCEPT ![p] = "idle"] /\ UNCHANGED <<running, deserted>>
        /\ extension' = [extension EXCEPT ![p] = "none"]
    BY <1>1, Zenon DEF LeaveExtension, Fail, Return, Goto
  <2> QED
    BY <1>1, <2>1, SlotMove, Zenon
<1>2. CASE extension[p] = "running"
  <2>1. PICK port \in Ports :
        /\ pc[p] = port
        /\ pc' = [pc EXCEPT ![p] = "idle"] /\ UNCHANGED running
        /\ deserted' = [deserted EXCEPT ![port] = @ + 1]
        /\ extension' = [extension EXCEPT ![p] = "none"]
    BY <1>2, Zenon DEF LeaveExtension, Fail, Return, Goto, SlotInv
  <2>2. callersOf(port)' = callersOf(port) \ {p} /\ p \in callersOf(port)
    BY <1>2, <2>1, Zenon DEF callersOf, SlotInv
  <2>3. \A other \in Ports \ {port} : callersOf(other)' = callersOf(other)
    BY <2>1, Zenon DEF callersOf, SlotInv
  <2>4. /\ Cardinality(callersOf(port)') = Cardinality(callersOf(port)) - 1
        /\ Cardinality(callersOf(port)') \in Nat
    BY <2>2, CallersCounted, FS_RemoveElement, FS_CardinalityType
  <2>5. /\ deserted'[port] = deserted[port] + 1 /\ deserted[port] \in Nat
        /\ \A other \in Ports \ {port} : deserted'[other] = deserted[other]
        /\ running[port] = deserted[port] + Cardinality(callersOf(port))
    BY <2>1, ZenonT(40) DEF SlotInv
  <2>6. running[port] = deserted'[port] + Cardinality(callersOf(port)')
    BY <2>4, <2>5, CallersCounted
  <2>7. /\ extension' \in [Procs -> {"none", "running", "answered"}] /\ deserted' \in [Ports -> Nat]
        /\ pc' = [q \in Procs |-> pc'[q]]
        /\ \A q \in Procs : extension'[q] # "none" => pc'[q] \in Ports
    BY <2>1, <2>5 DEF SlotInv
  <2>8. \A other \in Ports : /\ running'[other] <= MaxCallsPerPort
                             /\ running'[other] = deserted'[other] + Cardinality(callersOf(other)')
    BY <2>1, <2>3, <2>5, <2>6 DEF SlotInv
  <2> QED
    BY <2>1, <2>7, <2>8 DEF SlotInv
<1> QED
  BY <1>1, <1>2

\* A deserted extension is done.
LEMMA SlotFreed ==
  ASSUME SlotInv, NEW port \in Ports, DesertedReturns(port)
  PROVE  SlotInv'
<1>1. /\ deserted[port] > 0 /\ UNCHANGED <<pc, extension>>
      /\ deserted' = [deserted EXCEPT ![port] = @ - 1]
      /\ running' = [running EXCEPT ![port] = @ - 1]
  BY Zenon DEF DesertedReturns, localVars
<1>2. \A other \in Ports : callersOf(other)' = callersOf(other)
  BY <1>1, Zenon DEF callersOf
<1>3. /\ deserted'[port] = deserted[port] - 1 /\ running'[port] = running[port] - 1
      /\ \A other \in Ports \ {port} :
           deserted'[other] = deserted[other] /\ running'[other] = running[other]
      /\ running[port] = deserted[port] + Cardinality(callersOf(port))
      /\ running[port] <= MaxCallsPerPort /\ running[port] \in Nat /\ deserted[port] \in Nat
  BY <1>1, Zenon DEF SlotInv
<1>4. /\ deserted'[port] \in Nat /\ running'[port] \in Nat /\ running'[port] <= MaxCallsPerPort
      /\ running'[port] = deserted'[port] + Cardinality(callersOf(port))
  BY <1>1, <1>3, EngineAssumption, CallersCounted
<1>5. running' \in [Ports -> Nat] /\ deserted' \in [Ports -> Nat]
  BY <1>1, <1>4, Zenon DEF SlotInv
<1>6. \A other \in Ports : /\ running'[other] <= MaxCallsPerPort
                           /\ running'[other] = deserted'[other] + Cardinality(callersOf(other)')
  BY <1>2, <1>3, <1>4, ZenonT(40) DEF SlotInv
<1> QED
  BY <1>1, <1>5, <1>6 DEF SlotInv

\* Every step keeps the account of the slots.
LEMMA SlotStep == SlotInv /\ [Next]_vars => SlotInv'
<1> SUFFICES ASSUME SlotInv, [Next]_vars PROVE SlotInv'
  BY Zenon
<1> USE DEF Goto, Fail, Return, extensionVars, localVars
<1>1. ASSUME NEW p \in Procs, invokeExtension(p) \/ ExtensionReturns(p) \/ LeaveExtension(p)
      PROVE  SlotInv'
  BY <1>1, SlotTaken, SlotReturned, SlotDeserted, Zenon
<1>2. ASSUME NEW port \in Ports, DesertedReturns(port) PROVE SlotInv'
  BY <1>2, SlotFreed
<1>3. ASSUME NEW p \in Procs, ExtensionRefused(p) PROVE SlotInv'
  BY <1>3, SlotMove, Zenon DEF ExtensionRefused
<1>4. ASSUME NEW p \in Procs, ExtensionAnswered(p) PROVE SlotInv'
  <2>1. PICK label : pc' = [pc EXCEPT ![p] = label]
    <3>1. CASE pc[p] # "sink" /\ goOn(p)
      <4>1. pc[p] \in {"authorizer", "delegation", "approval"}
        BY <1>4, <3>1 DEF ExtensionAnswered, SlotInv, Ports
      <4> QED
        BY <3>1, <4>1, Zenon DEF goOn, nextItem
    <3>2. CASE Fail(p)
      BY <3>2, Zenon
    <3> QED
      BY <1>4, <3>1, <3>2 DEF ExtensionAnswered
  <2>2. /\ extension[p] = "answered" /\ UNCHANGED <<running, deserted>>
        /\ extension' = [extension EXCEPT ![p] = "none"]
    BY <1>4 DEF ExtensionAnswered
  <2> QED
    BY <2>1, <2>2, SlotMove, Zenon
<1>5. ASSUME NEW p \in Procs, UNCHANGED extensionVars, pc[p] \notin Ports,
             NEW label, pc' = [pc EXCEPT ![p] = label]
      PROVE  SlotInv'
  <2>1. extension[p] = "none"
    BY <1>5 DEF SlotInv
  <2> QED
    BY <1>5, <2>1, SlotMove, Zenon
<1>6. ASSUME NEW p \in Procs, Start(p) \/ Fault(p) \/ LeaveStore(p) \/ Mutate(p) PROVE SlotInv'
  BY <1>5, <1>6, Zenon DEF Start, Fault, LeaveStore, Mutate, Ports
<1>7. ASSUME NEW p \in Procs, resolveRevision(p) \/ Hit(p) \/ GetOrLoad(p)
                              \/ Loaded(p) \/ LeaveLoad(p)
      PROVE  SlotInv'
  BY <1>5, <1>7, Zenon DEF resolveRevision, Hit, GetOrLoad, Loaded, LeaveLoad, Ports
<1>8. ASSUME NEW p \in Procs, GetDataGeneration(p) \/ openExactSnapshot(p)
                              \/ evaluateSessionItem(p) \/ CloseSession(p)
      PROVE  SlotInv'
  BY <1>5, <1>8
     DEF GetDataGeneration, openExactSnapshot, evaluateSessionItem, nextItem, CloseSession, Ports
<1>9. ASSUME NEW p \in Procs, CancelContext(p) PROVE SlotInv'
  BY <1>9, SlotStutter, Zenon DEF CancelContext
<1>10. ASSUME NEW id \in LoadIds, completeRevisionLoad(id) PROVE SlotInv'
  BY <1>10, SlotStutter, Zenon DEF completeRevisionLoad
<1>11. CASE UNCHANGED vars
  BY <1>11, SlotStutter DEF vars
<1> QED
  BY <1>1, <1>2, <1>3, <1>4, <1>6, <1>7, <1>8, <1>9, <1>10, <1>11
     DEF Next, Environment, Step

\* No error path of invocation.go, check.go or batch.go keeps an extension slot or a
\* snapshot too long or gives one back too often, whoever leaves when.
THEOREM ResourcesExact == Spec => []ResourcesHeldExactly
<1>1. SlotInv /\ PinInv => ResourcesHeldExactly
  <2> SUFFICES ASSUME SlotInv, PinInv PROVE ResourcesHeldExactly
    OBVIOUS
  <2>1. \A port \in Ports :
          /\ running[port] <= MaxCallsPerPort
          /\ running[port] = deserted[port]
               + Cardinality({p \in Procs : pc[p] = port /\ extension[p] = "running"})
    BY Zenon DEF SlotInv, callersOf
  <2>2. \A p \in Procs : snapshots[p] # NoCall <=>
          pc[p] \in {"delegation", "evaluate", "approval", "close"}
    BY DEF PinInv, sessionOK, viewed, viewing
  <2> QED
    BY <2>1, <2>2, Zenon DEF ResourcesHeldExactly
<1> QED
  BY <1>1, SlotInit, SlotStep, PinInit, PinStep, LoadInit, LoadStep, PTL DEF Spec

=============================================================================
