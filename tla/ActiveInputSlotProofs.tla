----------------------- MODULE ActiveInputSlotProofs -----------------------
(***************************************************************************)
(* Proofs about ActiveInputSlot, for any processes, owners, workflows,     *)
(* keys and bounds.  The rows first: which rows an operator builds and     *)
(* which rows the transaction lets through.  Then what one step of the     *)
(* system can do to the row, and from it the invariants.                   *)
(***************************************************************************)
EXTENDS ActiveInputSlot, TLAPS

-----------------------------------------------------------------------------
(* Rows.                                                                   *)

\* The values the row operators put into a field.
LEMMA FieldTypes ==
    /\ {"empty", "opening", "active", "switch_pending", "recovering"} \subseteq States
    /\ 0 \in 0 .. TTL /\ TTL \in 0 .. TTL
    /\ \A row \in Row : row.revision + 1 \in Nat /\ row.fence + 1 \in Nat
    /\ \A row \in Row : row.lease # 0 => row.lease - 1 \in 0 .. TTL
BY TTLAssumption DEF States, Row

\* The migration seeds a well-formed row.
LEMMA InitialRowType == InitialRow \in Row
BY FieldTypes DEF InitialRow, Row

\* Closing a row keeps it well formed.
LEMMA EmptyRowType ==
    ASSUME NEW row \in Row
    PROVE  EmptyRow(row) \in Row
BY FieldTypes, Zenon DEF EmptyRow, Row

\* Claiming a row for recovery keeps it well formed.
LEMMA RecoveringRowType ==
    ASSUME NEW row \in Row, NEW p \in Process
    PROVE  RecoveringRow(row, p) \in Row
BY FieldTypes, Zenon DEF RecoveringRow, Row

\* Restoring the committed input keeps the row well formed.
LEMMA RestoredRowType ==
    ASSUME NEW row \in Row
    PROVE  RestoredRow(row) \in Row
<1>1. CASE row.workflow = None
  BY <1>1, EmptyRowType DEF RestoredRow
<1>2. CASE row.workflow # None
  <2>1. (IF row.reserved THEN None ELSE row.key) \in Key \cup {None}
    BY DEF Row
  <2>2. [row EXCEPT !.state = "active", !.revision = @ + 1, !.reserved = FALSE,
                    !.key = IF row.reserved THEN None ELSE @] \in Row
    BY <2>1, FieldTypes, Zenon DEF Row
  <2> QED
    BY <1>2, <2>2 DEF RestoredRow
<1> QED
  BY <1>1, <1>2

\* A reservation is well formed.
LEMMA ReservedRowType ==
    ASSUME NEW row \in Row, NEW p \in Process, NEW owner \in Owner, NEW key \in Key
    PROVE  ReservedRow(row, p, owner, key) \in Row
<1>1. (IF row.state = "empty" THEN "opening" ELSE "switch_pending") \in States
  BY FieldTypes
<1>2. (IF row.state = "empty" THEN row.fence + 1 ELSE row.fence) \in Nat
  BY DEF Row
<1> QED
  BY <1>1, <1>2, FieldTypes, Zenon DEF ReservedRow, Row

\* A committed row is well formed.
LEMMA CommittedRowType ==
    ASSUME NEW row \in Row, NEW w \in Workflow
    PROVE  CommittedRow(row, w) \in Row
BY FieldTypes, Zenon DEF CommittedRow, Row

\* A rolled back row is well formed.
LEMMA RolledBackRowType ==
    ASSUME NEW prior \in Row, NEW pending \in Row
    PROVE  RolledBackRow(prior, pending) \in Row
<1>1. (IF prior.state = "empty" THEN 0 ELSE TTL) \in 0 .. TTL
  BY FieldTypes
<1> QED
  BY <1>1, FieldTypes, Zenon DEF RolledBackRow, Row

\* A row whose lease is set, or has run for one tick, is well formed.
LEMMA LeaseType ==
    ASSUME NEW row \in Row
    PROVE  /\ \A lease \in {0, TTL} : [row EXCEPT !.lease = lease] \in Row
           /\ Snapshot(row) \in Row
           /\ Elapse(row) \in Row
BY FieldTypes DEF Snapshot, Elapse, Live, Row

\* What transitionActiveInput accepts either acquires the row, which was empty
\* or expired, under the next fence, or stays within its tenure.
LEMMA AcceptedTenure ==
    ASSUME NEW row \in Row, NEW expected \in Row, NEW next \in Row,
           NEW active, NEW isolated, NEW blocking,
           TransitionAccepted(row, expected, next, active, isolated, blocking)
    PROVE  \/ Acquirable(row) /\ next.fence = row.fence + 1
           \/ TenureKept(row, next)
BY DEF TransitionAccepted, AcquisitionValid

\* What transitionActiveInput accepts changes the workflow of the row only when
\* no operation is active.
LEMMA AcceptedWorkflow ==
    ASSUME NEW row \in Row, NEW expected \in Row, NEW next \in Row,
           NEW active, NEW isolated, NEW blocking,
           TransitionAccepted(row, expected, next, active, isolated, blocking)
    PROVE  next.workflow = row.workflow \/ active = {}
BY DEF TransitionAccepted, OperationsPermit, ShapeValid, RestoringOwnedInput

\* A claim for recovery leaves the effects as they are; everything else is
\* refused while an effect blocks, or while one of either workflow is isolated.
LEMMA AcceptedEffects ==
    ASSUME NEW row \in Row, NEW expected \in Row, NEW next \in Row,
           NEW active, NEW isolated, NEW blocking,
           TransitionAccepted(row, expected, next, active, isolated, blocking)
    PROVE  \/ row.state # "empty" /\ next.workflow = row.workflow
              /\ next.state \in {"recovering", "active"}
           \/ blocking = {} /\ isolated \cap {row.workflow, next.workflow} = {}
BY DEF TransitionAccepted, EffectsPermit, ShapeValid, RestoringOwnedInput,
       AcquisitionValid, TenureKept

\* An active or pending row names a workflow, if the row before it did.
LEMMA AcceptedInput ==
    ASSUME NEW row \in Row, NEW expected \in Row, NEW next \in Row,
           NEW active, NEW isolated, NEW blocking,
           TransitionAccepted(row, expected, next, active, isolated, blocking)
    PROVE  /\ next.state = "active" => next.workflow # None
           /\ next.state = "switch_pending" =>
                 row.state = "active" /\ next.workflow = row.workflow
BY DEF TransitionAccepted, ShapeValid

-----------------------------------------------------------------------------
(* Types.                                                                  *)

\* The part of TypeOK about the calls.
ProcOK ==
    /\ proc \in [Process -> Calls]
    /\ \A p \in Process :
          /\ proc[p].at \in OpenPoints => proc[p].caller = "open"
          /\ proc[p].caller = "open" => proc[p].request # None

\* What TypeOK says of one call: inside OpenInput it carries its request.
LEMMA CallFacts ==
    ASSUME TypeOK, NEW p \in Process
    PROVE  /\ proc[p].row \in Row
           /\ proc[p].caller \in Callers
           /\ proc[p].request \in Requests \cup {None}
           /\ proc[p].at \in OpenPoints =>
                 /\ proc[p].caller = "open"
                 /\ proc[p].request \in [owner : Owner, source : Source, key : Key]
BY RequestsAssumption DEF TypeOK, Calls

\* Returning from a call keeps the calls well formed.
LEMMA ReturnType ==
    ASSUME TypeOK, NEW p \in Process, Return(p)
    PROVE  ProcOK'
<1>1. NoCall \in Calls
  BY InitialRowType DEF NoCall, Calls, Points, Callers
<1>2. NoCall.at \notin OpenPoints /\ NoCall.caller # "open"
  BY DEF NoCall, OpenPoints
<1>3. proc' \in [Process -> Calls]
  BY <1>1 DEF TypeOK, Return
<1>4. \A q \in Process : proc'[q] = IF q = p THEN NoCall ELSE proc[q]
  BY DEF TypeOK, Return
<1> QED
  BY <1>2, <1>3, <1>4 DEF TypeOK, ProcOK

\* So does moving on inside a call, as long as only OpenInput enters its points.
LEMMA GotoType ==
    ASSUME TypeOK, NEW p \in Process, NEW point \in Points, NEW row \in Row,
           point \in OpenPoints => proc[p].caller = "open",
           Goto(p, point, row)
    PROVE  ProcOK'
<1>1. proc' = [proc EXCEPT ![p] = [proc[p] EXCEPT !.at = point, !.row = row]]
  BY DEF TypeOK, Goto
<1>2. \A c \in Calls : [c EXCEPT !.at = point, !.row = row] \in Calls
  BY Zenon DEF Calls
<1>3. /\ proc'[p].at = point /\ proc'[p].caller = proc[p].caller
      /\ proc'[p].request = proc[p].request
  BY <1>1 DEF TypeOK, Calls
<1> QED
  BY <1>1, <1>2, <1>3 DEF TypeOK, ProcOK

\* So does entering a call.
LEMMA EnterType ==
    ASSUME TypeOK, NEW p \in Process, NEW point \in Points, NEW row \in Row,
           NEW request \in Requests \cup {None}, NEW caller \in Callers,
           point \in OpenPoints => caller = "open",
           caller = "open" => request # None,
           Enter(p, point, row, request, caller)
    PROVE  ProcOK'
BY DEF TypeOK, ProcOK, Enter, Calls

\* A heartbeat is set to a fence.
LEMMA HeartbeatType ==
    ASSUME TypeOK, NEW p \in Process, NEW fence \in Nat, SetHeartbeat(p, fence)
    PROVE  coord' \in [Process -> Coordinators]
BY DEF TypeOK, SetHeartbeat, Coordinators

\* The fields of a coordinator may be set to any of their values.
LEMMA CoordinatorFields ==
    ASSUME NEW c \in Coordinators
    PROVE  /\ \A reset \in {"no", "pending", "done"}, settled \in {"no", "ordinary", "startup"} :
                 [c EXCEPT !.reset = reset, !.settled = settled] \in Coordinators
           /\ \A reset \in {"no", "pending", "done"}, startup \in BOOLEAN :
                 [c EXCEPT !.reset = reset, !.startup = startup] \in Coordinators
           /\ [c EXCEPT !.reset = "done", !.heartbeat = 0] \in Coordinators
           /\ [c EXCEPT !.stopping = TRUE, !.heartbeat = 0] \in Coordinators
<1>1. 0 \in Nat /\ TRUE \in BOOLEAN
  OBVIOUS
<1> QED
  BY <1>1, Zenon DEF Coordinators

\* An unresolved effect stays unresolved and of its kind when it becomes
\* uncertain, and no effect becomes none.
LEMMA UncertainFacts ==
    ASSUME NEW e \in Effects
    PROVE  /\ Uncertain(e) \in Effects
           /\ Uncertain(e) = "none" <=> e = "none"
           /\ Uncertain(e) \in {"site_started", "site_unknown"}
                 <=> e \in {"site_started", "site_unknown"}
BY DEF Uncertain, Effects

\* Recovering an operation keeps the operations and the effects well formed.
LEMMA RecoverOpType ==
    ASSUME TypeOK, NEW p \in Process, NEW w \in Workflow, NEW fence \in Nat,
           RecoverOp(p, fence, w)
    PROVE  /\ op' \in [Workflow -> Operations \cup {None}]
           /\ effect' \in [Workflow -> Effects]
<1>1. effect' = [effect EXCEPT ![w] = Uncertain(@)] \/ UNCHANGED effect
  BY DEF RecoverOp, InterruptOp, ResumeOp
<1>2. \/ op' = [op EXCEPT ![w] = None]
      \/ op' = [op EXCEPT ![w] = [epoch |-> p, fence |-> fence, running |-> ~coord[p].stopping]]
  BY DEF RecoverOp, InterruptOp, ResumeOp
<1>3. [epoch |-> p, fence |-> fence, running |-> ~coord[p].stopping] \in Operations
  BY DEF Operations
<1> QED
  BY <1>1, <1>2, <1>3, UncertainFacts DEF TypeOK

\* The steps of recoverActiveInput keep the types.
LEMMA RecoveryType ==
    ASSUME TypeOK, NEW p \in Process,
           \/ Claim(p) \/ Restore(p) \/ Settle(p) \/ SettleFails(p) \/ DeferOp(p) \/ Detach(p)
           \/ \E w \in Workflow : SettleOp(p, w)
    PROVE  TypeOK'
<1> DEFINE row == proc[p].row
<1>1. row \in Row /\ row.fence \in Nat
  BY CallFacts DEF Row
<1>2. CASE Claim(p)
  <2> DEFINE next == RecoveringRow(row, p)
  <2>1. next \in Row /\ next.fence \in Nat
    BY <1>1, RecoveringRowType DEF Row
  <2>2. slot' \in Row
    BY <1>2, <2>1 DEF Claim, TypeOK
  <2>3. ProcOK'
    <3>1. Return(p) \/ Goto(p, "restore", next)
      BY <1>2 DEF Claim
    <3>2. "restore" \in Points \ OpenPoints
      BY DEF Points, OpenPoints
    <3> HIDE DEF next
    <3> QED
      BY <2>1, <3>1, <3>2, ReturnType, GotoType
  <2>4. coord' \in [Process -> Coordinators]
    <3>1. UNCHANGED coord \/ \E fence \in Nat : SetHeartbeat(p, fence)
      BY <1>2, <2>1 DEF Claim
    <3> QED
      BY <3>1, HeartbeatType DEF TypeOK
  <2>5. faults' \in Nat
    BY <1>2 DEF Claim, SwapFails, Fail, TypeOK
  <2> QED
    BY <1>2, <2>2, <2>3, <2>4, <2>5 DEF Claim, TypeOK, ProcOK
<1>3. CASE Restore(p)
  <2> DEFINE next == RestoredRow(row)
  <2>1. next \in Row /\ Snapshot(next) \in Row
    BY <1>1, RestoredRowType, LeaseType
  <2>2. slot' \in Row /\ faults' \in Nat
    BY <1>3, <2>1 DEF Restore, SwapFails, Fail, TypeOK
  <2>3. ProcOK'
    <3>1. Return(p) \/ Goto(p, "settle", Snapshot(next))
      BY <1>3 DEF Restore
    <3>2. "settle" \in Points \ OpenPoints
      BY DEF Points, OpenPoints
    <3> HIDE DEF next
    <3> QED
      BY <2>1, <3>1, <3>2, ReturnType, GotoType
  <2>4. coord' \in [Process -> Coordinators]
    <3>1. (coord[p].startup \/ Starting(p)) \in BOOLEAN
      OBVIOUS
    <3>2. UNCHANGED coord \/ \E b \in BOOLEAN : coord' = [coord EXCEPT ![p].startup = b]
      BY <1>3, <3>1 DEF Restore
    <3> QED
      BY <3>2 DEF TypeOK, Coordinators
  <2> QED
    BY <1>3, <2>2, <2>3, <2>4 DEF Restore, TypeOK, ProcOK
<1>4. CASE Settle(p)
  <2>1. ProcOK'
    <3>1. AfterRecovery(p) /\ {"detach", "admit", "close_own"} \subseteq Points /\ "close_own" \notin OpenPoints
      BY <1>4 DEF Settle, Points, OpenPoints
    <3>2. \/ Return(p)
          \/ \E point \in {"detach", "admit"} : proc[p].caller = "open" /\ Goto(p, point, row)
          \/ Goto(p, "close_own", row)
      BY <3>1 DEF AfterRecovery
    <3> QED
      BY <1>1, <3>1, <3>2, ReturnType, GotoType
  <2>2. coord' \in [Process -> Coordinators]
    <3> DEFINE finished == \/ proc[p].caller = "startup_only"
                           \/ Starting(p) /\ row.state = "empty"
               reset == IF finished THEN "done" ELSE coord[p].reset
               settled == IF Recovered(p) THEN coord[p].settled
                          ELSE IF coord[p].startup THEN "startup" ELSE "ordinary"
               c == [coord[p] EXCEPT !.reset = reset, !.settled = settled]
    <3>1. coord' = [coord EXCEPT ![p] = c]
      BY <1>4, Zenon DEF Settle
    <3>2. coord[p] \in Coordinators
      BY DEF TypeOK
    <3>3. reset \in {"no", "pending", "done"} /\ settled \in {"no", "ordinary", "startup"}
      BY <3>2 DEF Coordinators
    <3> HIDE DEF reset, settled
    <3>4. c \in Coordinators
      BY <3>2, <3>3, CoordinatorFields
    <3> HIDE DEF c
    <3> QED
      BY <3>1, <3>4 DEF TypeOK
  <2> QED
    BY <1>4, <2>1, <2>2 DEF Settle, TypeOK, ProcOK
<1>5. CASE SettleFails(p)
  <2>1. ProcOK'
    BY <1>5, ReturnType DEF SettleFails
  <2>2. \/ UNCHANGED <<op, effect>>
        \/ \E w \in Workflow :
              /\ op' = [op EXCEPT ![w] = [epoch |-> p, fence |-> row.fence, running |-> FALSE]]
              /\ effect' = [effect EXCEPT ![w] = Uncertain(@)]
    BY <1>5 DEF SettleFails, ForeignOps, ActiveOps
  <2>3. [epoch |-> p, fence |-> row.fence, running |-> FALSE] \in Operations
    BY <1>1 DEF Operations
  <2>4. op' \in [Workflow -> Operations \cup {None}] /\ effect' \in [Workflow -> Effects]
    <3>1. CASE UNCHANGED <<op, effect>>
      BY <3>1 DEF TypeOK
    <3>2. ASSUME NEW w \in Workflow,
                 op' = [op EXCEPT ![w] = [epoch |-> p, fence |-> row.fence, running |-> FALSE]],
                 effect' = [effect EXCEPT ![w] = Uncertain(@)]
          PROVE  op' \in [Workflow -> Operations \cup {None}] /\ effect' \in [Workflow -> Effects]
      BY <2>3, <3>2, UncertainFacts DEF TypeOK
    <3> QED
      BY <2>2, <3>1, <3>2
  <2>5. faults' \in Nat
    <3>1. UNCHANGED faults \/ Fail
      BY <1>5, Zenon DEF SettleFails
    <3> QED
      BY <3>1 DEF Fail, TypeOK
  <2> QED
    BY <1>5, <2>1, <2>4, <2>5 DEF SettleFails, TypeOK, ProcOK
<1>6. CASE DeferOp(p)
  <2>1. coord' \in [Process -> Coordinators]
    BY <1>1, <1>6 DEF DeferOp, TypeOK, Coordinators
  <2> QED
    BY <1>6, <2>1 DEF DeferOp, TypeOK
<1>7. CASE Detach(p)
  <2> DEFINE next == EmptyRow(row)
  <2>1. next \in Row
    BY <1>1, EmptyRowType
  <2>2. slot' \in Row /\ faults' \in Nat /\ published' \in Commitments \cup {None}
    BY <1>7, <2>1 DEF Detach, SwapFails, Fail, TypeOK
  <2>3. ProcOK'
    <3>1. Return(p) \/ Goto(p, "admit", next)
      BY <1>7 DEF Detach
    <3>2. "admit" \in Points /\ proc[p].caller = "open"
      BY <1>7, CallFacts DEF Detach, Call, Points, OpenPoints
    <3> HIDE DEF next
    <3> QED
      BY <2>1, <3>1, <3>2, ReturnType, GotoType
  <2> QED
    BY <1>7, <2>2, <2>3 DEF Detach, TypeOK, ProcOK
<1>8. ASSUME NEW w \in Workflow, SettleOp(p, w)
      PROVE  TypeOK'
  BY <1>1, <1>8, RecoverOpType DEF SettleOp, TypeOK
<1> QED
  BY <1>2, <1>3, <1>4, <1>5, <1>6, <1>7, <1>8

\* The steps of OpenInput keep the types.
LEMMA OpenType ==
    ASSUME TypeOK, NEW p \in Process,
           \/ \E request \in Requests : OpenInput(p, request)
           \/ Reserve(p) \/ Refuse(p) \/ Join(p) \/ Drain(p) \/ Abort(p)
           \/ \E w \in Workflow : Commit(p, w)
           \/ CommitRejected(p) \/ Unwind(p) \/ Relinquish(p)
    PROVE  TypeOK'
<1> DEFINE row == proc[p].row
<1>1. /\ row \in Row /\ slot \in Row
      /\ Snapshot(slot) \in Row
      /\ \A lease \in {0, TTL} : [slot EXCEPT !.lease = lease] \in Row
  BY CallFacts, LeaseType DEF TypeOK
<1>2. /\ OpenPoints \subseteq Points /\ "claim" \in Points \ OpenPoints
      /\ {"admit", "join", "drain", "verify", "unwind", "relinquish"} \subseteq OpenPoints
      /\ "open" \in Callers
  BY DEF Points, OpenPoints, Callers
<1>3. ASSUME NEW point \in OpenPoints, Call(p, point)
      PROVE  Pending(p) \in Row /\ Pending(p).fence \in Nat /\ proc[p].caller = "open"
  <2>1. proc[p].request \in [owner : Owner, source : Source, key : Key] /\ proc[p].caller = "open"
    BY <1>3, CallFacts DEF Call
  <2>2. Pending(p) \in Row
    BY <1>1, <2>1, ReservedRowType DEF Pending
  <2> QED
    BY <2>1, <2>2 DEF Row
<1>4. ASSUME NEW request \in Requests, OpenInput(p, request)
      PROVE  TypeOK'
  <2>1. request # None
    BY RequestsAssumption
  <2>2. \E point \in {"claim", "admit"} : Enter(p, point, Snapshot(slot), request, "open")
    BY <1>4 DEF OpenInput
  <2>3. ProcOK'
    BY <1>1, <1>2, <2>1, <2>2, EnterType
  <2> QED
    BY <1>4, <2>3 DEF OpenInput, TypeOK, ProcOK
<1>5. CASE Reserve(p)
  <2>1. Pending(p) \in Row /\ Pending(p).fence \in Nat /\ proc[p].caller = "open"
    BY <1>2, <1>3, <1>5 DEF Reserve
  <2>2. ProcOK'
    <3>1. \E point \in {"join", "unwind"} : Goto(p, point, row)
      BY <1>5 DEF Reserve
    <3> QED
      BY <1>1, <1>2, <2>1, <3>1, GotoType
  <2>3. coord' \in [Process -> Coordinators]
    <3>1. UNCHANGED coord \/ \E fence \in Nat : SetHeartbeat(p, fence)
      BY <1>5, <2>1 DEF Reserve
    <3> QED
      BY <3>1, HeartbeatType DEF TypeOK
  <2>4. slot' \in Row /\ faults' \in Nat
    BY <1>5, <2>1 DEF Reserve, Fail, TypeOK
  <2> QED
    BY <1>5, <2>2, <2>3, <2>4 DEF Reserve, TypeOK, ProcOK
<1>6. CASE Refuse(p)
  BY <1>6, ReturnType DEF Refuse, TypeOK, ProcOK
<1>7. CASE Join(p) \/ Drain(p) \/ Abort(p) \/ CommitRejected(p)
  <2>1. \E point \in {"join", "drain", "verify"} : Call(p, point)
    BY <1>7 DEF Join, Drain, Abort, CommitRejected
  <2>2. \E point \in {"drain", "verify", "unwind"} : Goto(p, point, row)
    BY <1>7 DEF Join, Drain, Abort, CommitRejected
  <2>3. ProcOK'
    BY <1>1, <1>2, <1>3, <2>1, <2>2, GotoType
  <2> QED
    BY <1>7, <2>3 DEF Join, Drain, Abort, CommitRejected, TypeOK, ProcOK
<1>8. ASSUME NEW w \in Workflow, Commit(p, w)
      PROVE  TypeOK'
  <2>1. Call(p, "verify") /\ Pending(p) \in Row
    BY <1>2, <1>3, <1>8 DEF Commit
  <2>2. CommittedRow(Pending(p), w) \in Row
    BY <2>1, CommittedRowType
  <2>3. proc[p].request \in [owner : Owner, source : Source, key : Key]
    BY <1>2, <2>1, CallFacts DEF Call
  <2>4. ProcOK'
    BY <1>8, ReturnType DEF Commit
  <2>5. bound' \in [Workflow -> [source : Source, owner : Owner] \cup {None}]
    BY <1>8, <2>3 DEF Commit, TypeOK
  <2>6. published' \in Commitments
    BY <1>8, <2>3 DEF Commit, Commitments
  <2> QED
    BY <1>8, <2>2, <2>4, <2>5, <2>6 DEF Commit, TypeOK, ProcOK
<1>9. CASE Unwind(p)
  <2> DEFINE next == RolledBackRow(row, Pending(p))
  <2>1. Pending(p) \in Row /\ proc[p].caller = "open"
    BY <1>2, <1>3, <1>9 DEF Unwind
  <2>2. next \in Row
    BY <1>1, <2>1, RolledBackRowType
  <2>3. slot' \in Row
    BY <1>9, <2>2 DEF Unwind, TypeOK
  <2>4. ProcOK'
    <3>1. Return(p) \/ Goto(p, "relinquish", row)
      BY <1>9 DEF Unwind
    <3> QED
      BY <1>1, <1>2, <2>1, <3>1, ReturnType, GotoType
  <2>5. coord' \in [Process -> Coordinators]
    <3>1. UNCHANGED coord \/ SetHeartbeat(p, 0)
      BY <1>9 DEF Unwind
    <3> QED
      BY <3>1, HeartbeatType DEF TypeOK
  <2>6. faults' \in Nat
    BY <1>9 DEF Unwind, SwapFails, Fail, TypeOK
  <2> QED
    BY <1>9, <2>3, <2>4, <2>5, <2>6 DEF Unwind, TypeOK, ProcOK
<1>10. CASE Relinquish(p)
  <2>1. ProcOK'
    BY <1>10, ReturnType DEF Relinquish
  <2>2. slot' \in Row /\ faults' \in Nat
    BY <1>1, <1>10 DEF Relinquish, Fail, TypeOK
  <2> QED
    BY <1>10, <2>1, <2>2 DEF Relinquish, TypeOK, ProcOK
<1> QED
  BY <1>4, <1>5, <1>6, <1>7, <1>8, <1>9, <1>10

\* ReleaseInput and the startup reset keep the types.
LEMMA CloseType ==
    ASSUME TypeOK, NEW p \in Process,
           \/ ReleaseInput(p) \/ Release(p) \/ RecoverForMutation(p)
           \/ ResetIdleInputOnStartup(p) \/ CloseForeign(p) \/ AwaitExpiry(p) \/ CloseOwn(p)
    PROVE  TypeOK'
<1> DEFINE row == proc[p].row
<1>1. /\ row \in Row /\ slot \in Row
      /\ Snapshot(slot) \in Row
      /\ EmptyRow(slot) \in Row /\ EmptyRow(row) \in Row
  BY CallFacts, LeaseType, EmptyRowType DEF TypeOK
<1>2. /\ {"claim", "restore", "settle", "close_foreign", "await_expiry", "release"}
            \subseteq Points \ OpenPoints
      /\ {"none", "mutate", "startup", "startup_only"} \subseteq Callers \ {"open"}
  BY DEF Points, OpenPoints, Callers
<1>3. CASE ReleaseInput(p) \/ RecoverForMutation(p)
  <2>1. \E point \in {"release", "claim"}, caller \in {"none", "mutate"} :
           Enter(p, point, Snapshot(slot), None, caller)
    BY <1>3 DEF ReleaseInput, RecoverForMutation
  <2>2. ProcOK'
    BY <1>1, <1>2, <2>1, EnterType
  <2> QED
    BY <1>3, <2>2 DEF ReleaseInput, RecoverForMutation, TypeOK, ProcOK
<1>4. CASE Release(p)
  <2>1. ProcOK'
    BY <1>4, ReturnType DEF Release
  <2>2. coord' \in [Process -> Coordinators]
    <3>1. UNCHANGED coord \/ SetHeartbeat(p, 0)
      BY <1>4 DEF Release
    <3> QED
      BY <3>1, HeartbeatType DEF TypeOK
  <2>3. slot' \in Row /\ faults' \in Nat /\ published' \in Commitments \cup {None}
    BY <1>1, <1>4 DEF Release, CloseIdle, Fail, TypeOK
  <2> QED
    BY <1>4, <2>1, <2>2, <2>3 DEF Release, TypeOK, ProcOK
<1>5. CASE ResetIdleInputOnStartup(p)
  <2>1. ProcOK'
    <3>1. \/ UNCHANGED proc
          \/ \E point \in {"restore", "settle", "claim", "close_foreign", "await_expiry"},
                r \in {slot, Snapshot(slot)}, caller \in {"startup", "startup_only"} :
                Enter(p, point, r, None, caller)
      BY <1>5 DEF ResetIdleInputOnStartup
    <3>2. CASE UNCHANGED proc
      BY <3>2 DEF TypeOK, ProcOK
    <3> QED
      BY <1>1, <1>2, <3>1, <3>2, EnterType
  <2>2. coord' \in [Process -> Coordinators]
    <3>1. \/ coord' = [coord EXCEPT ![p].reset = "done"]
          \/ \E reset \in {"no", "pending", "done"}, startup \in BOOLEAN :
                coord' = [coord EXCEPT ![p] = [@ EXCEPT !.reset = reset, !.startup = startup]]
      BY <1>5 DEF ResetIdleInputOnStartup, TypeOK, Coordinators
    <3>2. CASE coord' = [coord EXCEPT ![p].reset = "done"]
      BY <3>2 DEF TypeOK, Coordinators
    <3>3. ASSUME NEW reset \in {"no", "pending", "done"}, NEW startup \in BOOLEAN,
                 coord' = [coord EXCEPT ![p] = [@ EXCEPT !.reset = reset, !.startup = startup]]
          PROVE  coord' \in [Process -> Coordinators]
      <4> DEFINE c == [coord[p] EXCEPT !.reset = reset, !.startup = startup]
      <4>1. c \in Coordinators
        BY CoordinatorFields DEF TypeOK
      <4> HIDE DEF c
      <4>2. coord' = [coord EXCEPT ![p] = c]
        BY <3>3 DEF c
      <4> QED
        BY <4>1, <4>2 DEF TypeOK
    <3> QED
      BY <3>1, <3>2, <3>3
  <2> QED
    BY <1>5, <2>1, <2>2 DEF ResetIdleInputOnStartup, TypeOK, ProcOK
<1>6. CASE CloseForeign(p) \/ CloseOwn(p)
  <2>1. ProcOK'
    <3>1. Return(p) \/ Goto(p, "await_expiry", InitialRow)
      BY <1>6 DEF CloseForeign, CloseOwn
    <3> QED
      BY <1>2, <3>1, InitialRowType, ReturnType, GotoType
  <2>2. coord' \in [Process -> Coordinators]
    <3>1. \/ UNCHANGED coord
          \/ coord' = [coord EXCEPT ![p] = [@ EXCEPT !.reset = "done", !.heartbeat = 0]]
      BY <1>6 DEF CloseForeign, CloseOwn
    <3> DEFINE c == [coord[p] EXCEPT !.reset = "done", !.heartbeat = 0]
    <3>2. c \in Coordinators
      BY CoordinatorFields DEF TypeOK
    <3>3. UNCHANGED coord \/ coord' = [coord EXCEPT ![p] = c]
      BY <3>1
    <3> HIDE DEF c
    <3> QED
      BY <3>2, <3>3 DEF TypeOK
  <2>3. slot' \in Row /\ faults' \in Nat /\ published' \in Commitments \cup {None}
    BY <1>1, <1>6 DEF CloseForeign, CloseOwn, CloseIdle, Fail, TypeOK
  <2> QED
    BY <1>6, <2>1, <2>2, <2>3 DEF CloseForeign, CloseOwn, TypeOK, ProcOK
<1>7. CASE AwaitExpiry(p)
  <2>1. ProcOK'
    <3>1. Return(p) \/ Goto(p, "claim", Snapshot(slot))
      BY <1>7 DEF AwaitExpiry
    <3> QED
      BY <1>1, <1>2, <3>1, ReturnType, GotoType
  <2>2. coord' \in [Process -> Coordinators]
    <3>1. UNCHANGED coord \/ \E reset \in {"pending", "done"} : coord' = [coord EXCEPT ![p].reset = reset]
      BY <1>7 DEF AwaitExpiry
    <3> QED
      BY <3>1 DEF TypeOK, Coordinators
  <2>3. faults' \in Nat
    BY <1>7 DEF AwaitExpiry, Fail, TypeOK
  <2> QED
    BY <1>7, <2>1, <2>2, <2>3 DEF AwaitExpiry, TypeOK, ProcOK
<1> QED
  BY <1>3, <1>4, <1>5, <1>6, <1>7

\* The workers, the clock, the heartbeats and the ends of a process keep the
\* types.
LEMMA WorkType ==
    ASSUME TypeOK,
           \/ \E p \in Process : ProcessStep(p)
           \/ \E w \in Workflow : WorkerStep(w)
           \/ Tick
    PROVE  TypeOK'
<1>1. slot \in Row /\ slot.fence \in Nat /\ slot.revision \in Nat
  BY DEF TypeOK, Row
<1>2. \A lease \in {0, TTL} : [slot EXCEPT !.lease = lease] \in Row
  BY <1>1, LeaseType
<1>3. ASSUME NEW p \in Process, EnsureRecovery(p)
      PROVE  TypeOK'
  <2>1. /\ op' \in [Workflow -> Operations \cup {None}]
        /\ effect' \in [Workflow -> Effects]
    <3>1. (\E w \in Workflow : RecoverOp(p, slot.fence, w)) \/ UNCHANGED <<op, effect>>
      BY <1>3 DEF EnsureRecovery
    <3>2. CASE UNCHANGED <<op, effect>>
      BY <3>2 DEF TypeOK
    <3> QED
      BY <1>1, <3>1, <3>2, RecoverOpType
  <2>2. coord' \in [Process -> Coordinators]
    <3>1. UNCHANGED coord \/ PassComplete(p)
      BY <1>3, Zenon DEF EnsureRecovery
    <3> QED
      BY <3>1 DEF PassComplete, TypeOK, Coordinators
  <2> QED
    BY <1>3, <2>1, <2>2 DEF EnsureRecovery, TypeOK
<1>4. ASSUME NEW p \in Process, TimerFires(p)
      PROVE  TypeOK'
  <2>1. /\ op' \in [Workflow -> Operations \cup {None}]
        /\ effect' \in [Workflow -> Effects]
    <3>1. (\E w \in Workflow : RecoverOp(p, coord[p].timer, w)) \/ UNCHANGED <<op, effect>>
      BY <1>4 DEF TimerFires
    <3>2. CASE UNCHANGED <<op, effect>>
      BY <3>2 DEF TypeOK
    <3>3. coord[p].timer \in Nat
      BY DEF TypeOK, Coordinators
    <3> QED
      BY <3>1, <3>2, <3>3, RecoverOpType
  <2>2. coord' \in [Process -> Coordinators]
    <3>1. coord[p] \in Coordinators /\ coord \in [Process -> Coordinators]
      BY DEF TypeOK, Coordinators
    <3>2. coord' = [coord EXCEPT ![p].timer = 0]
      BY <1>4 DEF TimerFires
    <3>3. [coord[p] EXCEPT !.timer = 0] \in Coordinators
      BY <3>1 DEF Coordinators
    <3> QED
      BY <3>1, <3>2, <3>3
  <2> QED
    BY <1>4, <2>1, <2>2 DEF TimerFires, TypeOK
<1>5. ASSUME NEW p \in Process, NEW w \in Workflow, StartOperation(p, w)
      PROVE  TypeOK'
  <2>1. [epoch |-> p, fence |-> slot.fence, running |-> ~coord[p].stopping] \in Operations
    BY <1>1 DEF Operations
  <2> QED
    BY <1>5, <2>1 DEF StartOperation, TypeOK
<1>6. ASSUME NEW w \in Workflow,
             BeginEffect(w) \/ CompleteEffect(w) \/ \E p \in Process : ResolveEffect(p, w)
      PROVE  TypeOK'
  <2>1. \E e \in Effects : effect' = [effect EXCEPT ![w] = e]
    BY <1>6 DEF BeginEffect, CompleteEffect, ResolveEffect, Effects
  <2>2. UNCHANGED <<slot, bound, op, live, proc, coord, faults, published>>
    BY <1>6 DEF BeginEffect, CompleteEffect, ResolveEffect
  <2>3. effect' \in [Workflow -> Effects]
    BY <2>1 DEF TypeOK
  <2> QED
    BY <2>2, <2>3 DEF TypeOK
<1>7. ASSUME NEW w \in Workflow, FinishOperation(w)
      PROVE  TypeOK'
  <2>1. effect' \in [Workflow -> Effects]
    BY <1>7, UncertainFacts DEF FinishOperation, TypeOK
  <2>2. op[w] \in Operations
    BY <1>7 DEF FinishOperation, WorkerOf, TypeOK
  <2>3. [op[w] EXCEPT !.running = FALSE] \in Operations
    BY <2>2 DEF Operations
  <2>4. op' \in [Workflow -> Operations \cup {None}]
    BY <1>7, <2>3 DEF FinishOperation, TypeOK
  <2>5. faults' \in Nat
    <3>1. UNCHANGED faults \/ Fail
      BY <1>7, Zenon DEF FinishOperation
    <3> QED
      BY <3>1 DEF Fail, TypeOK
  <2> QED
    BY <1>7, <2>1, <2>4, <2>5 DEF FinishOperation, TypeOK
<1>8. ASSUME NEW w \in Workflow, StrandOperation(w)
      PROVE  TypeOK'
  <2>1. op' \in [Workflow -> Operations \cup {None}]
    <3>1. op[w] \in Operations /\ op' = [op EXCEPT ![w].running = FALSE]
      BY <1>8 DEF StrandOperation, TypeOK
    <3>2. [op[w] EXCEPT !.running = FALSE] \in Operations
      BY <3>1 DEF Operations
    <3> QED
      BY <3>1, <3>2 DEF TypeOK
  <2>2. faults' \in Nat
    <3>1. UNCHANGED faults \/ Fail
      BY <1>8, Zenon DEF StrandOperation
    <3> QED
      BY <3>1 DEF Fail, TypeOK
  <2> QED
    BY <1>8, <2>1, <2>2 DEF StrandOperation, TypeOK
<1>9. ASSUME NEW p \in Process, Heartbeat(p)
      PROVE  TypeOK'
  <2>1. slot' \in Row
    BY <1>2, <1>9 DEF Heartbeat, TypeOK
  <2>2. coord' \in [Process -> Coordinators]
    <3>1. UNCHANGED coord \/ SetHeartbeat(p, 0)
      BY <1>9 DEF Heartbeat
    <3> QED
      BY <3>1, HeartbeatType DEF TypeOK
  <2> QED
    BY <1>9, <2>1, <2>2 DEF Heartbeat, TypeOK
<1>10. CASE Tick
  <2>1. \A p \in Process : proc[p].row \in Row
    BY CallFacts
  <2>2. \A p \in Process : Elapse(proc[p].row) \in Row
    BY <2>1, LeaseType
  <2>3. \A c \in Calls, r \in Row : [c EXCEPT !.row = r] \in Calls
    BY DEF Calls
  <2>4. proc' = [p \in Process |-> [proc[p] EXCEPT !.row = Elapse(proc[p].row)]]
    BY <1>10 DEF Tick
  <2>5. proc' \in [Process -> Calls]
    BY <2>2, <2>3, <2>4 DEF TypeOK
  <2>6. \A p \in Process : /\ proc'[p].at = proc[p].at /\ proc'[p].caller = proc[p].caller
                           /\ proc'[p].request = proc[p].request
    BY <2>4 DEF TypeOK, Calls
  <2>7. ProcOK'
    BY <2>5, <2>6 DEF TypeOK, ProcOK
  <2>8. slot' \in Row
    BY <1>1, <1>10, LeaseType DEF Tick
  <2>9. faults' \in Nat
    BY <1>10 DEF Tick, Fail, TypeOK
  <2> QED
    BY <1>10, <2>7, <2>8, <2>9 DEF Tick, TypeOK, ProcOK
<1>11. ASSUME NEW p \in Process, Leave(p)
       PROVE  /\ ProcOK' /\ live' \in SUBSET Process
              /\ coord' \in [Process -> Coordinators]
              /\ op' \in [Workflow -> Operations \cup {None}]
  <2>1. ProcOK'
    BY <1>11, ReturnType DEF Leave
  <2>2. NewCoordinator \in Coordinators
    BY DEF NewCoordinator, Coordinators
  <2>3. coord' \in [Process -> Coordinators]
    BY <1>11, <2>2 DEF Leave, TypeOK
  <2>4. \A w \in Workflow : RunningWorker(p, w) => [op[w] EXCEPT !.running = FALSE] \in Operations
    BY DEF RunningWorker, TypeOK, Operations
  <2>5. op' \in [Workflow -> Operations \cup {None}]
    BY <1>11, <2>4 DEF Leave, TypeOK
  <2> QED
    BY <1>11, <2>1, <2>3, <2>5 DEF Leave, TypeOK
<1>12. ASSUME NEW p \in Process, Crash(p)
       PROVE  TypeOK'
  BY <1>11, <1>12 DEF Crash, TypeOK, ProcOK
<1>13. ASSUME NEW p \in Process, BeginShutdown(p)
       PROVE  TypeOK'
  <2> DEFINE c == [coord[p] EXCEPT !.stopping = TRUE, !.heartbeat = 0]
  <2>1. c \in Coordinators
    BY CoordinatorFields DEF TypeOK
  <2>2. coord' = [coord EXCEPT ![p] = c]
    BY <1>13 DEF BeginShutdown
  <2> HIDE DEF c
  <2>3. coord' \in [Process -> Coordinators]
    BY <2>1, <2>2 DEF TypeOK
  <2> QED
    BY <1>13, <2>3 DEF BeginShutdown, TypeOK
<1>14. ASSUME NEW p \in Process, FinishShutdown(p)
       PROVE  TypeOK'
  <2>1. slot' \in Row
    BY <1>2, <1>14 DEF FinishShutdown, TypeOK
  <2> QED
    BY <1>11, <1>14, <2>1 DEF FinishShutdown, TypeOK, ProcOK
<1> QED
  BY <1>3, <1>4, <1>5, <1>6, <1>7, <1>8, <1>9, <1>10, <1>12, <1>13, <1>14
     DEF ProcessStep, WorkerStep

\* Every state is well formed: in particular a call inside OpenInput carries the
\* request it answers, and rows, fences and leases stay in their ranges.
THEOREM TypeCorrect == Spec => []TypeOK
<1>1. Init => TypeOK
  <2>1. NoCall \in Calls /\ NoCall.at \notin OpenPoints /\ NoCall.caller # "open"
    BY InitialRowType DEF NoCall, Calls, Points, Callers, OpenPoints
  <2>2. NewCoordinator \in Coordinators
    BY DEF NewCoordinator, Coordinators
  <2> QED
    BY <2>1, <2>2, InitialRowType DEF Init, TypeOK, Effects
<1>2. TypeOK /\ [Next]_vars => TypeOK'
  <2> SUFFICES ASSUME TypeOK, [Next]_vars
               PROVE  TypeOK'
    OBVIOUS
  <2>1. ASSUME NEW p \in Process, CallStep(p) \/ ClientStep(p)
        PROVE  TypeOK'
    BY <2>1, RecoveryType, OpenType, CloseType DEF CallStep, ClientStep
  <2>2. CASE UNCHANGED vars
    BY <2>2 DEF vars, TypeOK
  <2> QED
    BY <2>1, <2>2, WorkType DEF Next
<1> QED
  BY <1>1, <1>2, PTL DEF Spec

-----------------------------------------------------------------------------
(* One step.                                                               *)

\* A step that only renews, expires or leaves alone the lease of the row, and
\* revives no row that has expired.
RowKept ==
    /\ Acquirable(slot) => Acquirable(slot')
    /\ slot'.state = slot.state /\ slot'.fence = slot.fence /\ slot'.owner = slot.owner
    /\ slot'.coordinator = slot.coordinator /\ slot'.workflow = slot.workflow

\* A step that CompareAndSwapActiveInput or FinalizeActiveInput accepted.
RowSwapped == slot' \in Row /\ \E expected \in Row : CanSwap(expected, slot')

\* A step of CloseIdleActiveInput.
RowClosed == ActiveOps = {} /\ slot' = EmptyRow(slot)

\* Setting the lease of a live row leaves the rest of it alone.
LEMMA LeaseOnly ==
    ASSUME TypeOK, NEW lease,
           UNCHANGED slot \/ (Live(slot) /\ slot' = [slot EXCEPT !.lease = lease])
    PROVE  RowKept
BY DEF TypeOK, Row, RowKept, Acquirable

\* Every write of the row goes through one of its transactions.
LEMMA RowStep ==
    ASSUME TypeOK, [Next]_vars
    PROVE  RowKept \/ RowSwapped \/ RowClosed
<1>1. ASSUME UNCHANGED slot
      PROVE  RowKept
  BY <1>1 DEF RowKept
<1>2. ASSUME NEW p \in Process, Claim(p) \/ Restore(p) \/ Detach(p)
      PROVE  UNCHANGED slot \/ RowSwapped
  <2>1. proc[p].row \in Row
    BY CallFacts
  <2>2. \A next : CanSwap(proc[p].row, next) /\ slot' = next /\ next \in Row => RowSwapped
    BY <2>1 DEF RowSwapped
  <2>3. /\ RecoveringRow(proc[p].row, p) \in Row
        /\ RestoredRow(proc[p].row) \in Row
        /\ EmptyRow(proc[p].row) \in Row
    BY <2>1, RecoveringRowType, RestoredRowType, EmptyRowType
  <2> QED
    BY <1>2, <2>2, <2>3 DEF Claim, Restore, Detach
<1>3. ASSUME NEW p \in Process,
             NEW point \in {"admit", "verify", "unwind", "relinquish"}, Call(p, point)
      PROVE  proc[p].row \in Row /\ Pending(p) \in Row
  <2>1. proc[p].row \in Row /\ proc[p].request \in [owner : Owner, source : Source, key : Key]
    BY <1>3, CallFacts DEF Call, OpenPoints
  <2> QED
    BY <2>1, ReservedRowType DEF Pending
<1>4. ASSUME NEW p \in Process, Reserve(p)
      PROVE  RowSwapped
  BY <1>3, <1>4 DEF Reserve, RowSwapped
<1>5. ASSUME NEW p \in Process, NEW w \in Workflow, Commit(p, w)
      PROVE  RowSwapped
  <2>1. Pending(p) \in Row /\ CommittedRow(Pending(p), w) \in Row
    BY <1>3, <1>5, CommittedRowType DEF Commit
  <2> QED
    BY <1>5, <2>1 DEF Commit, CommitAccepted, RowSwapped
<1>6. ASSUME NEW p \in Process, Unwind(p)
      PROVE  UNCHANGED slot \/ RowSwapped
  <2>1. Pending(p) \in Row /\ RolledBackRow(proc[p].row, Pending(p)) \in Row
    BY <1>3, <1>6, RolledBackRowType DEF Unwind
  <2> QED
    BY <1>6, <2>1 DEF Unwind, RowSwapped
<1>7. ASSUME NEW p \in Process, Relinquish(p) \/ Heartbeat(p) \/ FinishShutdown(p)
      PROVE  RowKept
  <2>1. \/ UNCHANGED slot
        \/ \E lease \in {0, TTL} : Live(slot) /\ slot' = [slot EXCEPT !.lease = lease]
    BY <1>7 DEF Relinquish, Heartbeat, FinishShutdown, TenureLive
  <2>2. ASSUME NEW lease, Live(slot), slot' = [slot EXCEPT !.lease = lease]
        PROVE  RowKept
    BY <2>2, LeaseOnly
  <2> QED
    BY <1>1, <2>1, <2>2
<1>8. CASE Tick
  <2>1. Live(slot) /\ slot' = [slot EXCEPT !.lease = slot.lease - 1]
    BY <1>8 DEF Tick, Elapse
  <2> QED
    BY <2>1, LeaseOnly
<1>9. ASSUME NEW p \in Process, Release(p)
      PROVE  UNCHANGED slot \/ RowSwapped \/ RowClosed
  <2>1. proc[p].row \in Row /\ EmptyRow(proc[p].row) \in Row
    BY CallFacts, EmptyRowType
  <2>2. \/ UNCHANGED slot
        \/ CloseIdle(p, proc[p].row)
        \/ CanSwap(proc[p].row, EmptyRow(proc[p].row)) /\ slot' = EmptyRow(proc[p].row)
    BY <1>9 DEF Release
  <2> QED
    BY <2>1, <2>2 DEF CloseIdle, CloseIdleAccepted, RowSwapped, RowClosed
<1>10. ASSUME NEW p \in Process, CloseForeign(p) \/ CloseOwn(p)
       PROVE  UNCHANGED slot \/ RowClosed
  <2>1. UNCHANGED slot \/ CloseIdle(p, proc[p].row)
    BY <1>10 DEF CloseForeign, CloseOwn
  <2> QED
    BY <2>1 DEF CloseIdle, CloseIdleAccepted, RowClosed
<1>11. ASSUME NEW p \in Process,
              \/ Settle(p) \/ SettleFails(p) \/ DeferOp(p) \/ \E w \in Workflow : SettleOp(p, w)
              \/ Refuse(p) \/ Join(p) \/ Drain(p) \/ CommitRejected(p) \/ AwaitExpiry(p)
       PROVE  UNCHANGED slot
  BY <1>11 DEF Settle, SettleFails, DeferOp, SettleOp, Refuse, Join, Drain, CommitRejected,
               AwaitExpiry
<1>12. ASSUME NEW p \in Process, ClientStep(p)
       PROVE  UNCHANGED slot
  BY <1>12 DEF ClientStep, Abort, OpenInput, RecoverForMutation, ReleaseInput,
               ResetIdleInputOnStartup
<1>13. ASSUME NEW p \in Process, EnsureRecovery(p) \/ TimerFires(p) \/ Crash(p) \/ BeginShutdown(p)
       PROVE  UNCHANGED slot
  BY <1>13 DEF EnsureRecovery, TimerFires, Crash, BeginShutdown
<1>14. ASSUME NEW w \in Workflow, WorkerStep(w)
       PROVE  UNCHANGED slot
  BY <1>14 DEF WorkerStep, BeginEffect, CompleteEffect, FinishOperation, StrandOperation,
               StartOperation, ResolveEffect
<1>15. CASE UNCHANGED vars
  BY <1>1, <1>15 DEF vars
<1>16. ASSUME NEW p \in Process, CallStep(p)
       PROVE  RowKept \/ RowSwapped \/ RowClosed
  BY <1>1, <1>2, <1>4, <1>5, <1>6, <1>7, <1>9, <1>10, <1>11, <1>16 DEF CallStep
<1>17. ASSUME NEW p \in Process, ProcessStep(p)
       PROVE  RowKept
  BY <1>1, <1>7, <1>13, <1>17 DEF ProcessStep
<1> QED
  BY <1>1, <1>8, <1>12, <1>14, <1>15, <1>16, <1>17 DEF Next

\* An accepted swap stays in the tenure of the row or begins the next one.
LEMMA SwapTenure ==
    ASSUME TypeOK, RowSwapped
    PROVE  \/ Acquirable(slot) /\ slot'.fence = slot.fence + 1
           \/ TenureKept(slot, slot')
BY AcceptedTenure DEF TypeOK, RowSwapped, CanSwap

\* The fence never goes back, and it goes up when the coordinator changes.
LEMMA FenceStep ==
    ASSUME TypeOK, [Next]_vars
    PROVE  \/ slot'.fence = slot.fence + 1 /\ Acquirable(slot)
           \/ /\ slot'.fence = slot.fence
              /\ slot'.coordinator = slot.coordinator
              /\ slot'.owner = slot.owner
<1>1. CASE RowClosed
  BY <1>1 DEF RowClosed, EmptyRow, TypeOK, Row
<1>2. CASE RowSwapped
  BY <1>2, SwapTenure DEF TenureKept
<1> QED
  BY <1>1, <1>2, RowStep DEF RowKept

\* An operation keeps its epoch and fence, or is started or resumed by the
\* coordinator of the row, for the workflow of the row and under its fence.
LEMMA OperationStep ==
    ASSUME TypeOK, [Next]_vars, NEW w \in Workflow, op'[w] # None
    PROVE  \/ op[w] # None /\ op'[w].fence = op[w].fence /\ op'[w].epoch = op[w].epoch
           \/ /\ UNCHANGED slot
              /\ slot.workflow = w
              /\ op'[w].fence = slot.fence /\ op'[w].epoch = slot.coordinator
<1> DEFINE Kept == op[w] # None /\ op'[w].fence = op[w].fence /\ op'[w].epoch = op[w].epoch
           Taken == /\ UNCHANGED slot
                    /\ slot.workflow = w
                    /\ op'[w].fence = slot.fence /\ op'[w].epoch = slot.coordinator
<1>1. ASSUME UNCHANGED op
      PROVE  Kept
  BY <1>1
<1>2. ASSUME NEW p \in Process, NEW v \in Workflow, NEW fence, RecoverOp(p, fence, v), UNCHANGED slot
      PROVE  Kept \/ Taken
  <2>1. \/ op' = [op EXCEPT ![v] = None]
        \/ op' = [op EXCEPT ![v] = [epoch |-> p, fence |-> fence, running |-> ~coord[p].stopping]]
    BY <1>2 DEF RecoverOp, InterruptOp, ResumeOp
  <2>2. slot.workflow = v /\ slot.fence = fence /\ slot.coordinator = p
    BY <1>2 DEF RecoverOp, Authorised, MayMutate
  <2>3. CASE v = w
    BY <1>2, <2>1, <2>2, <2>3 DEF TypeOK
  <2>4. CASE v # w
    BY <2>1, <2>4 DEF TypeOK
  <2> QED
    BY <2>3, <2>4
<1>3. ASSUME NEW p \in Process, SettleFails(p)
      PROVE  Kept \/ Taken
  <2>1. \/ UNCHANGED op
        \/ \E v \in Workflow :
              /\ Authorised(p, proc[p].row.fence, v, TRUE)
              /\ op' = [op EXCEPT ![v] = [epoch |-> p, fence |-> proc[p].row.fence, running |-> FALSE]]
    BY <1>3 DEF SettleFails, ForeignOps, ActiveOps
  <2>2. UNCHANGED slot
    BY <1>3 DEF SettleFails
  <2>3. ASSUME NEW v \in Workflow, Authorised(p, proc[p].row.fence, v, TRUE),
               op' = [op EXCEPT ![v] = [epoch |-> p, fence |-> proc[p].row.fence, running |-> FALSE]]
        PROVE  Kept \/ Taken
    <3>1. slot.workflow = v /\ slot.fence = proc[p].row.fence /\ slot.coordinator = p
      BY <2>3 DEF Authorised, MayMutate
    <3>2. CASE v = w
      BY <2>2, <2>3, <3>1, <3>2 DEF TypeOK
    <3>3. CASE v # w
      BY <2>3, <3>3 DEF TypeOK
    <3> QED
      BY <3>2, <3>3
  <2> QED
    BY <1>1, <2>1, <2>3
<1>4. ASSUME NEW p \in Process, NEW v \in Workflow, StartOperation(p, v)
      PROVE  Kept \/ Taken
  <2>1. op' = [op EXCEPT ![v] = [epoch |-> p, fence |-> slot.fence, running |-> ~coord[p].stopping]]
    BY <1>4 DEF StartOperation
  <2>2. slot.workflow = v /\ slot.coordinator = p /\ UNCHANGED slot
    BY <1>4 DEF StartOperation, Authorised, MayMutate
  <2>3. CASE v = w
    BY <2>1, <2>2, <2>3 DEF TypeOK
  <2>4. CASE v # w
    BY <2>1, <2>4 DEF TypeOK
  <2> QED
    BY <2>3, <2>4
<1>5. ASSUME NEW v \in Workflow, FinishOperation(v) \/ StrandOperation(v)
      PROVE  Kept
  <2>1. op' = [op EXCEPT ![v] = None] \/ op' = [op EXCEPT ![v].running = FALSE]
    BY <1>5 DEF FinishOperation, StrandOperation
  <2>2. CASE op' = [op EXCEPT ![v] = None]
    BY <2>2 DEF TypeOK
  <2>3. CASE op' = [op EXCEPT ![v].running = FALSE]
    <3>1. op[v] \in Operations
      BY <1>5 DEF FinishOperation, StrandOperation, WorkerOf, TypeOK
    <3>2. v # w => op'[w] = op[w]
      BY <2>3 DEF TypeOK
    <3>3. v = w => op'[w] = [op[w] EXCEPT !.running = FALSE] /\ op[w] # None
      BY <1>5, <2>3 DEF FinishOperation, StrandOperation, WorkerOf, TypeOK
    <3> QED
      BY <3>1, <3>2, <3>3 DEF Operations
  <2> QED
    BY <2>1, <2>2, <2>3
<1>6. ASSUME NEW p \in Process, Leave(p)
      PROVE  Kept
  <2>1. op'[w] = IF RunningWorker(p, w) THEN [op[w] EXCEPT !.running = FALSE] ELSE op[w]
    BY <1>6 DEF Leave
  <2>2. RunningWorker(p, w) => op[w] # None /\ op[w] \in Operations
    BY DEF RunningWorker, TypeOK
  <2> QED
    BY <2>1, <2>2 DEF Operations
<1>7. ASSUME NEW p \in Process, CallStep(p)
      PROVE  Kept \/ Taken
  <2>1. CASE \E v \in Workflow : SettleOp(p, v)
    BY <1>2, <2>1 DEF SettleOp
  <2>2. CASE \E v \in Workflow : Commit(p, v)
    BY <1>1, <2>2 DEF Commit
  <2>3. CASE Claim(p) \/ Restore(p) \/ Settle(p) \/ DeferOp(p) \/ Detach(p)
    BY <1>1, <2>3 DEF Claim, Restore, Settle, DeferOp, Detach
  <2>4. CASE Reserve(p) \/ Refuse(p) \/ Join(p) \/ Drain(p) \/ CommitRejected(p)
    BY <1>1, <2>4 DEF Reserve, Refuse, Join, Drain, CommitRejected
  <2>5. CASE \/ Unwind(p) \/ Relinquish(p) \/ Release(p) \/ CloseForeign(p)
             \/ AwaitExpiry(p) \/ CloseOwn(p)
    BY <1>1, <2>5 DEF Unwind, Relinquish, Release, CloseForeign, AwaitExpiry, CloseOwn
  <2> QED
    BY <1>3, <1>7, <2>1, <2>2, <2>3, <2>4, <2>5 DEF CallStep
<1>8. ASSUME NEW p \in Process, ClientStep(p)
      PROVE  Kept
  BY <1>1, <1>8 DEF ClientStep, Abort, OpenInput, RecoverForMutation, ReleaseInput,
                    ResetIdleInputOnStartup
<1>9. ASSUME NEW p \in Process, ProcessStep(p)
      PROVE  Kept \/ Taken
  <2>1. CASE EnsureRecovery(p) \/ TimerFires(p)
    <3>1. UNCHANGED slot
      BY <2>1 DEF EnsureRecovery, TimerFires
    <3>2. UNCHANGED op \/ \E v \in Workflow, fence \in {slot.fence, coord[p].timer} : RecoverOp(p, fence, v)
      BY <2>1 DEF EnsureRecovery, TimerFires
    <3> QED
      BY <1>1, <1>2, <3>1, <3>2
  <2>2. CASE Heartbeat(p) \/ BeginShutdown(p)
    BY <1>1, <2>2 DEF Heartbeat, BeginShutdown
  <2>3. CASE Crash(p) \/ FinishShutdown(p)
    BY <1>6, <2>3 DEF Crash, FinishShutdown
  <2> QED
    BY <1>9, <2>1, <2>2, <2>3 DEF ProcessStep
<1>10. ASSUME NEW v \in Workflow, WorkerStep(v)
       PROVE  Kept \/ Taken
  <2>1. CASE BeginEffect(v) \/ CompleteEffect(v) \/ \E p \in Process : ResolveEffect(p, v)
    BY <1>1, <2>1 DEF BeginEffect, CompleteEffect, ResolveEffect
  <2> QED
    BY <1>4, <1>5, <1>10, <2>1 DEF WorkerStep
<1>11. ASSUME Tick \/ UNCHANGED vars
       PROVE  Kept
  BY <1>1, <1>11 DEF Tick, vars
<1> HIDE DEF Kept, Taken
<1>12. Kept \/ Taken
  BY <1>7, <1>8, <1>9, <1>10, <1>11 DEF Next
<1> QED
  BY <1>12 DEF Kept, Taken

-----------------------------------------------------------------------------
(* Safety.                                                                 *)

\* The row changes owner or coordinator only under a higher fence, and only
\* when it was empty or its lease had run out; its fence never goes back.
THEOREM TenureTheorem == Spec => TenureDiscipline
<1>1. TypeOK /\ [Next]_vars =>
         [/\ slot'.fence >= slot.fence
          /\ \/ slot'.owner # slot.owner
             \/ slot'.coordinator # slot.coordinator
             => slot'.fence > slot.fence /\ Acquirable(slot)]_vars
  <2> SUFFICES ASSUME TypeOK, [Next]_vars
               PROVE  /\ slot'.fence >= slot.fence
                      /\ \/ slot'.owner # slot.owner
                         \/ slot'.coordinator # slot.coordinator
                         => slot'.fence > slot.fence /\ Acquirable(slot)
    OBVIOUS
  <2>1. slot.fence \in Nat
    BY DEF TypeOK, Row
  <2> QED
    BY <2>1, FenceStep
<1> QED
  BY <1>1, TypeCorrect, PTL DEF Spec, TenureDiscipline

\* A queued or running operation belongs to the input in the row: OpenInput,
\* recovery and release never take the input from under it.
THEOREM WorkTheorem == Spec => []WorkStaysWithInput
<1>1. Init => WorkStaysWithInput
  BY DEF Init, WorkStaysWithInput, ActiveOps
<1>2. TypeOK /\ WorkStaysWithInput /\ [Next]_vars => WorkStaysWithInput'
  <2> SUFFICES ASSUME TypeOK, WorkStaysWithInput, [Next]_vars,
                      NEW w \in Workflow, op'[w] # None
               PROVE  slot'.workflow = w
    BY DEF WorkStaysWithInput, ActiveOps
  <2>1. CASE UNCHANGED slot /\ slot.workflow = w
    BY <2>1
  <2>2. CASE w \in ActiveOps
    <3>1. slot.workflow = w
      BY <2>2 DEF WorkStaysWithInput
    <3>2. ~RowClosed
      BY <2>2 DEF RowClosed
    <3>3. RowSwapped => slot'.workflow = slot.workflow
      BY <2>2, AcceptedWorkflow DEF RowSwapped, CanSwap, TypeOK
    <3> QED
      BY <3>1, <3>2, <3>3, RowStep DEF RowKept
  <2> QED
    BY <2>1, <2>2, OperationStep DEF ActiveOps
<1> QED
  BY <1>1, <1>2, TypeCorrect, PTL DEF Spec

\* What one step does to a heartbeat: it is left, stopped, or started by the
\* coordinator of the new row under the new fence.
LEMMA HeartbeatStep ==
    ASSUME TypeOK, [Next]_vars, NEW q \in Process
    PROVE  \/ coord'[q].heartbeat \in {0, coord[q].heartbeat}
           \/ coord'[q].heartbeat = slot'.fence /\ slot'.coordinator = q
<1> DEFINE Kept == coord'[q].heartbeat \in {0, coord[q].heartbeat}
           Started == coord'[q].heartbeat = slot'.fence /\ slot'.coordinator = q
<1>1. ASSUME UNCHANGED coord
      PROVE  Kept
  BY <1>1
<1>2. ASSUME NEW p \in Process, NEW fence \in {0, slot'.fence}, SetHeartbeat(p, fence),
             fence # 0 => slot'.coordinator = p
      PROVE  Kept \/ Started
  BY <1>2 DEF SetHeartbeat, TypeOK, Coordinators
<1>3. ASSUME NEW p \in Process, NEW c, coord' = [coord EXCEPT ![p] = c],
             c.heartbeat \in {0, coord[p].heartbeat}
      PROVE  Kept
  BY <1>3 DEF TypeOK
<1>4. \A p \in Process : coord[p] \in Coordinators
  BY DEF TypeOK
<1>5. ASSUME NEW p \in Process, Claim(p)
      PROVE  Kept \/ Started
  <2> DEFINE next == RecoveringRow(proc[p].row, p)
  <2>1. \/ UNCHANGED coord
        \/ SetHeartbeat(p, 0)
        \/ SetHeartbeat(p, next.fence) /\ slot' = next
    BY <1>5 DEF Claim
  <2>2. next.coordinator = p
    <3>1. proc[p].row \in Row
      BY CallFacts
    <3> QED
      BY <3>1 DEF RecoveringRow, Row
  <2> HIDE DEF next
  <2> QED
    BY <1>1, <1>2, <2>1, <2>2
<1>6. ASSUME NEW p \in Process, Reserve(p)
      PROVE  Kept \/ Started
  <2>1. \/ UNCHANGED coord
        \/ SetHeartbeat(p, 0)
        \/ SetHeartbeat(p, Pending(p).fence)
    BY <1>6 DEF Reserve
  <2>2. slot' = Pending(p)
    BY <1>6 DEF Reserve
  <2>3. Pending(p).coordinator = p
    <3>1. proc[p].row \in Row
      BY CallFacts
    <3> QED
      BY <3>1 DEF Pending, ReservedRow, Row
  <2> QED
    BY <1>1, <1>2, <2>1, <2>2, <2>3
<1>7. ASSUME NEW p \in Process, Unwind(p) \/ Release(p) \/ Heartbeat(p)
      PROVE  Kept \/ Started
  <2>1. UNCHANGED coord \/ SetHeartbeat(p, 0)
    BY <1>7 DEF Unwind, Release, Heartbeat
  <2> QED
    BY <1>1, <1>2, <2>1
<1>8. ASSUME NEW p \in Process,
             CloseForeign(p) \/ CloseOwn(p) \/ BeginShutdown(p)
      PROVE  Kept
  <2>1. \/ UNCHANGED coord
        \/ coord' = [coord EXCEPT ![p] = [coord[p] EXCEPT !.reset = "done", !.heartbeat = 0]]
        \/ coord' = [coord EXCEPT ![p] = [coord[p] EXCEPT !.stopping = TRUE, !.heartbeat = 0]]
    BY <1>8 DEF CloseForeign, CloseOwn, BeginShutdown
  <2>2. /\ [coord[p] EXCEPT !.reset = "done", !.heartbeat = 0].heartbeat = 0
        /\ [coord[p] EXCEPT !.stopping = TRUE, !.heartbeat = 0].heartbeat = 0
    BY <1>4 DEF Coordinators
  <2> QED
    BY <1>1, <1>3, <2>1, <2>2
<1>9. ASSUME NEW p \in Process, Settle(p) \/ ResetIdleInputOnStartup(p)
      PROVE  Kept
  <2>1. \/ UNCHANGED coord
        \/ \E reset, settled :
              coord' = [coord EXCEPT ![p] = [coord[p] EXCEPT !.reset = reset, !.settled = settled]]
        \/ \E reset, startup :
              coord' = [coord EXCEPT ![p] = [coord[p] EXCEPT !.reset = reset, !.startup = startup]]
        \/ coord' = [coord EXCEPT ![p].reset = "done"]
    BY <1>9 DEF Settle, ResetIdleInputOnStartup
  <2>2. \A reset, value :
           /\ [coord[p] EXCEPT !.reset = reset, !.settled = value].heartbeat = coord[p].heartbeat
           /\ [coord[p] EXCEPT !.reset = reset, !.startup = value].heartbeat = coord[p].heartbeat
    BY <1>4 DEF Coordinators
  <2>3. ASSUME coord' = [coord EXCEPT ![p].reset = "done"]
        PROVE  Kept
    BY <1>4, <2>3 DEF TypeOK, Coordinators
  <2>4. ASSUME NEW reset, NEW settled,
               coord' = [coord EXCEPT ![p] = [coord[p] EXCEPT !.reset = reset, !.settled = settled]]
        PROVE  Kept
    <3> DEFINE c == [coord[p] EXCEPT !.reset = reset, !.settled = settled]
    <3>1. c.heartbeat = coord[p].heartbeat
      BY <2>2
    <3>2. coord' = [coord EXCEPT ![p] = c]
      BY <2>4
    <3> HIDE DEF c
    <3> QED
      BY <1>3, <3>1, <3>2
  <2>5. ASSUME NEW reset, NEW startup,
               coord' = [coord EXCEPT ![p] = [coord[p] EXCEPT !.reset = reset, !.startup = startup]]
        PROVE  Kept
    <3> DEFINE c == [coord[p] EXCEPT !.reset = reset, !.startup = startup]
    <3>1. c.heartbeat = coord[p].heartbeat
      BY <2>2
    <3>2. coord' = [coord EXCEPT ![p] = c]
      BY <2>5
    <3> HIDE DEF c
    <3> QED
      BY <1>3, <3>1, <3>2
  <2> QED
    BY <1>1, <2>1, <2>3, <2>4, <2>5
<1>10. ASSUME NEW p \in Process,
              \/ Restore(p) \/ DeferOp(p) \/ AwaitExpiry(p) \/ EnsureRecovery(p) \/ TimerFires(p)
       PROVE  Kept
  <2>1. \/ UNCHANGED coord
        \/ \E value : \/ coord' = [coord EXCEPT ![p].startup = value]
                      \/ coord' = [coord EXCEPT ![p].timer = value]
                      \/ coord' = [coord EXCEPT ![p].reset = value]
                      \/ coord' = [coord EXCEPT ![p].settled = value]
    BY <1>10 DEF Restore, DeferOp, AwaitExpiry, EnsureRecovery, PassComplete, TimerFires
  <2> QED
    BY <1>1, <1>4, <2>1 DEF TypeOK, Coordinators
<1>11. ASSUME NEW p \in Process, Leave(p)
       PROVE  Kept
  <2>1. NewCoordinator.heartbeat = 0
    BY DEF NewCoordinator
  <2> QED
    BY <1>3, <1>11, <2>1 DEF Leave
<1>12. ASSUME NEW p \in Process,
              \/ SettleFails(p) \/ Detach(p) \/ \E w \in Workflow : SettleOp(p, w) \/ Commit(p, w)
              \/ Refuse(p) \/ Join(p) \/ Drain(p) \/ CommitRejected(p) \/ Relinquish(p)
       PROVE  UNCHANGED coord
  BY <1>12 DEF SettleFails, Detach, SettleOp, Commit, Refuse, Join, Drain, CommitRejected,
               Relinquish
<1>13. ASSUME NEW p \in Process, CallStep(p)
       PROVE  Kept \/ Started
  BY <1>1, <1>5, <1>6, <1>7, <1>8, <1>9, <1>10, <1>12, <1>13 DEF CallStep
<1>14. ASSUME NEW p \in Process, ClientStep(p)
       PROVE  Kept
  <2>1. CASE ResetIdleInputOnStartup(p)
    BY <1>9, <2>1
  <2> QED
    BY <1>1, <1>14, <2>1 DEF ClientStep, Abort, OpenInput, RecoverForMutation, ReleaseInput
<1>15. ASSUME NEW p \in Process, ProcessStep(p)
       PROVE  Kept \/ Started
  BY <1>7, <1>8, <1>10, <1>11, <1>15 DEF ProcessStep, Crash, FinishShutdown
<1>16. ASSUME (\E w \in Workflow : WorkerStep(w)) \/ Tick \/ UNCHANGED vars
       PROVE  Kept
  BY <1>1, <1>16 DEF WorkerStep, BeginEffect, CompleteEffect, FinishOperation, StrandOperation,
                     StartOperation, ResolveEffect, Tick, vars
<1> HIDE DEF Kept, Started
<1>17. Kept \/ Started
  BY <1>13, <1>14, <1>15, <1>16 DEF Next
<1> QED
  BY <1>17 DEF Kept, Started

\* A fence names one tenure: a heartbeat or a worker that still carries the
\* fence of the row belongs to its coordinator.
THEOREM FenceTheorem == Spec => []FenceNamesHolder
<1>1. Init => FenceNamesHolder
  BY DEF Init, FenceNamesHolder, ActiveOps, NewCoordinator, InitialRow
<1>2. TypeOK /\ FenceNamesHolder /\ [Next]_vars => FenceNamesHolder'
  <2> SUFFICES ASSUME TypeOK, FenceNamesHolder, [Next]_vars
               PROVE  FenceNamesHolder'
    OBVIOUS
  <2>1. /\ slot.fence \in Nat
        /\ \A p \in Process : coord[p].heartbeat \in Nat
        /\ \A w \in ActiveOps : op[w].fence \in Nat
    BY DEF TypeOK, Row, Coordinators, ActiveOps, Operations
  <2>2. ASSUME NEW p \in Process
        PROVE  /\ coord'[p].heartbeat <= slot'.fence
               /\ coord'[p].heartbeat = slot'.fence => slot'.fence = 0 \/ slot'.coordinator = p
    <3>1. /\ coord[p].heartbeat <= slot.fence
          /\ coord[p].heartbeat = slot.fence => slot.fence = 0 \/ slot.coordinator = p
      BY DEF FenceNamesHolder
    <3> QED
      BY <2>1, <3>1, FenceStep, HeartbeatStep
  <2>3. ASSUME NEW w \in Workflow, op'[w] # None
        PROVE  /\ op'[w].fence <= slot'.fence
               /\ op'[w].fence = slot'.fence => slot'.coordinator = op'[w].epoch
    <3>1. op[w] # None => /\ op[w].fence <= slot.fence
                          /\ op[w].fence = slot.fence => slot.coordinator = op[w].epoch
      BY DEF FenceNamesHolder, ActiveOps
    <3>2. op[w] # None => op[w].fence \in Nat
      BY <2>1 DEF ActiveOps
    <3> QED
      BY <2>1, <2>3, <3>1, <3>2, FenceStep, OperationStep
  <2> QED
    BY <2>2, <2>3 DEF FenceNamesHolder, ActiveOps
<1> QED
  BY <1>1, <1>2, TypeCorrect, PTL DEF Spec

\* What one step does to the effect of a workflow: it keeps its kind or ends,
\* or a worker begins it, under an active row for that workflow.
LEMMA EffectStep ==
    ASSUME TypeOK, [Next]_vars, NEW w \in Workflow
    PROVE  \/ effect'[w] \in {"none", effect[w], Uncertain(effect[w])}
           \/ UNCHANGED slot /\ slot.state = "active" /\ slot.workflow = w
<1> DEFINE Kept == effect'[w] \in {"none", effect[w], Uncertain(effect[w])}
           Begun == UNCHANGED slot /\ slot.state = "active" /\ slot.workflow = w
<1>1. ASSUME UNCHANGED effect
      PROVE  Kept
  BY <1>1
<1>2. ASSUME NEW v \in Workflow, effect' = [effect EXCEPT ![v] = Uncertain(@)]
      PROVE  Kept
  BY <1>2 DEF TypeOK
<1>3. ASSUME NEW v \in Workflow, effect' = [effect EXCEPT ![v] = "none"]
      PROVE  Kept
  BY <1>3 DEF TypeOK
<1>4. ASSUME NEW v \in Workflow, BeginEffect(v)
      PROVE  Kept \/ Begun
  <2>1. UNCHANGED slot /\ slot.state = "active" /\ slot.workflow = v
    BY <1>4 DEF BeginEffect, WorkerOf, Authorised, MayMutate
  <2>2. v # w => effect'[w] = effect[w]
    BY <1>4 DEF BeginEffect, TypeOK
  <2> QED
    BY <2>1, <2>2
<1>5. ASSUME NEW p \in Process, NEW v \in Workflow, NEW fence, RecoverOp(p, fence, v)
      PROVE  Kept
  BY <1>2, <1>5 DEF RecoverOp, InterruptOp, ResumeOp
<1>6. ASSUME NEW p \in Process, SettleFails(p)
      PROVE  Kept
  <2>1. UNCHANGED effect \/ \E v \in Workflow : effect' = [effect EXCEPT ![v] = Uncertain(@)]
    BY <1>6 DEF SettleFails, ForeignOps, ActiveOps
  <2> QED
    BY <1>1, <1>2, <2>1
<1>7. ASSUME NEW p \in Process, CallStep(p)
      PROVE  Kept
  <2>1. ASSUME \E v \in Workflow : SettleOp(p, v)
        PROVE  Kept
    BY <1>5, <2>1 DEF SettleOp
  <2>2. ASSUME \/ \E v \in Workflow : Commit(p, v)
               \/ Claim(p) \/ Restore(p) \/ Settle(p) \/ DeferOp(p) \/ Detach(p)
        PROVE  UNCHANGED effect
    BY <2>2 DEF Commit, Claim, Restore, Settle, DeferOp, Detach
  <2>3. ASSUME \/ Reserve(p) \/ Refuse(p) \/ Join(p) \/ Drain(p) \/ CommitRejected(p)
               \/ Unwind(p) \/ Relinquish(p) \/ Release(p) \/ CloseForeign(p)
               \/ AwaitExpiry(p) \/ CloseOwn(p)
        PROVE  UNCHANGED effect
    BY <2>3 DEF Reserve, Refuse, Join, Drain, CommitRejected, Unwind, Relinquish, Release,
                CloseForeign, AwaitExpiry, CloseOwn
  <2> QED
    BY <1>1, <1>6, <1>7, <2>1, <2>2, <2>3 DEF CallStep
<1>8. ASSUME NEW p \in Process, ClientStep(p)
      PROVE  Kept
  BY <1>1, <1>8 DEF ClientStep, Abort, OpenInput, RecoverForMutation, ReleaseInput,
                    ResetIdleInputOnStartup
<1>9. ASSUME NEW p \in Process, ProcessStep(p)
      PROVE  Kept
  <2>1. ASSUME EnsureRecovery(p) \/ TimerFires(p)
        PROVE  Kept
    <3>1. UNCHANGED effect \/ \E v \in Workflow, fence \in {slot.fence, coord[p].timer} : RecoverOp(p, fence, v)
      BY <2>1 DEF EnsureRecovery, TimerFires
    <3> QED
      BY <1>1, <1>5, <3>1
  <2>2. ASSUME Heartbeat(p) \/ BeginShutdown(p) \/ Crash(p) \/ FinishShutdown(p)
        PROVE  UNCHANGED effect
    BY <2>2 DEF Heartbeat, BeginShutdown, Crash, FinishShutdown
  <2> QED
    BY <1>1, <1>9, <2>1, <2>2 DEF ProcessStep
<1>10. ASSUME NEW v \in Workflow, WorkerStep(v)
       PROVE  Kept \/ Begun
  <2>1. ASSUME CompleteEffect(v) \/ \E p \in Process : ResolveEffect(p, v)
        PROVE  Kept
    BY <1>3, <2>1 DEF CompleteEffect, ResolveEffect
  <2>2. ASSUME StrandOperation(v) \/ \E p \in Process : StartOperation(p, v)
        PROVE  UNCHANGED effect
    BY <2>2 DEF StrandOperation, StartOperation
  <2>3. ASSUME FinishOperation(v)
        PROVE  Kept
    BY <1>2, <2>3 DEF FinishOperation
  <2> QED
    BY <1>1, <1>4, <1>10, <2>1, <2>2, <2>3 DEF WorkerStep
<1>11. ASSUME Tick \/ UNCHANGED vars
       PROVE  Kept
  BY <1>1, <1>11 DEF Tick, vars
<1> HIDE DEF Kept, Begun
<1>12. Kept \/ Begun
  BY <1>7, <1>8, <1>9, <1>10, <1>11 DEF Next
<1> QED
  BY <1>12 DEF Kept, Begun

\* While the row names an input, only its own workflow, or one whose submission
\* fence isolates it, has an unresolved external effect.
THEOREM IsolationTheorem == Spec => []UncertaintyIsolated
<1>1. Init => UncertaintyIsolated
  BY DEF Init, UncertaintyIsolated, Unresolved
<1>2. TypeOK /\ UncertaintyIsolated /\ [Next]_vars => UncertaintyIsolated'
  <2> SUFFICES ASSUME TypeOK, UncertaintyIsolated, [Next]_vars, slot'.state # "empty",
                      NEW w \in Workflow, effect'[w] # "none",
                      effect'[w] \notin {"site_started", "site_unknown"}
               PROVE  slot'.workflow = w
    BY DEF UncertaintyIsolated, Unresolved, Isolated
  <2>1. CASE UNCHANGED slot /\ slot.workflow = w
    BY <2>1
  <2>2. CASE effect'[w] \in {"none", effect[w], Uncertain(effect[w])}
    <3>1. effect[w] \in Effects
      BY DEF TypeOK
    <3>2. effect[w] # "none" /\ effect[w] \notin {"site_started", "site_unknown"}
      BY <2>2, <3>1, UncertainFacts
    <3>3. w \in Unresolved \ Isolated
      BY <3>2 DEF Unresolved, Isolated
    <3>4. slot.state # "empty" => slot.workflow = w
      BY <3>3 DEF UncertaintyIsolated
    <3>5. ~RowClosed
      BY DEF RowClosed, EmptyRow, TypeOK, Row
    <3>6. RowSwapped => slot.state # "empty" /\ slot'.workflow = slot.workflow
      BY <3>3, AcceptedEffects DEF RowSwapped, CanSwap, TypeOK
    <3> QED
      BY <3>4, <3>5, <3>6, RowStep DEF RowKept
  <2> QED
    BY <2>1, <2>2, EffectStep
<1> QED
  BY <1>1, <1>2, TypeCorrect, PTL DEF Spec

\* An active row, and a switch pending from one, name the committed workflow.
InputNamed == slot.state \in {"active", "switch_pending"} => slot.workflow \in Workflow

\* A switch becomes pending only when its input has no unresolved effect, and
\* none begins before the switch is committed, rolled back or recovered.
THEOREM QuietTheorem == Spec => []PendingSwitchIsQuiet
<1>1. Init => InputNamed /\ PendingSwitchIsQuiet
  BY DEF Init, InputNamed, PendingSwitchIsQuiet, InitialRow
<1>2. TypeOK /\ InputNamed /\ PendingSwitchIsQuiet /\ [Next]_vars
         => InputNamed' /\ PendingSwitchIsQuiet'
  <2> SUFFICES ASSUME TypeOK, InputNamed, PendingSwitchIsQuiet, [Next]_vars
               PROVE  InputNamed' /\ PendingSwitchIsQuiet'
    OBVIOUS
  <2>1. RowClosed => slot'.state = "empty"
    BY DEF RowClosed, EmptyRow, TypeOK, Row
  <2>2. ASSUME RowSwapped
        PROVE  /\ slot'.state = "active" => slot'.workflow \in Workflow
               /\ slot'.state = "switch_pending" =>
                     slot.state = "active" /\ slot'.workflow = slot.workflow
    BY <2>2, AcceptedInput DEF RowSwapped, CanSwap, TypeOK, Row
  <2>3. InputNamed'
    BY <2>1, <2>2, RowStep DEF RowKept, InputNamed
  <2>4. ASSUME slot'.state = "switch_pending"
        PROVE  effect'[slot'.workflow] = "none"
    <3>1. slot.workflow \in Workflow /\ slot'.workflow = slot.workflow /\ ~RowClosed
      BY <2>1, <2>2, <2>4, RowStep DEF RowKept, InputNamed
    <3>2. effect[slot.workflow] = "none"
      <4>1. CASE RowKept
        BY <2>4, <4>1 DEF RowKept, PendingSwitchIsQuiet
      <4>2. CASE RowSwapped
        <5>1. /\ Unresolved \ Isolated = {}
              /\ Isolated \cap {slot.workflow, slot'.workflow} = {}
          <6>1. PICK expected \in Row : CanSwap(expected, slot')
            BY <4>2 DEF RowSwapped
          <6>2. slot'.state \notin {"recovering", "active"}
            BY <2>4
          <6>3. slot \in Row /\ slot' \in Row
            BY <4>2 DEF RowSwapped, TypeOK
          <6> QED
            BY <6>1, <6>2, <6>3, AcceptedEffects DEF CanSwap
        <5>2. slot.workflow \notin Unresolved
          BY <5>1
        <5> QED
          BY <3>1, <5>2 DEF Unresolved
      <4> QED
        BY <3>1, <4>1, <4>2, RowStep
    <3>3. ~(UNCHANGED slot /\ slot.state = "active")
      BY <2>4
    <3>4. Uncertain("none") = "none"
      BY DEF Uncertain
    <3> QED
      BY <3>1, <3>2, <3>3, <3>4, EffectStep
  <2> QED
    BY <2>3, <2>4 DEF PendingSwitchIsQuiet
<1> QED
  BY <1>1, <1>2, TypeCorrect, PTL DEF Spec


-----------------------------------------------------------------------------
(* The promise of InputTenure.                                             *)

\* An empty row names no workflow.
EmptyIsUnbound == slot.state = "empty" => slot.workflow = None

\* What EmptyIsUnbound needs of each kind of step.
LEMMA EmptyStep ==
    ASSUME TypeOK, EmptyIsUnbound, [Next]_vars
    PROVE  EmptyIsUnbound'
<1>1. CASE RowSwapped
  BY <1>1 DEF RowSwapped, CanSwap, TransitionAccepted, ShapeValid, EmptyIsUnbound
<1>2. CASE RowClosed
  BY <1>2 DEF RowClosed, EmptyRow, TypeOK, Row, EmptyIsUnbound
<1> QED
  BY <1>1, <1>2, RowStep DEF RowKept, EmptyIsUnbound

\* The steps of InputTenure that the coordinators take, by fields.
LEMMA TenureFields ==
    ASSUME NEW w, NEW f, NEW ph, NEW w2, NEW f2, NEW ph2,
           NEW busy, NEW isolated, NEW blocking,
           \/ w2 = w /\ f2 = f /\ ph2 = "idle"
           \/ w2 = None /\ f2 = f /\ ph2 = "idle" /\ busy = {}
           \/ w2 = w /\ f2 = f + 1 /\ ph = "idle" /\ ph2 = "recovering"
           \/ w2 = w /\ f2 = f + 1 /\ ph = "idle" /\ ph2 = "pending" /\ w = None /\ busy = {} /\ blocking = {}
           \/ w2 = w /\ f2 = f /\ ph = "recovering" /\ ph2 = "active" /\ w # None
           \/ /\ w2 = w /\ f2 = f /\ ph = "active" /\ ph2 = "pending"
              /\ blocking = {} /\ w \notin isolated
           \/ /\ f2 = f /\ ph # "idle" /\ ph2 \in {"active", "idle"} /\ w2 # None
              /\ busy = {} /\ blocking = {} /\ isolated \cap {w, w2} = {}
    PROVE  Tenure!TenureStep(Tenure!Input(w, f, ph, FALSE), Tenure!Input(w2, f2, ph2, FALSE), busy, isolated, blocking)
<1> DEFINE old == Tenure!Input(w, f, ph, FALSE)
           new == Tenure!Input(w2, f2, ph2, FALSE)
<1>1. old.workflow = w /\ old.fence = f /\ old.phase = ph /\ old.legacy = FALSE
  BY DEF Tenure!Input
<1>2. new.workflow = w2 /\ new.phase = ph2
  BY DEF Tenure!Input
<1>3. new = Tenure!Input(w2, f2, ph2, FALSE)
  OBVIOUS
<1> HIDE DEF old, new
<1>4. CASE w2 = w /\ f2 = f /\ ph2 = "idle"
  <2>1. Tenure!Lapse(old, new)
    BY <1>1, <1>3, <1>4 DEF Tenure!Lapse
  <2> QED
    BY <2>1 DEF Tenure!TenureStep, old, new
<1>5. CASE w2 = None /\ f2 = f /\ ph2 = "idle" /\ busy = {}
  <2>1. Tenure!Close(old, new, busy)
    BY <1>1, <1>3, <1>5 DEF Tenure!Close
  <2> QED
    BY <2>1 DEF Tenure!TenureStep, old, new
<1>6. CASE w2 = w /\ f2 = f + 1 /\ ph = "idle" /\ ph2 = "recovering"
  <2>1. Tenure!Recover(old, new)
    BY <1>1, <1>3, <1>6 DEF Tenure!Recover
  <2> QED
    BY <2>1 DEF Tenure!TenureStep, old, new
<1>7. CASE w2 = w /\ f2 = f + 1 /\ ph = "idle" /\ ph2 = "pending" /\ w = None /\ busy = {} /\ blocking = {}
  <2>1. Tenure!Open(old, new, busy, blocking)
    BY <1>1, <1>3, <1>7 DEF Tenure!Open
  <2> QED
    BY <2>1 DEF Tenure!TenureStep, old, new
<1>8. CASE w2 = w /\ f2 = f /\ ph = "recovering" /\ ph2 = "active" /\ w # None
  <2>1. Tenure!Restore(old, new)
    BY <1>1, <1>3, <1>8 DEF Tenure!Restore
  <2> QED
    BY <2>1 DEF Tenure!TenureStep, old, new
<1>9. CASE /\ w2 = w /\ f2 = f /\ ph = "active" /\ ph2 = "pending"
            /\ blocking = {} /\ w \notin isolated
  <2>1. Tenure!Reserve(old, new, isolated, blocking)
    BY <1>1, <1>3, <1>9 DEF Tenure!Reserve
  <2> QED
    BY <2>1 DEF Tenure!TenureStep, old, new
<1>10. CASE /\ f2 = f /\ ph # "idle" /\ ph2 \in {"active", "idle"} /\ w2 # None
            /\ busy = {} /\ blocking = {} /\ isolated \cap {w, w2} = {}
  <2>1. Tenure!Commit(old, new, busy, isolated, blocking)
    BY <1>1, <1>2, <1>3, <1>10 DEF Tenure!Commit
  <2> QED
    BY <2>1 DEF Tenure!TenureStep, old, new
<1> QED
  BY <1>4, <1>5, <1>6, <1>7, <1>8, <1>9, <1>10

\* A step on the row is a stutter or a step of InputTenure.
LEMMA PromiseStep ==
    ASSUME TypeOK, EmptyIsUnbound, [Next]_vars
    PROVE  \/ View(slot') = View(slot)
           \/ Tenure!TenureStep(View(slot), View(slot'), ActiveOps, Isolated,
                                Unresolved \ Isolated)
<1> DEFINE busy == ActiveOps
           isolated == Isolated
           blocking == Unresolved \ Isolated
           w == slot.workflow
           f == slot.fence
           ph == Phase(slot)
           w2 == slot'.workflow
           f2 == slot'.fence
           ph2 == Phase(slot')
<1> HIDE DEF busy, isolated, blocking
<1>1. slot \in Row
  BY DEF TypeOK
<1> SUFFICES \/ w2 = w /\ f2 = f /\ ph2 \in {"idle", ph}
             \/ w2 = None /\ f2 = f /\ ph2 = "idle" /\ busy = {}
             \/ w2 = w /\ f2 = f + 1 /\ ph = "idle" /\ ph2 = "recovering"
             \/ w2 = w /\ f2 = f + 1 /\ ph = "idle" /\ ph2 = "pending" /\ w = None
                /\ busy = {} /\ blocking = {}
             \/ w2 = w /\ f2 = f /\ ph = "recovering" /\ ph2 = "active" /\ w # None
             \/ /\ w2 = w /\ f2 = f /\ ph = "active" /\ ph2 = "pending"
                /\ blocking = {} /\ w \notin isolated
             \/ /\ f2 = f /\ ph # "idle" /\ ph2 \in {"active", "idle"} /\ w2 # None
                /\ busy = {} /\ blocking = {} /\ isolated \cap {w, w2} = {}
  <2> HIDE DEF w, f, ph, w2, f2, ph2
  <2>1. View(slot) = Tenure!Input(w, f, ph, FALSE) /\ View(slot') = Tenure!Input(w2, f2, ph2, FALSE)
    BY DEF View, w, f, ph, w2, f2, ph2
  <2>2. \/ Tenure!Input(w2, f2, ph2, FALSE) = Tenure!Input(w, f, ph, FALSE)
        \/ Tenure!TenureStep(Tenure!Input(w, f, ph, FALSE), Tenure!Input(w2, f2, ph2, FALSE), busy, isolated, blocking)
    BY TenureFields
  <2> QED
    BY <2>1, <2>2 DEF busy, isolated, blocking
<1>2. CASE RowKept
  BY <1>2 DEF RowKept, Phase
<1>3. CASE RowClosed
  BY <1>1, <1>3 DEF RowClosed, EmptyRow, Row, Acquirable, Phase, busy
<1>4. CASE RowSwapped
  <2>1. PICK expected \in Row : TransitionAccepted(slot, expected, slot', busy, isolated, blocking)
    BY <1>4 DEF RowSwapped, CanSwap, busy, isolated, blocking
  <2>2. slot' \in Row
    BY <1>4 DEF RowSwapped
  <2>3. CASE slot'.state = "recovering"
    BY <1>1, <2>1, <2>2, <2>3 DEF TransitionAccepted, ShapeValid, AcquisitionValid, Acquirable,
       Phase
  <2>4. CASE slot'.state = "opening"
    <3>1. busy = {} /\ blocking = {}
      BY <2>1, <2>4 DEF TransitionAccepted, EffectsPermit, OperationsPermit, RestoringOwnedInput
    <3> QED
      BY <1>1, <2>1, <2>2, <2>4, <3>1 DEF TransitionAccepted, ShapeValid, AcquisitionValid,
         Acquirable, Phase, EmptyIsUnbound
  <2>5. ASSUME slot'.state \in {"switch_pending", "active", "empty"}
        PROVE  ~Acquirable(slot) /\ TenureKept(slot, slot')
    BY <1>1, <2>1, <2>5 DEF TransitionAccepted, ShapeValid, AcquisitionValid, Acquirable
  <2>6. CASE slot'.state = "empty"
    <3>1. busy = {} /\ slot'.workflow = None
      BY <2>1, <2>6 DEF TransitionAccepted, OperationsPermit, RestoringOwnedInput, ShapeValid
    <3> QED
      BY <2>5, <2>6, <3>1 DEF TenureKept, Acquirable, Phase
  <2>7. CASE slot'.state = "switch_pending"
    <3>1. /\ slot.state = "active" /\ slot'.workflow = slot.workflow
          /\ blocking = {} /\ slot.workflow \notin isolated
      BY <2>1, <2>7 DEF TransitionAccepted, ShapeValid, EffectsPermit, RestoringOwnedInput
    <3> QED
      BY <2>5, <2>7, <3>1 DEF TenureKept, Acquirable, Phase
  <2>8. CASE slot'.state = "active"
    <3>1. slot'.workflow # None
      BY <2>1, <2>8 DEF TransitionAccepted, ShapeValid
    <3>2. CASE RestoringOwnedInput(slot, slot')
      BY <2>5, <2>8, <3>1, <3>2 DEF TenureKept, Acquirable, RestoringOwnedInput, Phase
    <3>3. CASE ~RestoringOwnedInput(slot, slot')
      <4>1. busy = {} /\ blocking = {} /\ isolated \cap {slot.workflow, slot'.workflow} = {}
        BY <2>1, <2>8, <3>3 DEF TransitionAccepted, EffectsPermit, OperationsPermit
      <4> QED
        BY <1>1, <2>5, <2>8, <3>1, <4>1 DEF TenureKept, Acquirable, Row, States, Phase
    <3> QED
      BY <3>2, <3>3
  <2> QED
    BY <2>2, <2>3, <2>4, <2>6, <2>7, <2>8 DEF Row, States
<1> QED
  BY <1>2, <1>3, <1>4, RowStep

\* Every step of every process on the row is one that InputTenure lists: what
\* SubmissionFence assumes of its input holds for every value of the constants.
THEOREM PromiseTheorem == Spec => RowPromise
<1>1. Init => EmptyIsUnbound
  BY DEF Init, InitialRow, EmptyIsUnbound
<1>2. TypeOK /\ EmptyIsUnbound /\ [Next]_vars =>
         /\ EmptyIsUnbound'
         /\ [\/ View(slot') = View(slot)
             \/ Tenure!TenureStep(View(slot), View(slot'), ActiveOps, Isolated,
                                  Unresolved \ Isolated)]_vars
  BY EmptyStep, PromiseStep
<1> QED
  BY <1>1, <1>2, TypeCorrect, PTL DEF Spec, RowPromise

-----------------------------------------------------------------------------
(* The committed input.                                                    *)

\* The row is one of the commitment: it names its workflow, and it has a key of
\* its own only as long as it is reserved.
InputOf(row, commitment) ==
    /\ commitment = None => row.workflow = None
    /\ commitment # None => row.workflow = commitment.workflow
    /\ row.state = "empty" => row.workflow = None /\ ~row.reserved /\ row.key = None
    /\ row.state = "opening" => row.workflow = None
    /\ row.state \in {"opening", "switch_pending"} => row.reserved
    /\ row.state = "active" => ~row.reserved
    /\ ~row.reserved =>
          row.key = None \/ (commitment # None /\ row.key = commitment.key)

\* Two rows with the same revision and the same input.
SameInput(row, other) ==
    /\ row.revision = other.revision /\ row.state = other.state
    /\ row.workflow = other.workflow /\ row.reserved = other.reserved
    /\ row.key = other.key

\* The points of a call at which it may still write over the row it read, and
\* those at which it has reserved the row and may still commit or roll back.
ReadPoints == {"claim", "restore", "settle", "detach", "admit", "release",
               "close_foreign", "close_own"}

PendingPoints == {"join", "drain", "verify", "unwind", "relinquish"}

\* A row a call has read is of an earlier revision, which no transaction lets
\* it write over, or it names the input committed last.
CaptureOK(p) ==
    /\ proc[p].at \in ReadPoints =>
          /\ proc[p].row.revision <= slot.revision
          /\ proc[p].row.revision = slot.revision => InputOf(proc[p].row, published)
    /\ proc[p].at \in PendingPoints =>
          /\ proc[p].row.revision < slot.revision
          /\ proc[p].row.revision + 1 = slot.revision => InputOf(proc[p].row, published)

\* The inductive invariant behind CommittedInputKept.
CaptureInv == InputOf(slot, published) /\ \A p \in Process : CaptureOK(p)

\* Claiming a row for recovery keeps its input.
LEMMA RecoveringInput ==
    ASSUME NEW row \in Row, NEW p \in Process, NEW c, InputOf(row, c)
    PROVE  InputOf(RecoveringRow(row, p), c)
BY DEF RecoveringRow, InputOf, Row

\* A closed row is of no commitment.
LEMMA EmptyInput ==
    ASSUME NEW row \in Row
    PROVE  InputOf(EmptyRow(row), None)
BY DEF EmptyRow, InputOf, Row

\* Restoring a row keeps the committed input and drops the key of an abandoned
\* request.
LEMMA RestoredInput ==
    ASSUME NEW row \in Row, NEW c \in Commitments \cup {None}, InputOf(row, c)
    PROVE  InputOf(RestoredRow(row), c)
<1>1. CASE row.workflow = None
  <2>1. c = None
    BY <1>1, NoneAssumption DEF InputOf, Commitments
  <2> QED
    BY <1>1, <2>1, EmptyInput DEF RestoredRow
<1>2. CASE row.workflow # None
  BY <1>2 DEF RestoredRow, InputOf, Row
<1> QED
  BY <1>1, <1>2

\* A reservation keeps the input it may replace.
LEMMA ReservedInput ==
    ASSUME NEW row \in Row, NEW p, NEW owner, NEW key, NEW c, InputOf(row, c)
    PROVE  /\ InputOf(ReservedRow(row, p, owner, key), c)
           /\ ReservedRow(row, p, owner, key).revision = row.revision + 1
           /\ ReservedRow(row, p, owner, key).key = key
<1>1. (IF row.state = "empty" THEN "opening" ELSE "switch_pending") \in {"opening", "switch_pending"}
  OBVIOUS
<1> QED
  BY <1>1 DEF ReservedRow, InputOf, Row

\* A commit makes the row one of its own commitment.
LEMMA CommittedInput ==
    ASSUME NEW row \in Row, NEW w \in Workflow, NEW key \in Key, row.key = key
    PROVE  /\ [workflow |-> w, key |-> key] \in Commitments
           /\ InputOf(CommittedRow(row, w), [workflow |-> w, key |-> key])
<1>1. [workflow |-> w, key |-> key] \in Commitments
  BY DEF Commitments
<1>2. [workflow |-> w, key |-> key] # None
  BY <1>1, CommitmentsAssumption
<1> QED
  BY <1>1, <1>2 DEF CommittedRow, InputOf, Row

\* A rollback keeps the input of the row before the reservation.
LEMMA RolledBackInput ==
    ASSUME NEW prior \in Row, NEW pending \in Row, NEW c, InputOf(prior, c)
    PROVE  InputOf(RolledBackRow(prior, pending), c)
BY DEF RolledBackRow, InputOf, Row

\* What a step may do to the input in the row: nothing, or write it under the
\* next revision for the commitment that is then the last.
InputKept == SameInput(slot', slot) /\ UNCHANGED published

InputWritten == slot'.revision = slot.revision + 1 /\ InputOf(slot', published')

\* A swap the transaction accepts writes the next revision of the row.
LEMMA SwapInput ==
    ASSUME NEW expected \in Row, NEW next, CanSwap(expected, next), slot' = next,
           InputOf(next, published')
    PROVE  InputWritten /\ expected.revision = slot.revision
BY DEF CanSwap, TransitionAccepted, SameClaim, InputWritten

\* A reservation is of the row that was read, and its key of the request.
LEMMA PendingInput ==
    ASSUME TypeOK, NEW p \in Process, proc[p].at \in OpenPoints
    PROVE  /\ Pending(p) \in Row /\ proc[p].request.key \in Key
           /\ Pending(p).revision = proc[p].row.revision + 1
           /\ Pending(p).key = proc[p].request.key
           /\ \A c : InputOf(proc[p].row, c) => InputOf(Pending(p), c)
<1>1. proc[p].row \in Row /\ proc[p].request \in [owner : Owner, source : Source, key : Key]
  BY CallFacts
<1>2. Pending(p) \in Row
  BY <1>1, ReservedRowType DEF Pending
<1>3. /\ Pending(p).revision = proc[p].row.revision + 1
      /\ Pending(p).key = proc[p].request.key
  BY <1>1 DEF Pending, ReservedRow, Row
<1>4. \A c : InputOf(proc[p].row, c) => InputOf(Pending(p), c)
  BY <1>1, ReservedInput DEF Pending
<1> QED
  BY <1>1, <1>2, <1>3, <1>4

\* A call that has read the row of this revision has read the committed input.
LEMMA CaptureFacts ==
    ASSUME TypeOK, CaptureInv, NEW p \in Process
    PROVE  /\ proc[p].row \in Row /\ slot \in Row /\ InputOf(slot, published)
           /\ proc[p].at \in ReadPoints /\ proc[p].row.revision = slot.revision
                 => InputOf(proc[p].row, published)
           /\ proc[p].at \in PendingPoints /\ proc[p].row.revision + 1 = slot.revision
                 => InputOf(proc[p].row, published)
BY CallFacts DEF CaptureInv, CaptureOK, TypeOK

\* The writes of the recovery calls.
LEMMA RecoveryInput ==
    ASSUME TypeOK, CaptureInv, NEW p \in Process, Claim(p) \/ Restore(p) \/ Detach(p)
    PROVE  InputKept \/ InputWritten
<1> DEFINE row == proc[p].row
<1>1. row \in Row /\ published \in Commitments \cup {None}
  BY CallFacts DEF TypeOK
<1>2. \A next : CanSwap(row, next) => row.revision = slot.revision
  BY DEF CanSwap, TransitionAccepted, SameClaim
<1>3. UNCHANGED <<slot, published>> => InputKept
  BY DEF InputKept, SameInput
<1>4. CASE Claim(p)
  <2>1. UNCHANGED published /\ proc[p].at \in ReadPoints
    BY <1>4 DEF Claim, Call, ReadPoints
  <2>2. \/ UNCHANGED slot
        \/ CanSwap(row, RecoveringRow(row, p)) /\ slot' = RecoveringRow(row, p)
    BY <1>4 DEF Claim
  <2>3. CanSwap(row, RecoveringRow(row, p)) => InputOf(RecoveringRow(row, p), published)
    BY <1>1, <1>2, <2>1, CaptureFacts, RecoveringInput
  <2> QED
    BY <1>1, <1>3, <2>1, <2>2, <2>3, SwapInput
<1>5. CASE Restore(p)
  <2>1. UNCHANGED published /\ proc[p].at \in ReadPoints
    BY <1>5 DEF Restore, Call, ReadPoints
  <2>2. \/ UNCHANGED slot
        \/ CanSwap(row, RestoredRow(row)) /\ slot' = RestoredRow(row)
    BY <1>5 DEF Restore
  <2>3. CanSwap(row, RestoredRow(row)) => InputOf(RestoredRow(row), published)
    BY <1>1, <1>2, <2>1, CaptureFacts, RestoredInput
  <2> QED
    BY <1>1, <1>3, <2>1, <2>2, <2>3, SwapInput
<1>6. CASE Detach(p)
  <2>1. \/ UNCHANGED <<slot, published>>
        \/ CanSwap(row, EmptyRow(row)) /\ slot' = EmptyRow(row) /\ published' = None
    BY <1>6 DEF Detach
  <2>2. InputOf(EmptyRow(row), None)
    BY <1>1, EmptyInput
  <2> QED
    BY <1>1, <1>3, <2>1, <2>2, SwapInput
<1> QED
  BY <1>4, <1>5, <1>6

\* The writes of OpenInput.
LEMMA OpenInputStep ==
    ASSUME TypeOK, CaptureInv, NEW p \in Process,
           \/ Reserve(p) \/ Unwind(p) \/ Relinquish(p)
           \/ \E w \in Workflow : Commit(p, w)
    PROVE  InputKept \/ InputWritten
<1> DEFINE row == proc[p].row
<1>1. row \in Row /\ slot \in Row
  BY CallFacts DEF TypeOK
<1>2. UNCHANGED <<slot, published>> => InputKept
  BY DEF InputKept, SameInput
<1>3. {"admit", "verify", "unwind", "relinquish"} \subseteq OpenPoints
  BY DEF OpenPoints
<1>4. CASE Reserve(p)
  <2>1. /\ proc[p].at = "admit" /\ UNCHANGED published
        /\ CanSwap(row, Pending(p)) /\ slot' = Pending(p)
    BY <1>4 DEF Reserve, Call
  <2>2. row.revision = slot.revision
    BY <2>1 DEF CanSwap, TransitionAccepted, SameClaim
  <2>3. InputOf(row, published)
    BY <2>1, <2>2, CaptureFacts DEF ReadPoints
  <2>4. InputOf(Pending(p), published')
    BY <1>3, <2>1, <2>3, PendingInput
  <2> QED
    BY <1>1, <2>1, <2>4, SwapInput
<1>5. ASSUME NEW w \in Workflow, Commit(p, w)
      PROVE  InputWritten
  <2>1. /\ proc[p].at = "verify"
        /\ CanSwap(Pending(p), CommittedRow(Pending(p), w))
        /\ slot' = CommittedRow(Pending(p), w)
        /\ published' = [workflow |-> w, key |-> proc[p].request.key]
    BY <1>5 DEF Commit, CommitAccepted, Call
  <2>2. /\ Pending(p) \in Row /\ proc[p].request.key \in Key
        /\ Pending(p).key = proc[p].request.key
    BY <1>3, <2>1, PendingInput
  <2>3. InputOf(slot', published')
    BY <2>1, <2>2, CommittedInput
  <2> QED
    BY <2>1, <2>2, <2>3, SwapInput
<1>6. CASE Unwind(p)
  <2>1. /\ proc[p].at = "unwind" /\ UNCHANGED published
        /\ \/ UNCHANGED slot
           \/ /\ CanSwap(Pending(p), RolledBackRow(row, Pending(p)))
              /\ slot' = RolledBackRow(row, Pending(p))
    BY <1>6 DEF Unwind, Call
  <2>2. Pending(p) \in Row /\ Pending(p).revision = row.revision + 1
    BY <1>3, <2>1, PendingInput
  <2>3. ASSUME CanSwap(Pending(p), RolledBackRow(row, Pending(p)))
        PROVE  InputOf(RolledBackRow(row, Pending(p)), published)
    <3>1. row.revision + 1 = slot.revision
      BY <2>2, <2>3 DEF CanSwap, TransitionAccepted, SameClaim
    <3>2. InputOf(row, published)
      BY <2>1, <3>1, CaptureFacts DEF PendingPoints
    <3> QED
      BY <1>1, <2>2, <3>2, RolledBackInput
  <2> QED
    BY <1>2, <2>1, <2>2, <2>3, SwapInput
<1>7. CASE Relinquish(p)
  BY <1>1, <1>7 DEF Relinquish, InputKept, SameInput, Row
<1> QED
  BY <1>4, <1>5, <1>6, <1>7

\* The writes that close the slot.
LEMMA CloseInput ==
    ASSUME TypeOK, NEW p \in Process, Release(p) \/ CloseForeign(p) \/ CloseOwn(p)
    PROVE  InputKept \/ InputWritten
<1> DEFINE row == proc[p].row
<1>1. row \in Row /\ slot \in Row
  BY CallFacts DEF TypeOK
<1>2. UNCHANGED <<slot, published>> => InputKept
  BY DEF InputKept, SameInput
<1>3. \/ UNCHANGED <<slot, published>>
      \/ slot' = EmptyRow(slot) /\ published' = None
      \/ CanSwap(row, EmptyRow(row)) /\ slot' = EmptyRow(row) /\ published' = None
  BY DEF Release, CloseForeign, CloseOwn, CloseIdle
<1>4. InputOf(EmptyRow(slot), None) /\ InputOf(EmptyRow(row), None)
  BY <1>1, EmptyInput
<1>5. EmptyRow(slot).revision = slot.revision + 1
  BY <1>1 DEF EmptyRow, Row
<1> QED
  BY <1>1, <1>2, <1>3, <1>4, <1>5, SwapInput DEF InputWritten

\* A step leaves the input in the row alone or writes that of the commitment.
LEMMA InputStep ==
    ASSUME TypeOK, CaptureInv, [Next]_vars
    PROVE  InputKept \/ InputWritten
<1>1. UNCHANGED <<slot, published>> => InputKept
  BY DEF InputKept, SameInput
<1>2. slot \in Row
  BY DEF TypeOK
<1>3. ASSUME NEW p \in Process, CallStep(p)
      PROVE  InputKept \/ InputWritten
  <2>1. ASSUME \/ Settle(p) \/ SettleFails(p) \/ DeferOp(p) \/ \E w \in Workflow : SettleOp(p, w)
               \/ Refuse(p) \/ Join(p) \/ Drain(p) \/ CommitRejected(p) \/ AwaitExpiry(p)
        PROVE  UNCHANGED <<slot, published>>
    BY <2>1 DEF Settle, SettleFails, DeferOp, SettleOp, Refuse, Join, Drain, CommitRejected,
                AwaitExpiry
  <2> QED
    BY <1>1, <1>3, <2>1, RecoveryInput, OpenInputStep, CloseInput DEF CallStep
<1>4. ASSUME NEW p \in Process, ClientStep(p)
      PROVE  UNCHANGED <<slot, published>>
  BY <1>4 DEF ClientStep, Abort, OpenInput, RecoverForMutation, ReleaseInput,
              ResetIdleInputOnStartup
<1>5. ASSUME NEW p \in Process, ProcessStep(p)
      PROVE  InputKept
  <2>1. CASE EnsureRecovery(p) \/ TimerFires(p) \/ Crash(p) \/ BeginShutdown(p)
    BY <1>1, <2>1 DEF EnsureRecovery, TimerFires, Crash, BeginShutdown
  <2>2. CASE Heartbeat(p) \/ FinishShutdown(p)
    BY <1>2, <2>2 DEF Heartbeat, FinishShutdown, InputKept, SameInput, Row
  <2> QED
    BY <1>5, <2>1, <2>2 DEF ProcessStep
<1>6. ASSUME NEW w \in Workflow, WorkerStep(w)
      PROVE  UNCHANGED <<slot, published>>
  BY <1>6 DEF WorkerStep, BeginEffect, CompleteEffect, FinishOperation, StrandOperation,
              StartOperation, ResolveEffect
<1>7. CASE Tick
  BY <1>2, <1>7 DEF Tick, Elapse, InputKept, SameInput, Row
<1>8. CASE UNCHANGED vars
  BY <1>1, <1>8 DEF vars
<1> QED
  BY <1>1, <1>3, <1>4, <1>5, <1>6, <1>7, <1>8 DEF Next

\* What a step may do to the row a call holds: keep it, read the row as it then
\* is, turn it into a reservation, or give it up.
CaptureKept(q) ==
    /\ SameInput(proc'[q].row, proc[q].row)
    /\ proc'[q].at \in ReadPoints => proc[q].at \in ReadPoints
    /\ proc'[q].at \in PendingPoints => proc[q].at \in PendingPoints

CaptureTaken(q) == proc'[q].at \notin PendingPoints /\ SameInput(proc'[q].row, slot')

CaptureReserved(q) ==
    /\ proc[q].at \in ReadPoints /\ proc'[q].at \in PendingPoints
    /\ proc'[q].row = proc[q].row
    /\ proc[q].row.revision = slot.revision
    /\ slot'.revision = slot.revision + 1
    /\ UNCHANGED published

CaptureDropped(q) == proc'[q].at \notin ReadPoints \cup PendingPoints

CaptureMoves(q) ==
    CaptureKept(q) \/ CaptureTaken(q) \/ CaptureReserved(q) \/ CaptureDropped(q)

\* Where a step of one call leaves it, and that it leaves the others alone.
LEMMA CallMoves ==
    ASSUME TypeOK, NEW p \in Process
    PROVE  /\ UNCHANGED proc => \A q \in Process : CaptureKept(q)
           /\ \A q \in Process : proc'[q] = proc[q] => CaptureKept(q)
           /\ Return(p) => /\ CaptureDropped(p)
                           /\ \A q \in Process : q # p => CaptureKept(q)
           /\ \A point, row : Goto(p, point, row) =>
                 /\ proc'[p].at = point /\ proc'[p].row = row
                 /\ \A q \in Process : q # p => CaptureKept(q)
           /\ \A point, row, request, caller : Enter(p, point, row, request, caller) =>
                 /\ proc'[p].at = point /\ proc'[p].row = row
                 /\ \A q \in Process : q # p => CaptureKept(q)
<1>1. \A q \in Process : proc'[q] = proc[q] => CaptureKept(q)
  BY DEF CaptureKept, SameInput
<1>2. ASSUME NEW c, proc' = [proc EXCEPT ![p] = c]
      PROVE  proc'[p] = c /\ \A q \in Process : q # p => CaptureKept(q)
  <2>1. proc'[p] = c /\ \A q \in Process : q # p => proc'[q] = proc[q]
    BY <1>2 DEF TypeOK
  <2> QED
    BY <1>1, <2>1
<1>3. Return(p) => CaptureDropped(p) /\ \A q \in Process : q # p => CaptureKept(q)
  <2> SUFFICES ASSUME Return(p)
               PROVE  CaptureDropped(p) /\ \A q \in Process : q # p => CaptureKept(q)
    OBVIOUS
  <2>1. proc'[p] = NoCall /\ \A q \in Process : q # p => CaptureKept(q)
    BY <1>2 DEF Return
  <2>2. NoCall.at = "idle"
    BY DEF NoCall
  <2> QED
    BY <2>1, <2>2 DEF CaptureDropped, ReadPoints, PendingPoints
<1>4. ASSUME NEW point, NEW row, Goto(p, point, row)
      PROVE  /\ proc'[p].at = point /\ proc'[p].row = row
             /\ \A q \in Process : q # p => CaptureKept(q)
  <2>1. proc' = [proc EXCEPT ![p] = [proc[p] EXCEPT !.at = point, !.row = row]]
    BY <1>4 DEF Goto, TypeOK
  <2>2. proc[p] \in Calls
    BY DEF TypeOK
  <2>3. /\ proc'[p] = [proc[p] EXCEPT !.at = point, !.row = row]
        /\ \A q \in Process : q # p => CaptureKept(q)
    BY <1>2, <2>1
  <2> QED
    BY <2>2, <2>3 DEF Calls
<1>5. ASSUME NEW point, NEW row, NEW request, NEW caller, Enter(p, point, row, request, caller)
      PROVE  /\ proc'[p].at = point /\ proc'[p].row = row
             /\ \A q \in Process : q # p => CaptureKept(q)
  BY <1>2, <1>5 DEF Enter
<1> QED
  BY <1>1, <1>3, <1>4, <1>5

\* A snapshot is of the same input as its row.
LEMMA SnapshotInput ==
    ASSUME NEW row \in Row
    PROVE  SameInput(Snapshot(row), row) /\ SameInput(row, row)
BY DEF Snapshot, SameInput, Row

\* The calls of recovery.
LEMMA RecoveryMoves ==
    ASSUME TypeOK, NEW p \in Process, NEW q \in Process,
           \/ Claim(p) \/ Restore(p) \/ Settle(p) \/ SettleFails(p) \/ DeferOp(p) \/ Detach(p)
           \/ \E w \in Workflow : SettleOp(p, w)
    PROVE  CaptureMoves(q)
<1> DEFINE row == proc[p].row
<1>1. /\ row \in Row /\ RecoveringRow(row, p) \in Row /\ RestoredRow(row) \in Row
      /\ EmptyRow(row) \in Row
  BY CallFacts, RecoveringRowType, RestoredRowType, EmptyRowType
<1>2. Return(p) => CaptureMoves(q)
  BY CallMoves DEF CaptureMoves
<1>3. UNCHANGED proc => CaptureMoves(q)
  BY CallMoves DEF CaptureMoves
<1>4. ASSUME NEW point \in {"restore", "settle", "admit"}, NEW read,
             Goto(p, point, read), SameInput(read, slot')
      PROVE  CaptureMoves(q)
  <2>1. q = p => CaptureTaken(q)
    BY <1>4, CallMoves DEF CaptureTaken, PendingPoints
  <2> QED
    BY <1>4, <2>1, CallMoves DEF CaptureMoves
<1>5. CASE Claim(p)
  <2>1. Return(p) \/ (Goto(p, "restore", RecoveringRow(row, p)) /\ slot' = RecoveringRow(row, p))
    BY <1>5 DEF Claim
  <2> QED
    BY <1>1, <1>2, <1>4, <2>1, SnapshotInput
<1>6. CASE Restore(p)
  <2>1. Return(p) \/ (Goto(p, "settle", Snapshot(RestoredRow(row))) /\ slot' = RestoredRow(row))
    BY <1>6 DEF Restore
  <2> QED
    BY <1>1, <1>2, <1>4, <2>1, SnapshotInput
<1>7. CASE Detach(p)
  <2>1. Return(p) \/ (Goto(p, "admit", EmptyRow(row)) /\ slot' = EmptyRow(row))
    BY <1>7 DEF Detach
  <2> QED
    BY <1>1, <1>2, <1>4, <2>1, SnapshotInput
<1>8. CASE Settle(p)
  <2>1. proc[p].at \in ReadPoints
    BY <1>8 DEF Settle, Call, ReadPoints
  <2>2. Return(p) \/ \E point \in {"detach", "admit", "close_own"} : Goto(p, point, row)
    BY <1>8 DEF Settle, AfterRecovery
  <2>3. ASSUME NEW point \in {"detach", "admit", "close_own"}, Goto(p, point, row)
        PROVE  CaptureMoves(q)
    <3>1. q = p => CaptureKept(q)
      BY <1>1, <2>1, <2>3, CallMoves, SnapshotInput DEF CaptureKept, PendingPoints
    <3> QED
      BY <2>3, <3>1, CallMoves DEF CaptureMoves
  <2> QED
    BY <1>2, <2>2, <2>3
<1>9. CASE SettleFails(p)
  BY <1>2, <1>9 DEF SettleFails
<1>10. ASSUME DeferOp(p) \/ \E w \in Workflow : SettleOp(p, w)
       PROVE  UNCHANGED proc
  BY <1>10 DEF DeferOp, SettleOp
<1> QED
  BY <1>3, <1>5, <1>6, <1>7, <1>8, <1>9, <1>10

\* The calls of OpenInput and of closing the slot.
LEMMA OpenMoves ==
    ASSUME TypeOK, NEW p \in Process, NEW q \in Process,
           \/ Reserve(p) \/ Refuse(p) \/ Join(p) \/ Drain(p) \/ Abort(p)
           \/ \E w \in Workflow : Commit(p, w)
           \/ CommitRejected(p) \/ Unwind(p) \/ Relinquish(p)
           \/ Release(p) \/ CloseForeign(p) \/ AwaitExpiry(p) \/ CloseOwn(p)
    PROVE  CaptureMoves(q)
<1> DEFINE row == proc[p].row
<1>1. row \in Row /\ slot \in Row /\ SameInput(row, row)
  BY CallFacts, SnapshotInput DEF TypeOK
<1>2. Return(p) => CaptureMoves(q)
  BY CallMoves DEF CaptureMoves
<1>3. ASSUME NEW point \in PendingPoints, proc[p].at \in PendingPoints, Goto(p, point, row)
      PROVE  CaptureMoves(q)
  <2>1. q = p => CaptureKept(q)
    BY <1>1, <1>3, CallMoves DEF CaptureKept, PendingPoints, ReadPoints
  <2> QED
    BY <1>3, <2>1, CallMoves DEF CaptureMoves
<1>4. CASE Reserve(p)
  <2>1. /\ proc[p].at = "admit" /\ UNCHANGED published
        /\ CanSwap(row, Pending(p)) /\ slot' = Pending(p)
    BY <1>4 DEF Reserve, Call
  <2>2. PICK point \in {"join", "unwind"} : Goto(p, point, row)
    BY <1>4 DEF Reserve
  <2>3. row.revision = slot.revision /\ slot'.revision = slot.revision + 1
    BY <2>1 DEF CanSwap, TransitionAccepted, SameClaim
  <2>4. q = p => CaptureReserved(q)
    BY <2>1, <2>2, <2>3, CallMoves DEF CaptureReserved, ReadPoints, PendingPoints
  <2> QED
    BY <2>2, <2>4, CallMoves DEF CaptureMoves
<1>5. ASSUME Join(p) \/ Drain(p) \/ Abort(p) \/ CommitRejected(p) \/ Unwind(p)
      PROVE  Return(p) \/ (proc[p].at \in PendingPoints /\ \E point \in PendingPoints : Goto(p, point, row))
  BY <1>5 DEF Join, Drain, Abort, CommitRejected, Unwind, Call, PendingPoints
<1>6. ASSUME \/ Refuse(p) \/ (\E w \in Workflow : Commit(p, w)) \/ Relinquish(p)
             \/ Release(p) \/ CloseOwn(p)
      PROVE  Return(p)
  BY <1>6 DEF Refuse, Commit, Relinquish, Release, CloseOwn
<1>7. CASE CloseForeign(p)
  <2>1. Return(p) \/ Goto(p, "await_expiry", InitialRow)
    BY <1>7 DEF CloseForeign
  <2>2. ASSUME Goto(p, "await_expiry", InitialRow)
        PROVE  CaptureMoves(q)
    BY <2>2, CallMoves DEF CaptureMoves, CaptureDropped, ReadPoints, PendingPoints
  <2> QED
    BY <1>2, <2>1, <2>2
<1>8. CASE AwaitExpiry(p)
  <2>1. UNCHANGED slot /\ (Return(p) \/ Goto(p, "claim", Snapshot(slot)))
    BY <1>8 DEF AwaitExpiry
  <2>2. ASSUME Goto(p, "claim", Snapshot(slot))
        PROVE  CaptureMoves(q)
    <3>1. q = p => CaptureTaken(q)
      BY <1>1, <2>1, <2>2, CallMoves, SnapshotInput DEF CaptureTaken, PendingPoints
    <3> QED
      BY <2>2, <3>1, CallMoves DEF CaptureMoves
  <2> QED
    BY <1>2, <2>1, <2>2
<1> QED
  BY <1>2, <1>3, <1>4, <1>5, <1>6, <1>7, <1>8

\* The calls that begin, by reading the row.
LEMMA EnterMoves ==
    ASSUME TypeOK, NEW p \in Process, NEW q \in Process,
           \/ \E request \in Requests : OpenInput(p, request)
           \/ RecoverForMutation(p) \/ ReleaseInput(p) \/ ResetIdleInputOnStartup(p)
    PROVE  CaptureMoves(q)
<1>1. slot \in Row
  BY DEF TypeOK
<1>2. UNCHANGED slot
  BY DEF OpenInput, RecoverForMutation, ReleaseInput, ResetIdleInputOnStartup
<1>3. \/ UNCHANGED proc
      \/ \E point \in ReadPoints \cup {"await_expiry"}, row \in {slot, Snapshot(slot)} :
            \E request, caller : Enter(p, point, row, request, caller)
  <2>1. ASSUME NEW request \in Requests, OpenInput(p, request)
        PROVE  \E point \in {"claim", "admit"} : Enter(p, point, Snapshot(slot), request, "open")
    BY <2>1 DEF OpenInput
  <2>2. CASE RecoverForMutation(p)
    BY <2>2 DEF RecoverForMutation, ReadPoints
  <2>3. CASE ReleaseInput(p)
    BY <2>3 DEF ReleaseInput, ReadPoints
  <2>4. CASE ResetIdleInputOnStartup(p)
    <3> DEFINE own == HeldBy(slot, p)
               next == CASE own /\ slot.state = "recovering" -> "restore"
                         [] own /\ slot.state = "active" -> "settle"
                         [] ~own /\ Expired(slot) -> "claim"
                         [] ~own /\ ~Expired(slot) /\ slot.state = "active" -> "close_foreign"
                         [] OTHER -> "await_expiry"
    <3>1. next \in ReadPoints \cup {"await_expiry"}
      BY DEF ReadPoints
    <3>2. \/ UNCHANGED proc
          \/ Enter(p, next, IF next = "restore" THEN slot ELSE Snapshot(slot), None,
                   IF next = "settle" /\ coord[p].reset # "pending"
                   THEN "startup_only" ELSE "startup")
      BY <2>4 DEF ResetIdleInputOnStartup
    <3> HIDE DEF next
    <3> QED
      BY <3>1, <3>2
  <2>5. {"claim", "admit"} \subseteq ReadPoints
    BY DEF ReadPoints
  <2> QED
    BY <2>1, <2>2, <2>3, <2>4, <2>5
<1>4. ASSUME NEW point \in ReadPoints \cup {"await_expiry"}, NEW row \in {slot, Snapshot(slot)},
             NEW request, NEW caller, Enter(p, point, row, request, caller)
      PROVE  CaptureMoves(q)
  <2>1. SameInput(row, slot)
    BY <1>1, <1>4, SnapshotInput
  <2>2. q = p => CaptureTaken(q)
    BY <1>2, <1>4, <2>1, CallMoves DEF CaptureTaken, ReadPoints, PendingPoints
  <2> QED
    BY <1>4, <2>2, CallMoves DEF CaptureMoves
<1> QED
  BY <1>3, <1>4, CallMoves DEF CaptureMoves

\* Every step moves the row a call holds in one of these ways.
LEMMA CaptureStep ==
    ASSUME TypeOK, [Next]_vars, NEW q \in Process
    PROVE  CaptureMoves(q)
<1>1. UNCHANGED proc => CaptureMoves(q)
  BY CallMoves DEF CaptureMoves
<1>2. ASSUME NEW p \in Process, CallStep(p) \/ ClientStep(p)
      PROVE  CaptureMoves(q)
  BY <1>2, RecoveryMoves, OpenMoves, EnterMoves DEF CallStep, ClientStep
<1>3. ASSUME NEW p \in Process, ProcessStep(p)
      PROVE  CaptureMoves(q)
  <2>1. CASE EnsureRecovery(p) \/ TimerFires(p) \/ Heartbeat(p) \/ BeginShutdown(p)
    BY <1>1, <2>1 DEF EnsureRecovery, TimerFires, Heartbeat, BeginShutdown
  <2>2. CASE Crash(p) \/ FinishShutdown(p)
    <3>1. Return(p)
      BY <2>2 DEF Crash, FinishShutdown, Leave
    <3> QED
      BY <3>1, CallMoves DEF CaptureMoves
  <2> QED
    BY <1>3, <2>1, <2>2 DEF ProcessStep
<1>4. ASSUME NEW w \in Workflow, WorkerStep(w)
      PROVE  UNCHANGED proc
  BY <1>4 DEF WorkerStep, BeginEffect, CompleteEffect, FinishOperation, StrandOperation,
              StartOperation, ResolveEffect
<1>5. CASE Tick
  <2>1. proc'[q] = [proc[q] EXCEPT !.row = Elapse(proc[q].row)]
    BY <1>5 DEF Tick
  <2>2. proc[q] \in Calls /\ proc[q].row \in Row
    BY CallFacts DEF TypeOK
  <2>3. proc'[q].at = proc[q].at /\ proc'[q].row = Elapse(proc[q].row)
    BY <2>1, <2>2 DEF Calls
  <2>4. SameInput(Elapse(proc[q].row), proc[q].row)
    BY <2>2 DEF Elapse, SameInput, Row
  <2> QED
    BY <2>3, <2>4 DEF CaptureMoves, CaptureKept
<1>6. CASE UNCHANGED vars
  BY <1>1, <1>6 DEF vars
<1> QED
  BY <1>1, <1>2, <1>3, <1>4, <1>5, <1>6 DEF Next

\* Rows of the same input are of the same commitments.
LEMMA SameInputFacts ==
    ASSUME NEW row, NEW other, NEW c, SameInput(row, other), InputOf(other, c)
    PROVE  InputOf(row, c)
BY DEF SameInput, InputOf

\* The invariant is inductive.
LEMMA CaptureInductive ==
    ASSUME TypeOK, TypeOK', CaptureInv, [Next]_vars
    PROVE  CaptureInv'
<1>1. InputKept \/ InputWritten
  BY InputStep
<1>2. InputOf(slot, published) /\ slot.revision \in Nat /\ slot'.revision \in Nat
  BY DEF CaptureInv, TypeOK, Row
<1>3. InputOf(slot', published')
  BY <1>1, <1>2, SameInputFacts DEF InputKept, InputWritten
<1>4. ASSUME NEW q \in Process
      PROVE  CaptureOK(q)'
  <2> DEFINE old == proc[q].row
             new == proc'[q].row
  <2>1. CaptureOK(q) /\ CaptureMoves(q)
    BY CaptureStep DEF CaptureInv
  <2>2. old.revision \in Nat /\ new.revision \in Nat
    BY DEF TypeOK, Calls, Row
  <2>3. CASE CaptureKept(q)
    <3>1. new.revision = old.revision /\ \A c : InputOf(old, c) => InputOf(new, c)
      BY <2>3, SameInputFacts DEF CaptureKept, SameInput
    <3>2. CASE InputKept
      <4>1. slot'.revision = slot.revision /\ published' = published
        BY <3>2 DEF InputKept, SameInput
      <4> QED
        BY <2>1, <2>3, <3>1, <4>1 DEF CaptureKept, CaptureOK
    <3>3. CASE InputWritten
      <4>1. slot'.revision = slot.revision + 1
        BY <3>3 DEF InputWritten
      <4> HIDE DEF old, new
      <4>2. proc'[q].at \in ReadPoints => new.revision < slot'.revision
        BY <1>2, <2>1, <2>2, <2>3, <3>1, <4>1 DEF CaptureKept, CaptureOK, old
      <4>3. proc'[q].at \in PendingPoints => new.revision + 1 < slot'.revision
        BY <1>2, <2>1, <2>2, <2>3, <3>1, <4>1 DEF CaptureKept, CaptureOK, old
      <4> QED
        BY <1>2, <2>2, <4>2, <4>3 DEF CaptureOK, new
    <3> QED
      BY <1>1, <3>2, <3>3
  <2>4. CASE CaptureTaken(q)
    <3>1. new.revision = slot'.revision /\ InputOf(new, published')
      BY <1>3, <2>4, SameInputFacts DEF CaptureTaken, SameInput
    <3> QED
      BY <1>2, <2>4, <3>1 DEF CaptureTaken, CaptureOK
  <2>5. CASE CaptureReserved(q)
    <3>1. InputOf(new, published')
      BY <2>1, <2>5 DEF CaptureReserved, CaptureOK
    <3>2. new.revision < slot'.revision /\ proc'[q].at \notin ReadPoints
      BY <1>2, <2>5 DEF CaptureReserved, ReadPoints, PendingPoints
    <3> QED
      BY <3>1, <3>2 DEF CaptureOK
  <2>6. CASE CaptureDropped(q)
    BY <2>6 DEF CaptureDropped, CaptureOK
  <2> QED
    BY <2>1, <2>3, <2>4, <2>5, <2>6 DEF CaptureMoves
<1> QED
  BY <1>3, <1>4 DEF CaptureInv

\* Opens that are abandoned, rolled back or recovered by another process give
\* back the input committed last: the row always names its workflow, and an
\* active row carries no key but the one that was committed.
THEOREM CommittedTheorem == Spec => []CommittedInputKept
<1>1. Init => CaptureInv
  BY DEF Init, CaptureInv, CaptureOK, InputOf, InitialRow, NoCall, ReadPoints, PendingPoints
<1>2. TypeOK /\ TypeOK' /\ CaptureInv /\ [Next]_vars => CaptureInv'
  BY CaptureInductive
<1>3. CaptureInv => CommittedInputKept
  BY DEF CaptureInv, InputOf, CommittedInputKept
<1> QED
  BY <1>1, <1>2, <1>3, TypeCorrect, PTL DEF Spec
=============================================================================
