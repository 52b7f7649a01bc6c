-------------------------- MODULE ActiveInputSlot --------------------------
(***************************************************************************)
(* The active-input coordinator: how processes that share one database     *)
(* open, switch, recover, release and abandon the single active input      *)
(* (internal/releaseworkflow/active_input.go, coordinator.go), against the *)
(* row rules of SlotTable.                                                 *)
(*                                                                         *)
(* A process serialises OpenInput, ReleaseInput, ResetIdleInputOnStartup   *)
(* and lease recovery under its activeMu: "proc" is the call it is inside, *)
(* with the row that call read.  The read and the later compare-and-swap   *)
(* are different transactions, so every other process, the clock and the   *)
(* operation workers may run between them.                                 *)
(*                                                                         *)
(* An operation is seen here only as far as the row depends on it: it is   *)
(* queued-or-running ("active") for some workflow, it carries the process  *)
(* epoch that last saved it and the fence its worker acts under, and the   *)
(* worker goroutine may be gone while the durable record stays active.     *)
(* Work leases, checkpoints and receipts are not part of this module.      *)
(***************************************************************************)
EXTENDS SlotTable, FiniteSets

CONSTANTS
    Source,         \* canonical source paths
    Requests,       \* OpenInput requests clients may send, and send again
    MaxRevision,    \* no new call starts once the row has this revision
    MaxFaults       \* failed repository calls, late heartbeats and missed deadlines

ASSUME RequestsAssumption ==
    /\ Requests \subseteq [owner : Owner, source : Source, key : Key]
    /\ None \notin Requests
ASSUME BoundsAssumption == MaxRevision \in Nat /\ MaxFaults \in Nat

VARIABLES
    slot,       \* the singleton row
    bound,      \* bound[w]: source and owner of a committed workflow, or None
    op,         \* op[w]: the queued or running operation of w, or None
    effect,     \* effect[w]: the unresolved external effect of w, if any
    live,       \* processes that have not exited or crashed
    proc,       \* proc[p]: the call p runs under activeMu
    coord,      \* coord[p]: process-lifetime Coordinator state of p
    faults,     \* failures injected so far
    published   \* history: the last committed input that was not closed

vars == <<slot, bound, op, effect, live, proc, coord, faults, published>>

-----------------------------------------------------------------------------
NoCall == [at |-> "idle", row |-> InitialRow, request |-> None, caller |-> "none"]

\* "claim" .. "detach" are recoverActiveInput, "admit" .. "relinquish" the
\* rest of OpenInput, "release" ReleaseInput, and "close_foreign" ..
\* "close_own" the parts of ResetIdleInputOnStartup of its own.
Points == {"idle", "claim", "restore", "settle", "detach",
           "admit", "join", "drain", "verify", "unwind", "relinquish",
           "release", "close_foreign", "await_expiry", "close_own"}

OpenPoints == {"detach", "admit", "join", "drain", "verify", "unwind", "relinquish"}

Callers == {"none", "open", "mutate", "startup", "startup_only"}

Calls == [at : Points, row : Row, request : Requests \cup {None}, caller : Callers]

Effects == {"none", "site_started", "site_unknown", "other_started", "other_unknown"}

Operations == [epoch : Process, fence : Nat, running : BOOLEAN]

Commitments == [workflow : Workflow, key : Key]

ASSUME CommitmentsAssumption == None \notin Commitments

\* heartbeat: the fence its heartbeat goroutine renews, 0 when there is none.
\* settled: whether recoverOperationsOnce passed, and in which mode.
\* startup: startupRecoveryRequested; reset: startupResetDone or Pending.
\* timer: the authority of a delayed recovery, 0 when there is none.
Coordinators == [heartbeat : Nat, stopping : BOOLEAN,
                 settled : {"no", "ordinary", "startup"}, startup : BOOLEAN,
                 reset : {"no", "pending", "done"}, timer : Nat]

NewCoordinator == [heartbeat |-> 0, stopping |-> FALSE, settled |-> "no",
                   startup |-> FALSE, reset |-> "no", timer |-> 0]

TypeOK ==
    /\ slot \in Row
    /\ bound \in [Workflow -> [source : Source, owner : Owner] \cup {None}]
    /\ op \in [Workflow -> Operations \cup {None}]
    /\ effect \in [Workflow -> Effects]
    /\ live \in SUBSET Process
    /\ proc \in [Process -> Calls]
    /\ \A p \in Process :
          /\ proc[p].at \in OpenPoints => proc[p].caller = "open"
          /\ proc[p].caller = "open" => proc[p].request # None
    /\ coord \in [Process -> Coordinators]
    /\ faults \in Nat
    /\ published \in Commitments \cup {None}

Init ==
    /\ slot = InitialRow
    /\ bound = [w \in Workflow |-> None]
    /\ op = [w \in Workflow |-> None]
    /\ effect = [w \in Workflow |-> "none"]
    /\ live = Process
    /\ proc = [p \in Process |-> NoCall]
    /\ coord = [p \in Process |-> NewCoordinator]
    /\ faults = 0
    /\ published = None

-----------------------------------------------------------------------------
(* What the transactions on the row read from the other tables.            *)

ActiveOps == {w \in Workflow : op[w] # None}

Unresolved == {w \in Workflow : effect[w] # "none"}

Isolated == {w \in Unresolved : effect[w] \in {"site_started", "site_unknown"}}

Uncertain(e) == CASE e = "site_started" -> "site_unknown"
                  [] e = "other_started" -> "other_unknown"
                  [] OTHER -> e

CanSwap(expected, next) ==
    TransitionAccepted(slot, expected, next, ActiveOps, Isolated, Unresolved \ Isolated)

\* requireInputSourceReconciled: the owner has no unresolved effect on source.
SourceReconciled(owner, source) ==
    \A w \in Unresolved : bound[w] # [source |-> source, owner |-> owner]

Fail == faults < MaxFaults /\ faults' = faults + 1

RunningWorker(p, w) == op[w] # None /\ op[w].epoch = p /\ op[w].running

Authorised(p, fence, w, allowPending) ==
    p \in live /\ MayMutate(slot, p, fence, w, allowPending)

-----------------------------------------------------------------------------
(* Moving between the steps of a call.                                     *)

Call(p, point) == p \in live /\ proc[p].at = point

Enter(p, point, row, request, caller) ==
    proc' = [proc EXCEPT ![p] = [at |-> point, row |-> row, request |-> request,
                                 caller |-> caller]]

Goto(p, point, row) == proc' = [proc EXCEPT ![p] = [@ EXCEPT !.at = point, !.row = row]]

Return(p) == proc' = [proc EXCEPT ![p] = NoCall]

SetHeartbeat(p, fence) == coord' = [coord EXCEPT ![p].heartbeat = fence]

MayStart(p) == Call(p, "idle") /\ slot.revision < MaxRevision

\* A call whose swap the transaction rejects, or whose repository call fails,
\* returns its error and leaves the row alone.
SwapFails(expected, next) ==
    \/ ~CanSwap(expected, next) /\ UNCHANGED faults
    \/ Fail

-----------------------------------------------------------------------------
(* recoverOperationsOnce: one pass over the operations of other epochs.    *)

ForeignOps(p) == {w \in ActiveOps : op[w].epoch # p}

Recovered(p) ==
    /\ coord[p].settled # "no"
    /\ coord[p].startup => coord[p].settled = "startup"

\* The record is published as interrupted before CompleteWork marks its
\* effects unknown in a transaction of its own, which may not happen.
InterruptOp(w) ==
    /\ op' = [op EXCEPT ![w] = None]
    /\ \/ effect' = [effect EXCEPT ![w] = Uncertain(@)]
       \/ UNCHANGED effect

\* A retained command is dispatched again under this epoch; a coordinator
\* that is shutting down drops the dispatch and keeps the claimed record.
ResumeOp(p, fence, w) ==
    /\ ~coord[p].startup
    /\ op' = [op EXCEPT ![w] = [epoch |-> p, fence |-> fence,
                                running |-> ~coord[p].stopping]]
    /\ effect' = [effect EXCEPT ![w] = Uncertain(@)]

RecoverOp(p, fence, w) ==
    /\ w \in ForeignOps(p)
    /\ Authorised(p, fence, w, TRUE)
    /\ InterruptOp(w) \/ ResumeOp(p, fence, w)

PassComplete(p) ==
    coord' = [coord EXCEPT ![p].settled = IF coord[p].startup THEN "startup" ELSE "ordinary"]

-----------------------------------------------------------------------------
(* recoverActiveInput and finishActiveInputRecovery.                       *)

\* The lease of a captured row is never read, except by Restore.
Snapshot(row) == [row EXCEPT !.lease = 0]

Claim(p) ==
    LET next == RecoveringRow(proc[p].row, p) IN
    /\ Call(p, "claim")
    /\ UNCHANGED <<bound, op, effect, live, published>>
    /\ \/ /\ CanSwap(proc[p].row, next)
          /\ slot' = next
          /\ \/ /\ ~coord[p].stopping
                /\ SetHeartbeat(p, next.fence)
                /\ Goto(p, "restore", next)
                /\ UNCHANGED faults
             \/ coord[p].stopping /\ Return(p) /\ UNCHANGED <<coord, faults>>
             \/ Fail /\ SetHeartbeat(p, 0) /\ Return(p)
       \/ SwapFails(proc[p].row, next) /\ Return(p) /\ UNCHANGED <<slot, coord>>

Starting(p) == proc[p].caller \in {"startup", "startup_only"}

Restore(p) ==
    LET next == RestoredRow(proc[p].row) IN
    /\ Call(p, "restore")
    /\ UNCHANGED <<bound, op, effect, live, published>>
    /\ \/ /\ CanSwap(proc[p].row, next)
          /\ slot' = next
          /\ Goto(p, "settle", Snapshot(next))
          /\ coord' = [coord EXCEPT ![p].startup = @ \/ Starting(p)]
          /\ UNCHANGED faults
       \/ SwapFails(proc[p].row, next) /\ Return(p) /\ UNCHANGED <<slot, coord>>

SettleOp(p, w) ==
    /\ Call(p, "settle")
    /\ ~Recovered(p)
    /\ RecoverOp(p, proc[p].row.fence, w)
    /\ UNCHANGED <<slot, bound, live, proc, coord, faults, published>>

\* Outside startup a live work lease only arms a timer: the pass succeeds.
DeferOp(p) ==
    /\ Call(p, "settle")
    /\ ~Recovered(p) /\ ~coord[p].startup /\ ~coord[p].stopping
    /\ ForeignOps(p) # {}
    /\ coord[p].timer # proc[p].row.fence
    /\ coord' = [coord EXCEPT ![p].timer = proc[p].row.fence]
    /\ UNCHANGED <<slot, bound, op, effect, live, proc, faults, published>>

AfterRecovery(p) ==
    LET row == proc[p].row
        foreign == proc[p].caller = "open" /\ row.owner # proc[p].request.owner
    IN  CASE foreign /\ row.state = "active" -> Goto(p, "detach", row)
          [] proc[p].caller = "open" /\ ~(foreign /\ row.state = "active") -> Goto(p, "admit", row)
          [] proc[p].caller = "startup" /\ row.state = "active" -> Goto(p, "close_own", row)
          [] OTHER -> Return(p)

Settle(p) ==
    LET done == \/ Recovered(p) \/ ForeignOps(p) = {}
                \/ ~coord[p].startup /\ coord[p].timer = proc[p].row.fence
        finished == \/ proc[p].caller = "startup_only"
                    \/ Starting(p) /\ proc[p].row.state = "empty"
    IN  /\ Call(p, "settle")
        /\ done
        /\ AfterRecovery(p)
        /\ coord' = [coord EXCEPT ![p] =
                [@ EXCEPT !.reset = IF finished THEN "done" ELSE coord[p].reset,
                          !.settled = IF Recovered(p) THEN coord[p].settled
                                      ELSE IF coord[p].startup THEN "startup" ELSE "ordinary"]]
        /\ UNCHANGED <<slot, bound, op, effect, live, faults, published>>

\* The pass loses its authority, reaches its deadline or meets an error; it may
\* have claimed a record for this epoch before its worker could be dispatched.
SettleFails(p) ==
    /\ Call(p, "settle")
    /\ ~Recovered(p)
    /\ \/ /\ \E w \in ForeignOps(p) : ~Authorised(p, proc[p].row.fence, w, TRUE)
          /\ UNCHANGED <<op, effect, faults>>
       \/ Fail /\ UNCHANGED <<op, effect>>
       \/ /\ Fail /\ ~coord[p].startup
          /\ \E w \in ForeignOps(p) :
                /\ Authorised(p, proc[p].row.fence, w, TRUE)
                /\ op' = [op EXCEPT ![w] = [epoch |-> p, fence |-> proc[p].row.fence,
                                            running |-> FALSE]]
                /\ effect' = [effect EXCEPT ![w] = Uncertain(@)]
    /\ Return(p)
    /\ UNCHANGED <<slot, bound, live, coord, published>>

Detach(p) ==
    LET next == EmptyRow(proc[p].row) IN
    /\ Call(p, "detach")
    /\ UNCHANGED <<bound, op, effect, live, coord>>
    /\ \/ /\ CanSwap(proc[p].row, next)
          /\ slot' = next
          /\ published' = None
          /\ Goto(p, "admit", next)
          /\ UNCHANGED faults
       \/ SwapFails(proc[p].row, next) /\ Return(p) /\ UNCHANGED <<slot, published>>

\* activeMutationContext without a supplied authority, on an expired row.
RecoverForMutation(p) ==
    /\ MayStart(p)
    /\ Expired(slot)
    /\ Enter(p, "claim", Snapshot(slot), None, "mutate")
    /\ UNCHANGED <<slot, bound, op, effect, live, coord, faults, published>>

-----------------------------------------------------------------------------
(* OpenInput.                                                              *)

\* A live row of another owner or process is busy, a pending row is busy, and
\* a key already committed is replayed without work.
Admissible(p, row, request) ==
    \/ row.state = "empty"
    \/ /\ row.state = "active"
       /\ row.owner = request.owner
       /\ row.coordinator = p
       /\ row.key # request.key

Pending(p) ==
    ReservedRow(proc[p].row, p, proc[p].request.owner, proc[p].request.key)

OpenInput(p, request) ==
    /\ MayStart(p)
    /\ \/ Expired(slot) /\ Enter(p, "claim", Snapshot(slot), request, "open")
       \/ /\ ~Expired(slot)
          /\ Admissible(p, slot, request)
          /\ Enter(p, "admit", Snapshot(slot), request, "open")
    /\ UNCHANGED <<slot, bound, op, effect, live, coord, faults, published>>

Reserve(p) ==
    /\ Call(p, "admit")
    /\ Admissible(p, proc[p].row, proc[p].request)
    /\ SourceReconciled(proc[p].request.owner, proc[p].request.source)
    /\ CanSwap(proc[p].row, Pending(p))
    /\ slot' = Pending(p)
    /\ \/ /\ ~coord[p].stopping
          /\ SetHeartbeat(p, Pending(p).fence)
          /\ Goto(p, "join", proc[p].row)
          /\ UNCHANGED faults
       \/ /\ coord[p].stopping
          /\ Goto(p, "unwind", proc[p].row)
          /\ UNCHANGED <<coord, faults>>
       \/ Fail /\ SetHeartbeat(p, 0) /\ Goto(p, "unwind", proc[p].row)
    /\ UNCHANGED <<bound, op, effect, live, published>>

\* The client's ExpectedRevision is another one, its key is replayed, the
\* source is not reconciled, or the swap is rejected.
Refuse(p) ==
    /\ Call(p, "admit")
    /\ Return(p)
    /\ UNCHANGED <<slot, bound, op, effect, live, coord, faults, published>>

\* cancelPriorInputWork: only workers of this process on the prior workflow
\* can be cancelled and awaited; anything else is busy.
Join(p) ==
    /\ Call(p, "join")
    /\ \/ ActiveOps = {} /\ Goto(p, "verify", proc[p].row)
       \/ /\ ActiveOps = {proc[p].row.workflow}
          /\ RunningWorker(p, proc[p].row.workflow)
          /\ Goto(p, "drain", proc[p].row)
       \/ /\ \E w \in ActiveOps : w # proc[p].row.workflow \/ ~RunningWorker(p, w)
          /\ Goto(p, "unwind", proc[p].row)
    /\ UNCHANGED <<slot, bound, op, effect, live, coord, faults, published>>

Drain(p) ==
    /\ Call(p, "drain")
    /\ ~RunningWorker(p, proc[p].row.workflow)
    /\ Goto(p, "verify", proc[p].row)
    /\ UNCHANGED <<slot, bound, op, effect, live, coord, faults, published>>

\* The same verified source refreshes its workflow; any other gets a new one.
CommitTarget(p, w) ==
    LET prior == proc[p].row.workflow IN
    IF prior # None /\ bound[prior].source = proc[p].request.source
    THEN w = prior
    ELSE bound[w] = None

CommitAccepted(p, w) ==
    /\ CommitTarget(p, w)
    /\ SourceReconciled(proc[p].request.owner, proc[p].request.source)
    /\ CanSwap(Pending(p), CommittedRow(Pending(p), w))

Commit(p, w) ==
    /\ Call(p, "verify")
    /\ CommitAccepted(p, w)
    /\ slot' = CommittedRow(Pending(p), w)
    /\ bound' = [bound EXCEPT ![w] = [source |-> proc[p].request.source,
                                      owner |-> proc[p].request.owner]]
    /\ published' = [workflow |-> w, key |-> proc[p].request.key]
    /\ Return(p)
    /\ UNCHANGED <<op, effect, live, coord, faults>>

CommitRejected(p) ==
    /\ Call(p, "verify")
    /\ \A w \in Workflow : ~CommitAccepted(p, w)
    /\ Goto(p, "unwind", proc[p].row)
    /\ UNCHANGED <<slot, bound, op, effect, live, coord, faults, published>>

\* The client goes away, or the source bytes do not verify.
Abort(p) ==
    /\ \E point \in {"join", "drain", "verify"} : Call(p, point)
    /\ Goto(p, "unwind", proc[p].row)
    /\ UNCHANGED <<slot, bound, op, effect, live, coord, faults, published>>

\* The deferred rollback cancels and joins the prior workers first.
Unwind(p) ==
    LET prior == proc[p].row
        next == RolledBackRow(prior, Pending(p))
    IN  /\ Call(p, "unwind")
        /\ prior.workflow # None => ~RunningWorker(p, prior.workflow)
        /\ UNCHANGED <<bound, op, effect, live, published>>
        /\ \/ /\ CanSwap(Pending(p), next)
              /\ slot' = next
              /\ Return(p)
              /\ UNCHANGED <<coord, faults>>
           \/ /\ SwapFails(Pending(p), next)
              /\ SetHeartbeat(p, 0)
              /\ Goto(p, "relinquish", prior)
              /\ UNCHANGED slot

Relinquish(p) ==
    /\ Call(p, "relinquish")
    /\ Return(p)
    /\ UNCHANGED <<bound, op, effect, live, coord, published>>
    /\ \/ /\ Snapshot(slot) = Snapshot(Pending(p))
          /\ TenureLive(slot, p, slot.fence)
          /\ slot' = [slot EXCEPT !.lease = 0]
          /\ UNCHANGED faults
       \/ /\ \/ Snapshot(slot) # Snapshot(Pending(p))
             \/ ~TenureLive(slot, p, slot.fence)
          /\ UNCHANGED <<slot, faults>>
       \/ Fail /\ UNCHANGED slot

-----------------------------------------------------------------------------
(* ReleaseInput and ResetIdleInputOnStartup.                               *)

CloseIdle(p, row) ==
    /\ CloseIdleAccepted(slot, row, ActiveOps)
    /\ slot' = EmptyRow(slot)
    /\ published' = None

ReleaseInput(p) ==
    /\ MayStart(p)
    /\ slot.state = "active" \/ HeldBy(slot, p)
    /\ Enter(p, "release", Snapshot(slot), None, "none")
    /\ UNCHANGED <<slot, bound, op, effect, live, coord, faults, published>>

Release(p) ==
    LET row == proc[p].row IN
    /\ Call(p, "release")
    /\ Return(p)
    /\ UNCHANGED <<bound, op, effect, live>>
    /\ \/ /\ \/ CloseIdle(p, row)
             \/ /\ row.state # "active"
                /\ CanSwap(row, EmptyRow(row))
                /\ slot' = EmptyRow(row)
                /\ published' = None
          /\ SetHeartbeat(p, 0)
          /\ UNCHANGED faults
       \/ /\ IF row.state = "active"
             THEN ~CloseIdleAccepted(slot, row, ActiveOps)
             ELSE ~CanSwap(row, EmptyRow(row))
          /\ UNCHANGED <<slot, coord, faults, published>>
       \/ Fail /\ UNCHANGED <<slot, coord, published>>

\* The branches of ResetIdleInputOnStartup on the row it reads first.
ResetIdleInputOnStartup(p) ==
    LET own == HeldBy(slot, p)
        next == CASE own /\ slot.state = "recovering" -> "restore"
                  [] own /\ slot.state = "active" -> "settle"
                  [] ~own /\ Expired(slot) -> "claim"
                  [] ~own /\ ~Expired(slot) /\ slot.state = "active" -> "close_foreign"
                  [] OTHER -> "await_expiry"
        pending == (own /\ slot.state = "recovering") \/ (~own /\ Expired(slot))
    IN  /\ Call(p, "idle")
        /\ coord[p].reset # "done" \/ (own /\ slot.state = "recovering")
        /\ own => slot.state \in {"recovering", "active"}
        /\ slot.state # "empty" => slot.revision < MaxRevision
        /\ IF slot.state = "empty"
           THEN /\ coord' = [coord EXCEPT ![p].reset = "done"]
                /\ UNCHANGED proc
           ELSE /\ coord' = [coord EXCEPT ![p] =
                        [@ EXCEPT !.reset = IF pending THEN "pending" ELSE coord[p].reset,
                                  !.startup = coord[p].startup \/ next = "settle"]]
                /\ Enter(p, next, IF next = "restore" THEN slot ELSE Snapshot(slot), None,
                         IF next = "settle" /\ coord[p].reset # "pending"
                         THEN "startup_only" ELSE "startup")
        /\ UNCHANGED <<slot, bound, op, effect, live, faults, published>>

\* An idle input can close without waiting for its coordinator's lease.
CloseForeign(p) ==
    /\ Call(p, "close_foreign")
    /\ UNCHANGED <<bound, op, effect, live>>
    /\ \/ /\ CloseIdle(p, proc[p].row)
          /\ Return(p)
          /\ coord' = [coord EXCEPT ![p] = [@ EXCEPT !.reset = "done", !.heartbeat = 0]]
          /\ UNCHANGED faults
       \/ /\ SameClaim(slot, proc[p].row) /\ ActiveOps # {}
          /\ Goto(p, "await_expiry", InitialRow)
          /\ UNCHANGED <<slot, coord, faults, published>>
       \/ /\ ~SameClaim(slot, proc[p].row)
          /\ Return(p)
          /\ UNCHANGED <<slot, coord, faults, published>>
       \/ Fail /\ Return(p) /\ UNCHANGED <<slot, coord, published>>

\* Mutant: an expired foreign lease ends the reset instead of being taken over.
AwaitExpiry_NoTakeover(p) ==
    /\ Call(p, "await_expiry")
    /\ UNCHANGED <<slot, bound, op, effect, live, published>>
    /\ \/ /\ slot.state = "empty"
          /\ Return(p)
          /\ coord' = [coord EXCEPT ![p].reset = "done"]
          /\ UNCHANGED faults
       \/ /\ Expired(slot)
          /\ Return(p)
          /\ coord' = [coord EXCEPT ![p].reset = "done"]
          /\ UNCHANGED faults
       \/ /\ (slot.coordinator \in live /\ UNCHANGED faults) \/ Fail
          /\ Return(p)
          /\ UNCHANGED coord

\* Mutant: the wait has no deadline of its own.
AwaitExpiry_NoDeadline(p) ==
    /\ Call(p, "await_expiry")
    /\ UNCHANGED <<slot, bound, op, effect, live, faults, published>>
    /\ \/ /\ slot.state = "empty"
          /\ Return(p)
          /\ coord' = [coord EXCEPT ![p].reset = "done"]
       \/ /\ Expired(slot)
          /\ Goto(p, "claim", Snapshot(slot))
          /\ coord' = [coord EXCEPT ![p].reset = "pending"]

\* The bounded wait for a foreign lease: on expiry the row is recovered.  The
\* deadline is longer than a lease, so it passes first only when the holder was
\* still renewing during the wait.
AwaitExpiry(p) ==
    /\ Call(p, "await_expiry")
    /\ UNCHANGED <<slot, bound, op, effect, live, published>>
    /\ \/ /\ slot.state = "empty"
          /\ Return(p)
          /\ coord' = [coord EXCEPT ![p].reset = "done"]
          /\ UNCHANGED faults
       \/ /\ Expired(slot)
          /\ Goto(p, "claim", Snapshot(slot))
          /\ coord' = [coord EXCEPT ![p].reset = "pending"]
          /\ UNCHANGED faults
       \/ /\ (slot.coordinator \in live /\ UNCHANGED faults) \/ Fail
          /\ Return(p)
          /\ UNCHANGED coord

\* CloseIdleActiveInput in a loop: busy is retried until a deadline.
CloseOwn(p) ==
    /\ Call(p, "close_own")
    /\ Return(p)
    /\ UNCHANGED <<bound, op, effect, live>>
    /\ \/ /\ CloseIdle(p, proc[p].row)
          /\ coord' = [coord EXCEPT ![p] = [@ EXCEPT !.reset = "done", !.heartbeat = 0]]
          /\ UNCHANGED faults
       \/ /\ ~SameClaim(slot, proc[p].row) \/ ActiveOps # {}
          /\ UNCHANGED <<slot, coord, faults, published>>
       \/ Fail /\ UNCHANGED <<slot, coord, published>>

-----------------------------------------------------------------------------
(* Operations and their workers, as far as the row depends on them.        *)

\* Operation, Start and CancelOperation make sure the recovery pass ran.
EnsureRecovery(p) ==
    /\ p \in live /\ ~Recovered(p)
    /\ HeldBy(slot, p) /\ slot.state = "active" /\ Live(slot)
    /\ \/ \E w \in Workflow : RecoverOp(p, slot.fence, w) /\ UNCHANGED coord
       \/ ForeignOps(p) = {} /\ PassComplete(p) /\ UNCHANGED <<op, effect>>
    /\ UNCHANGED <<slot, bound, live, proc, faults, published>>

TimerFires(p) ==
    /\ p \in live /\ ~coord[p].stopping /\ coord[p].timer # 0
    /\ \/ ~coord[p].startup /\ \E w \in Workflow : RecoverOp(p, coord[p].timer, w)
       \/ /\ \/ coord[p].startup
             \/ \A w \in ForeignOps(p) : ~Authorised(p, coord[p].timer, w, TRUE)
          /\ UNCHANGED <<op, effect>>
    /\ coord' = [coord EXCEPT ![p].timer = 0]
    /\ UNCHANGED <<slot, bound, live, proc, faults, published>>

\* Dispatch is dropped without an error once the coordinator is stopping.
StartOperation(p, w) ==
    /\ Authorised(p, slot.fence, w, FALSE)
    /\ Recovered(p)
    /\ op[w] = None
    /\ op' = [op EXCEPT ![w] = [epoch |-> p, fence |-> slot.fence,
                                running |-> ~coord[p].stopping]]
    /\ UNCHANGED <<slot, bound, effect, live, proc, coord, faults, published>>

WorkerOf(w, allowPending) ==
    /\ op[w] # None
    /\ op[w].running
    /\ Authorised(op[w].epoch, op[w].fence, w, allowPending)

BeginEffect(w) ==
    /\ WorkerOf(w, FALSE)
    /\ effect[w] = "none"
    /\ \E kind \in {"site_started", "other_started"} :
          effect' = [effect EXCEPT ![w] = kind]
    /\ UNCHANGED <<slot, bound, op, live, proc, coord, faults, published>>

\* completeSubmissionFence accepts only an active row.
CompleteEffect(w) ==
    /\ \/ effect[w] = "site_started" /\ WorkerOf(w, FALSE)
       \/ effect[w] = "other_started" /\ WorkerOf(w, TRUE)
    /\ effect' = [effect EXCEPT ![w] = "none"]
    /\ UNCHANGED <<slot, bound, op, live, proc, coord, faults, published>>

\* completeOperation: CompleteWork first, then the record, whose save may fail.
FinishOperation(w) ==
    /\ WorkerOf(w, TRUE)
    /\ effect' = [effect EXCEPT ![w] = Uncertain(@)]
    /\ \/ op' = [op EXCEPT ![w] = None] /\ UNCHANGED faults
       \/ Fail /\ op' = [op EXCEPT ![w].running = FALSE]
    /\ UNCHANGED <<slot, bound, live, proc, coord, published>>

\* The worker ends and its terminal writes are rejected or fail.
StrandOperation(w) ==
    /\ op[w] # None /\ op[w].running
    /\ \/ ~WorkerOf(w, TRUE) /\ UNCHANGED faults
       \/ Fail
    /\ op' = [op EXCEPT ![w].running = FALSE]
    /\ UNCHANGED <<slot, bound, effect, live, proc, coord, published>>

\* The operator confirms that an uncertain attempt did not complete.
ResolveEffect(p, w) ==
    /\ effect[w] \in {"site_unknown", "other_unknown"}
    /\ Authorised(p, slot.fence, w, TRUE)
    /\ effect' = [effect EXCEPT ![w] = "none"]
    /\ UNCHANGED <<slot, bound, op, live, proc, coord, faults, published>>

-----------------------------------------------------------------------------
(* Heartbeats, time, shutdown and crashes.                                 *)

Heartbeat(p) ==
    /\ p \in live /\ coord[p].heartbeat # 0
    /\ \/ /\ TenureLive(slot, p, coord[p].heartbeat) /\ slot.lease < TTL
          /\ slot' = [slot EXCEPT !.lease = TTL]
          /\ UNCHANGED coord
       \/ /\ ~TenureLive(slot, p, coord[p].heartbeat)
          /\ SetHeartbeat(p, 0)
          /\ UNCHANGED slot
    /\ UNCHANGED <<bound, op, effect, live, proc, faults, published>>

Elapse(row) == IF Live(row) THEN [row EXCEPT !.lease = @ - 1] ELSE row

\* The last tick of a lease beats a running heartbeat only when the process is
\* suspended for longer than the lease: one of the counted failures.
Renewed == slot.coordinator \in live /\ coord[slot.coordinator].heartbeat = slot.fence

Tick ==
    /\ Live(slot)
    /\ IF slot.lease = 1 /\ Renewed THEN Fail ELSE UNCHANGED faults
    /\ slot' = Elapse(slot)
    /\ proc' = [p \in Process |-> [proc[p] EXCEPT !.row = Elapse(@)]]
    /\ UNCHANGED <<bound, op, effect, live, coord, published>>

Leave(p) ==
    /\ live' = live \ {p}
    /\ Return(p)
    /\ coord' = [coord EXCEPT ![p] = NewCoordinator]
    /\ op' = [w \in Workflow |-> IF RunningWorker(p, w)
                                 THEN [op[w] EXCEPT !.running = FALSE] ELSE op[w]]

Crash(p) ==
    /\ p \in live
    /\ Leave(p)
    /\ UNCHANGED <<slot, bound, effect, faults, published>>

\* Coordinator.Shutdown closes admission and joins the heartbeat.
BeginShutdown(p) ==
    /\ p \in live /\ ~coord[p].stopping
    /\ coord' = [coord EXCEPT ![p] = [@ EXCEPT !.stopping = TRUE, !.heartbeat = 0]]
    /\ UNCHANGED <<slot, bound, op, effect, live, proc, faults, published>>

\* Module.Shutdown relinquishes once every worker has been joined.
FinishShutdown(p) ==
    /\ Call(p, "idle")
    /\ coord[p].stopping
    /\ \A w \in Workflow : ~RunningWorker(p, w)
    /\ Leave(p)
    /\ slot' = IF TenureLive(slot, p, slot.fence) THEN [slot EXCEPT !.lease = 0] ELSE slot
    /\ UNCHANGED <<bound, effect, faults, published>>

-----------------------------------------------------------------------------
CallStep(p) ==
    \/ Claim(p) \/ Restore(p) \/ Settle(p) \/ SettleFails(p) \/ DeferOp(p) \/ Detach(p)
    \/ \E w \in Workflow : SettleOp(p, w)
    \/ Reserve(p) \/ Refuse(p) \/ Join(p) \/ Drain(p)
    \/ \E w \in Workflow : Commit(p, w)
    \/ CommitRejected(p) \/ Unwind(p) \/ Relinquish(p)
    \/ Release(p) \/ CloseForeign(p) \/ AwaitExpiry(p) \/ CloseOwn(p)

ClientStep(p) ==
    \/ Abort(p)
    \/ \E request \in Requests : OpenInput(p, request)
    \/ RecoverForMutation(p) \/ ReleaseInput(p) \/ ResetIdleInputOnStartup(p)

WorkerStep(w) ==
    \/ BeginEffect(w) \/ CompleteEffect(w) \/ FinishOperation(w) \/ StrandOperation(w)
    \/ \E p \in Process : StartOperation(p, w) \/ ResolveEffect(p, w)

ProcessStep(p) ==
    \/ EnsureRecovery(p) \/ TimerFires(p) \/ Heartbeat(p)
    \/ Crash(p) \/ BeginShutdown(p) \/ FinishShutdown(p)

Next ==
    \/ \E p \in Process : CallStep(p) \/ ClientStep(p) \/ ProcessStep(p)
    \/ \E w \in Workflow : WorkerStep(w)
    \/ Tick

Spec == Init /\ [][Next]_vars

-----------------------------------------------------------------------------
(* Properties.                                                             *)

\* Opens that are abandoned, rolled back or recovered by another process give
\* back the input committed last, and an active row never answers a replayed
\* key that was not committed.
CommittedInputKept ==
    /\ published = None => slot.workflow = None
    /\ published # None =>
          /\ slot.workflow = published.workflow
          /\ slot.state = "active" => slot.key \in {None, published.key}

\* A queued or running operation belongs to the input in the row: the input is
\* never switched, closed or detached from under it.
WorkStaysWithInput == \A w \in ActiveOps : slot.workflow = w

\* While the row is active or pending, nothing outside its workflow is
\* uncertain unless its own submission fence isolates it.
UncertaintyIsolated ==
    slot.state # "empty" => Unresolved \ Isolated \subseteq {slot.workflow}

\* A pending switch has no unresolved effect of the input it may replace, so
\* refusing submission receipts while the row is pending loses no outcome.
PendingSwitchIsQuiet ==
    slot.state = "switch_pending" => effect[slot.workflow] = "none"

\* A fence names one tenure: what still carries the row's fence, a heartbeat or
\* the worker of an operation, belongs to the row's coordinator, and nothing
\* carries a fence of the future.
FenceNamesHolder ==
    /\ \A p \in Process :
          /\ coord[p].heartbeat <= slot.fence
          /\ coord[p].heartbeat = slot.fence => slot.fence = 0 \/ slot.coordinator = p
    /\ \A w \in ActiveOps :
          /\ op[w].fence <= slot.fence
          /\ op[w].fence = slot.fence => slot.coordinator = op[w].epoch

\* The row changes owner or coordinator only under a higher fence, and only
\* when it was empty or its lease had run out; its fence never goes back.
TenureDiscipline ==
    [][/\ slot'.fence >= slot.fence
       /\ \/ slot'.owner # slot.owner
          \/ slot'.coordinator # slot.coordinator
          => slot'.fence > slot.fence /\ Acquirable(slot)]_vars

\* The row as the rest of the workflow sees it.
Phase(row) == IF Acquirable(row) THEN "idle"
              ELSE IF row.state \in {"opening", "switch_pending"} THEN "pending"
              ELSE row.state

Tenure == INSTANCE InputTenure

View(row) == Tenure!Input(row.workflow, row.fence, Phase(row), FALSE)

\* Every step of every process on the row is one that InputTenure lists, with
\* the operations and effects the transaction saw: what SubmissionFence assumes
\* about its input is what the coordinators guarantee.
RowPromise ==
    [][\/ View(slot') = View(slot)
       \/ Tenure!TenureStep(View(slot), View(slot'), ActiveOps, Isolated,
                            Unresolved \ Isolated)]_vars

\* finishActiveInputRecovery "settles old work under an already claimed fence":
\* once it returned, no operation of an earlier fence stays active without a
\* worker, unless a timer waits for its work lease.
RecoverySettlesOldWork ==
    \A p \in live, w \in ActiveOps :
        /\ HeldBy(slot, p) /\ slot.state = "active"
        /\ Call(p, "idle") /\ Recovered(p) /\ ~coord[p].stopping
        => op[w].fence = slot.fence \/ op[w].running \/ coord[p].timer = slot.fence

-----------------------------------------------------------------------------
(* Liveness.  Time passes, a process inside a call runs on unless it stops *)
(* and workers end; nothing obliges anybody to start a call, to crash or   *)
(* to make a repository call fail.                                         *)

WorkerEnds(w) == FinishOperation(w) \/ StrandOperation(w)

Fairness ==
    /\ WF_vars(Tick)
    /\ \A p \in Process : WF_vars(CallStep(p))
    /\ \A w \in Workflow : WF_vars(WorkerEnds(w))

FairSpec == Spec /\ Fairness

\* An input abandoned by a crashed or closed process is taken over by the
\* startup reset of another one, as soon as that one has read the row as it is.
Awaiting(q) ==
    /\ Starting(q)
    /\ \/ proc[q].at = "await_expiry"
       \/ proc[q].at \in {"claim", "close_foreign"} /\ SameClaim(slot, proc[q].row)

AbandonedInputReclaimed ==
    \A q \in Process :
        (Awaiting(q) /\ slot.coordinator \notin live)
        ~> (slot.state = "empty" \/ slot.coordinator \in live \/ q \notin live)

\* Every call returns: cancelled workers, foreign leases and the idle wait
\* never hold activeMu for good.
CallsReturn == \A p \in Process : proc[p].at # "idle" ~> proc[p].at = "idle"
=============================================================================
