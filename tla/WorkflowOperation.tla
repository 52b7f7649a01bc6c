------------------------- MODULE WorkflowOperation -------------------------
(***************************************************************************)
(* A long-running command of a workflow: its record                        *)
(* (release_workflow_operations), the lease and checkpoint of its work     *)
(* (release_workflow_work), its private command capsule, the goroutine     *)
(* that runs it, and the recovery of all four after a restart              *)
(* (releaseworkflow/module.go from Start to mutateOperation).              *)
(*                                                                         *)
(* Processes share the tables.  Every write is authorised by the row       *)
(* active_input, here the input of InputTenure, in its own transaction;    *)
(* between two writes the process may crash, shut down, or lose the row to *)
(* another one and go on without knowing.                                  *)
(*                                                                         *)
(* Abstractions.  One workflow, so at most one active operation.  A work   *)
(* lease is live or over.  Events are in EventLog, effects in Submission-  *)
(* Fence, composite sessions in CompositeUpload; a failing event append    *)
(* shows here as a write that is stored and reported as an error.  Legacy  *)
(* recovery slots are left out.                                            *)
(***************************************************************************)
EXTENDS InputTenure

CONSTANTS
    Process,        \* process epochs; a restart is another process
    MaxOperations,  \* operations started
    MaxFence,       \* no tenure beyond this fence
    MaxSequence,    \* no progress beyond this sequence
    MaxFaults,      \* repository calls that fail for no modelled reason
    Steady          \* the row changes hands only because a process ended

Operation == 1 .. MaxOperations

Active == {"queued", "running"}

Results == {"completed", "failed", "canceled"}

Outcomes == Results \cup {"interrupted"}

Records == [seq : Nat, status : Active \cup Outcomes \cup {"stale"}, epoch : Process]

Checkpoints == [seq : Nat, status : Outcomes]

\* final: the checkpoint CompleteWork stored; None while the work is open.
WorkRows == [owner : Process, live : BOOLEAN, final : Checkpoints \cup {None}]

\* A goroutine on an operation: the rest of Start, then the worker that Start
\* or a recovery dispatches and registers.  admission: it is in
\* failAcceptedOperation.
Points == {"claim", "enqueue", "begin", "work", "complete", "publish", "refuse"}

Threads == [fence : Nat, worker : BOOLEAN, point : Points, outcome : Results,
            admission : BOOLEAN]

\* One pass of recoverOperationsOnce, or a fired timer, under
\* operationRecoveryMu.  seq is the sequence of the record when it was listed;
\* held: the caller has activeMu, so this process leaves the row alone.
PassPoints == {"look", "claim", "check", "adopt", "interrupt", "finish", "publish", "sweep"}

Passes == [fence : Nat, discard : BOOLEAN, timer : BOOLEAN, held : BOOLEAN,
           op : Operation \cup {None}, seq : Nat, point : PassPoints]

Timers == [op : Operation, seq : Nat, fence : Nat]

\* settled: operationRecovered and startupRecoveryCompleted.
Coordinators == [alive : BOOLEAN, stopping : BOOLEAN, startup : BOOLEAN,
                 settled : {"no", "ordinary", "startup"}]

ASSUME OperationAssumption ==
    /\ MaxOperations \in Nat /\ MaxFence \in Nat /\ MaxSequence \in Nat /\ MaxFaults \in Nat
    /\ Steady \in BOOLEAN
    /\ None \notin Records \cup Checkpoints \cup WorkRows \cup Threads \cup Passes
    /\ None \notin Process \cup Workflow \cup Operation

VARIABLES
    input,      \* the row active_input, as InputTenure sees it
    holder,     \* the process whose fence it carries
    record,     \* record[o]: the row of operation o, or None
    work,       \* work[o]: its work row, or None
    capsule,    \* capsule[o]: the command of o in the private store
    thread,     \* thread[p][o]: the goroutine of p on o, or None
    pass,       \* pass[p]: the recovery p runs, or None
    timers,     \* timers[p]: recoveries p has delayed
    proc,       \* proc[p]: the Coordinator of p
    faults      \* faults so far

row == <<input, holder>>
tables == <<record, work>>
vars == <<row, tables, capsule, thread, pass, timers, proc, faults>>

TypeOK ==
    /\ input \in Inputs
    /\ holder \in Process \cup {None}
    /\ record \in [Operation -> Records \cup {None}]
    /\ work \in [Operation -> WorkRows \cup {None}]
    /\ capsule \in [Operation -> {"none", "stored", "expired"}]
    /\ thread \in [Process -> [Operation -> Threads \cup {None}]]
    /\ pass \in [Process -> Passes \cup {None}]
    /\ timers \in [Process -> SUBSET Timers]
    /\ proc \in [Process -> Coordinators]
    /\ faults \in Nat

Init ==
    /\ input = NoInput
    /\ holder = None
    /\ record = [o \in Operation |-> None]
    /\ work = [o \in Operation |-> None]
    /\ capsule = [o \in Operation |-> "none"]
    /\ thread = [p \in Process |-> [o \in Operation |-> None]]
    /\ pass = [p \in Process |-> None]
    /\ timers = [p \in Process |-> {}]
    /\ proc = [p \in Process |-> [alive |-> TRUE, stopping |-> FALSE, startup |-> FALSE,
                                  settled |-> "no"]]
    /\ faults = 0

-----------------------------------------------------------------------------
IsActive(o) == record[o] # None /\ record[o].status \in Active

IsOpen(o) == work[o] # None /\ work[o].final = None

IsComplete(o) == work[o] # None /\ work[o].final # None

\* workflowOperationActive over ListActiveOperations.
ActiveOps == {o \in Operation : IsActive(o)}

Busy == IF ActiveOps = {} THEN {} ELSE {input.workflow} \ {None}

\* Mutant: the fence of the context is not compared with that of the row.
Authorised_AnyFence(f, allowPending) ==
    input.workflow # None /\ Mutable(input, input.fence, input.workflow, allowPending)

\* requireWorkflowInputMutation for the fence of the caller's context.
Authorised(f, allowPending) ==
    input.workflow # None /\ Mutable(input, f, input.workflow, allowPending)

\* WHERE lease_owner = ? AND completed_at IS NULL.
Leased(p, o) == IsOpen(o) /\ work[o].owner = p

Fail == faults < MaxFaults /\ faults' = faults + 1

\* A goroutine that begins: Start at its claim, or a worker.
Spawned(f, worker, point) ==
    [fence |-> f, worker |-> worker, point |-> point, outcome |-> "failed",
     admission |-> FALSE]

Goto(p, o, point) == thread' = [thread EXCEPT ![p][o].point = point]

\* On to completeOperation, at the end of the command or of its admission.
GotoComplete(p, o, outcome, admission) ==
    thread' = [thread EXCEPT ![p][o] = [fence |-> thread[p][o].fence, worker |-> thread[p][o].worker,
                                        point |-> "complete", outcome |-> outcome,
                                        admission |-> admission]]

End(p, o) == thread' = [thread EXCEPT ![p][o] = None]

At(p, o, point) == thread[p][o] # None /\ thread[p][o].point = point

\* completeOperation keeps the operation lock between its two writes.
Locked(p, o) == At(p, o, "publish")

\* operationWorkers[o]: until its goroutine ends.
Registered(p, o) == thread[p][o] # None /\ thread[p][o].worker

\* Its renewal is joined before completeOperation.
Renewing(p, o) == Registered(p, o) /\ thread[p][o].point \in {"begin", "work"}

-----------------------------------------------------------------------------
(* Writes.                                                                 *)

\* SaveReleaseWorkflowOperation after LoadOperation under the operation lock:
\* the record advances by one and names the process that wrote it.
Save(p, o, status) ==
    record' = [record EXCEPT ![o] = [seq |-> record[o].seq + 1, status |-> status, epoch |-> p]]

\* CheckpointWork renews the lease when the process has it.
Checkpoint(p, o) ==
    work' = [work EXCEPT ![o] = IF Leased(p, o) THEN [work[o] EXCEPT !.live = TRUE] ELSE work[o]]

\* mutateOperationIf.  An error of the checkpoint counts only when the record
\* already named this process; the record is saved by then.
Mutates(p, f, o, status) ==
    /\ ~Locked(p, o)
    /\ Authorised(f, TRUE)
    /\ record[o].epoch = p => Leased(p, o)
    /\ Save(p, o, status)
    /\ Checkpoint(p, o)
    /\ UNCHANGED faults

MutationFails(p, f, o, status) ==
    /\ ~Locked(p, o)
    /\ \/ /\ ~Authorised(f, TRUE)
          /\ UNCHANGED <<tables, faults>>
       \/ Fail /\ UNCHANGED tables
       \/ /\ Authorised(f, TRUE)
          /\ Save(p, o, status)
          /\ UNCHANGED work
          /\ IF record[o].epoch = p /\ ~Leased(p, o) THEN UNCHANGED faults ELSE Fail

\* ClaimReleaseWorkflowWork on a row that exists.
Claimable(p, o) == IsOpen(o) /\ (work[o].owner = p \/ ~work[o].live)

\* Mutant: the checkpoint has the sequence of the record it replaces.
Complete_Lags(p, o, seq, status) ==
    work' = [work EXCEPT ![o] = [owner |-> p, live |-> work[o].live,
                                 final |-> [seq |-> seq - 1, status |-> status]]]

\* CompleteReleaseWorkflowWork.
Complete(p, o, seq, status) ==
    work' = [work EXCEPT ![o] = [owner |-> p, live |-> work[o].live,
                                 final |-> [seq |-> seq, status |-> status]]]

\* private.Delete of the command capsule.
Discard(o) == capsule' = [capsule EXCEPT ![o] = "none"]

-----------------------------------------------------------------------------
(* Start.                                                                  *)

\* recoverOperationsOnce returns at once.
Recovered(p, discard) ==
    proc[p].settled = "startup" \/ (proc[p].settled = "ordinary" /\ ~discard)

\* Start up to CreateOperation: recovery has passed, the capsule is stored,
\* and the transaction finds no active operation of the workflow.
Start(p, o) ==
    /\ proc[p].alive /\ holder = p
    /\ Authorised(input.fence, FALSE)
    /\ Recovered(p, proc[p].startup)
    /\ ActiveOps = {}
    /\ record[o] = None /\ \A x \in Operation : x < o => record[x] # None
    /\ \A x \in Operation : ~At(p, x, "claim") /\ ~At(p, x, "enqueue")
    /\ record' = [record EXCEPT ![o] = [seq |-> 1, status |-> "queued", epoch |-> p]]
    /\ capsule' = [capsule EXCEPT ![o] = "stored"]
    /\ thread' = [thread EXCEPT ![p][o] = Spawned(input.fence, FALSE, "claim")]
    /\ UNCHANGED <<row, work, pass, timers, proc, faults>>

\* A failed claim goes straight to publishOperationAdmissionFailure.
ClaimWork(p, o) ==
    /\ At(p, o, "claim")
    /\ \/ /\ Authorised(thread[p][o].fence, FALSE) /\ work[o] = None
          /\ work' = [work EXCEPT ![o] = [owner |-> p, live |-> TRUE, final |-> None]]
          /\ Goto(p, o, "enqueue")
          /\ UNCHANGED faults
       \/ /\ ~Authorised(thread[p][o].fence, FALSE)
          /\ Goto(p, o, "refuse")
          /\ UNCHANGED <<work, faults>>
       \/ Fail /\ Goto(p, o, "refuse") /\ UNCHANGED work
    /\ UNCHANGED <<row, record, capsule, pass, timers, proc>>

\* dispatchOperationWorker: nothing happens while the process shuts down.
Dispatched(p, f) ==
    IF proc[p].stopping THEN None ELSE Spawned(f, TRUE, "begin")

\* The queued event is appended and the worker dispatched.
Enqueue(p, o) ==
    /\ At(p, o, "enqueue")
    /\ \/ /\ Authorised(thread[p][o].fence, TRUE)
          /\ thread' = [thread EXCEPT ![p][o] = Dispatched(p, thread[p][o].fence)]
          /\ UNCHANGED faults
       \/ /\ GotoComplete(p, o, "failed", TRUE)
          /\ IF Authorised(thread[p][o].fence, TRUE) THEN Fail ELSE UNCHANGED faults
    /\ UNCHANGED <<row, tables, capsule, pass, timers, proc>>

-----------------------------------------------------------------------------
(* The worker.                                                             *)

\* runOperation first reports running.
Begin(p, o) ==
    /\ At(p, o, "begin")
    /\ \/ Mutates(p, thread[p][o].fence, o, "running") /\ Goto(p, o, "work")
       \/ /\ MutationFails(p, thread[p][o].fence, o, "running")
          /\ GotoComplete(p, o, "failed", TRUE)
    /\ UNCHANGED <<row, capsule, pass, timers, proc>>

\* A flush of the progress reporter; its errors are dropped.
Progress(p, o) ==
    /\ At(p, o, "work")
    /\ record[o].seq < MaxSequence
    /\ \/ Mutates(p, thread[p][o].fence, o, record[o].status)
       \/ MutationFails(p, thread[p][o].fence, o, record[o].status)
    /\ UNCHANGED <<row, capsule, thread, pass, timers, proc>>

\* Mutant: the retained command is dropped once the command has run.
Finish_Discards(p, o) ==
    /\ At(p, o, "work")
    /\ \E outcome \in Results : GotoComplete(p, o, outcome, FALSE)
    /\ Discard(o)
    /\ UNCHANGED <<row, tables, pass, timers, proc, faults>>

\* Execute returns, the reporter is closed and the renewal joined.  Its context
\* is cancelled by CancelOperation, a switch of the input, a shutdown, or a
\* renewal that failed; a cancelled command may still end with a result.
Finish(p, o) ==
    /\ At(p, o, "work")
    /\ \E outcome \in Results : GotoComplete(p, o, outcome, FALSE)
    /\ UNCHANGED <<row, tables, capsule, pass, timers, proc, faults>>

\* The goroutine ends, or failAcceptedOperation falls back to publishing the
\* failure itself unless the record is terminal.
GiveUp(p, o) ==
    IF thread[p][o].admission /\ IsActive(o) THEN Goto(p, o, "refuse") ELSE End(p, o)

\* completeOperation up to CompleteWork.
CompleteWork(p, o) ==
    LET t == thread[p][o]
        current == IsActive(o) /\ record[o].epoch = p
    IN  /\ At(p, o, "complete")
        /\ \/ /\ current /\ Authorised(t.fence, TRUE) /\ Leased(p, o)
              /\ Complete(p, o, record[o].seq + 1, t.outcome)
              /\ Goto(p, o, "publish")
              /\ UNCHANGED faults
           \/ /\ ~current \/ ~Authorised(t.fence, TRUE) \/ ~Leased(p, o)
              /\ GiveUp(p, o)
              /\ UNCHANGED <<work, faults>>
           \/ Fail /\ GiveUp(p, o) /\ UNCHANGED work
        /\ UNCHANGED <<row, record, capsule, pass, timers, proc>>

\* The compare and swap of the record that the checkpoint was computed from.
Follows(o) == work[o].final.seq = record[o].seq + 1

\* completeOperation from SaveOperation on; a failed save is tried once more.
Publish(p, o) ==
    LET t == thread[p][o] IN
    /\ At(p, o, "publish")
    /\ \/ /\ Authorised(t.fence, TRUE) /\ Follows(o)
          /\ Save(p, o, work[o].final.status)
          /\ Discard(o)
          /\ End(p, o)
          /\ UNCHANGED faults
       \/ /\ ~Authorised(t.fence, TRUE) \/ ~Follows(o)
          /\ GiveUp(p, o)
          /\ UNCHANGED <<record, capsule, faults>>
       \/ Fail /\ GiveUp(p, o) /\ UNCHANGED <<record, capsule>>
    /\ UNCHANGED <<row, work, pass, timers, proc>>

\* publishOperationAdmissionFailure; the work row stays as it is.
Refuse(p, o) ==
    /\ At(p, o, "refuse")
    /\ End(p, o)
    /\ \/ ~IsActive(o) /\ Discard(o) /\ UNCHANGED <<record, faults>>
       \/ /\ IsActive(o) /\ Authorised(thread[p][o].fence, TRUE)
          /\ Save(p, o, "failed")
          /\ Discard(o)
          /\ UNCHANGED faults
       \/ /\ IsActive(o) /\ ~Authorised(thread[p][o].fence, TRUE)
          /\ UNCHANGED <<record, capsule, faults>>
       \/ Fail /\ UNCHANGED <<record, capsule>>
    /\ UNCHANGED <<row, work, pass, timers, proc>>

\* renewOperationWorkLease.  Its error cancels the worker.
Renew(p, o) ==
    /\ Renewing(p, o)
    /\ Authorised(thread[p][o].fence, TRUE) /\ Leased(p, o) /\ ~work[o].live
    /\ work' = [work EXCEPT ![o].live = TRUE]
    /\ UNCHANGED <<row, record, capsule, thread, pass, timers, proc, faults>>

-----------------------------------------------------------------------------
(* Queries that write.                                                     *)

\* convergeCompletedOperationCheckpoint of a poll, unless completion in this
\* process has the operation lock.
Converge(p, o) ==
    /\ proc[p].alive /\ holder = p /\ Recovered(p, proc[p].startup)
    /\ IsActive(o) /\ IsComplete(o) /\ ~Locked(p, o)
    /\ Authorised(input.fence, TRUE) /\ Follows(o)
    /\ Save(p, o, work[o].final.status)
    /\ Discard(o)
    /\ UNCHANGED <<row, work, thread, pass, timers, proc, faults>>

\* markOperationResultStale when Start is repeated with the key of an operation
\* whose result another command has superseded.
MarkStale(p, o) ==
    /\ proc[p].alive /\ holder = p /\ Recovered(p, proc[p].startup)
    /\ record[o] # None /\ record[o].status = "completed"
    /\ \/ Mutates(p, input.fence, o, "stale")
       \/ MutationFails(p, input.fence, o, "stale")
    /\ UNCHANGED <<row, capsule, thread, pass, timers, proc>>

-----------------------------------------------------------------------------
(* Recovery.                                                               *)

PassAt(p, point) == pass[p] # None /\ pass[p].point = point

Continue(p, point) == pass' = [pass EXCEPT ![p].point = point]

\* The operation is dealt with: a timer ends, a pass goes on to its end.
Dealt(p) ==
    pass' = [pass EXCEPT ![p] = IF pass[p].timer THEN None ELSE [pass[p] EXCEPT !.point = "sweep"]]

\* Mutant: every active record is taken for abandoned.
Foreign_Any(p) == ActiveOps

\* Records of this process are taken to be in the care of a worker.
Foreign(p) == {o \in ActiveOps : record[o].epoch # p}

\* recoverOperationsOnce up to the list.  finishActiveInputRecovery and
\* ResetIdleInputOnStartup call it with activeMu held, the latter for a startup
\* recovery, which every later call then repeats; Start and polls without.
BeginPass(p) ==
    /\ proc[p].alive /\ pass[p] = None
    /\ holder = p /\ Authorised(input.fence, FALSE)
    /\ \E discard \in {proc[p].startup, TRUE}, held \in BOOLEAN :
          /\ held \/ discard = proc[p].startup
          /\ ~Recovered(p, discard)
          /\ proc' = [proc EXCEPT ![p].startup = discard]
          /\ \/ \E o \in Foreign(p) :
                   pass' = [pass EXCEPT ![p] =
                               [fence |-> input.fence, discard |-> discard, timer |-> FALSE,
                                held |-> held, op |-> o, seq |-> record[o].seq, point |-> "look"]]
             \/ /\ Foreign(p) = {}
                /\ pass' = [pass EXCEPT ![p] =
                               [fence |-> input.fence, discard |-> discard, timer |-> FALSE,
                                held |-> held, op |-> None, seq |-> 0, point |-> "sweep"]]
    /\ UNCHANGED <<row, tables, capsule, thread, timers, faults>>

\* recoverOperationAfterLease up to the claim.  A live lease is waited for at
\* startup; otherwise it only arms a timer.
Look(p) ==
    LET o == pass[p].op IN
    /\ PassAt(p, "look")
    /\ \/ /\ work[o] = None
          /\ Continue(p, "interrupt") /\ UNCHANGED timers
       \/ /\ IsComplete(o)
          /\ Continue(p, IF work[o].final.seq = pass[p].seq + 1 THEN "publish" ELSE "interrupt")
          /\ UNCHANGED timers
       \/ /\ IsOpen(o) /\ ~work[o].live
          /\ Continue(p, "claim") /\ UNCHANGED timers
       \/ /\ IsOpen(o) /\ work[o].live
          /\ ~pass[p].discard /\ ~proc[p].stopping
          /\ timers' = [timers EXCEPT ![p] = @ \cup {[op |-> o, seq |-> pass[p].seq,
                                                      fence |-> pass[p].fence]}]
          /\ Dealt(p)
    /\ UNCHANGED <<row, tables, capsule, thread, proc, faults>>

\* The record is read again, then the work claimed; a conflict means that
\* another process recovers it.
Claim(p) ==
    LET o == pass[p].op IN
    /\ PassAt(p, "claim")
    /\ \/ /\ ~IsActive(o) \/ record[o].epoch = p \/ ~Claimable(p, o)
          /\ Dealt(p)
          /\ UNCHANGED work
       \/ /\ IsActive(o) /\ record[o].epoch # p
          /\ Authorised(pass[p].fence, FALSE) /\ Claimable(p, o)
          /\ work' = [work EXCEPT ![o] = [owner |-> p, live |-> TRUE, final |-> None]]
          /\ Continue(p, IF pass[p].discard THEN "interrupt" ELSE "check")
    /\ UNCHANGED <<row, record, capsule, thread, timers, proc, faults>>

\* The command is resumed when its capsule is there and the workflow is at the
\* revision it expects, or the command is committed.
Check(p) ==
    /\ PassAt(p, "check")
    /\ \/ capsule[pass[p].op] = "stored" /\ Continue(p, "adopt")
       \/ Continue(p, "interrupt")
    /\ UNCHANGED <<row, tables, capsule, thread, timers, proc, faults>>

\* The record is claimed and a worker dispatched, unless one is registered.
Adopt(p) ==
    LET o == pass[p].op IN
    /\ PassAt(p, "adopt")
    /\ Mutates(p, pass[p].fence, o, record[o].status)
    /\ Dealt(p)
    /\ thread' = [thread EXCEPT ![p][o] =
                     IF Registered(p, o) THEN thread[p][o] ELSE Dispatched(p, pass[p].fence)]
    /\ UNCHANGED <<row, capsule, timers, proc>>

\* interruptRecoveredOperation: the record, then the work, then the capsule.
Interrupt(p) ==
    /\ PassAt(p, "interrupt")
    /\ Mutates(p, pass[p].fence, pass[p].op, "interrupted")
    /\ Continue(p, "finish")
    /\ UNCHANGED <<row, capsule, thread, timers, proc>>

FinishInterrupted(p) ==
    LET o == pass[p].op IN
    /\ PassAt(p, "finish")
    /\ Authorised(pass[p].fence, TRUE)
    /\ IF Leased(p, o) THEN Complete(p, o, record[o].seq, "interrupted") ELSE UNCHANGED work
    /\ Discard(o)
    /\ Dealt(p)
    /\ UNCHANGED <<row, record, thread, timers, proc, faults>>

\* publishCompletedOperationCheckpoint.
PublishRecovered(p) ==
    LET o == pass[p].op IN
    /\ PassAt(p, "publish") /\ ~Locked(p, o)
    /\ \/ ~IsActive(o) /\ UNCHANGED record
       \/ /\ IsActive(o) /\ Authorised(pass[p].fence, TRUE) /\ Follows(o)
          /\ Save(p, o, work[o].final.status)
    /\ Discard(o)
    /\ Dealt(p)
    /\ UNCHANGED <<row, work, thread, timers, proc, faults>>

\* ListInterruptedOperationsWithIncompleteWork.
Unswept == {o \in Operation : record[o] # None /\ record[o].status = "interrupted" /\ IsOpen(o)}

\* completeInterruptedWorkAfterLease: ClaimWork and CompleteWork.
Sweep(p, o) ==
    /\ PassAt(p, "sweep") /\ pass[p].discard
    /\ o \in Unswept
    /\ Authorised(pass[p].fence, FALSE)
    /\ ~work[o].live
    /\ \/ Complete(p, o, record[o].seq, "interrupted") /\ Discard(o)
       \/ /\ work' = [work EXCEPT ![o] = [owner |-> p, live |-> TRUE, final |-> None]]
          /\ UNCHANGED capsule
    /\ UNCHANGED <<row, record, thread, pass, timers, proc, faults>>

EndPass(p) ==
    /\ PassAt(p, "sweep")
    /\ pass[p].discard => Unswept = {} \/ ~Authorised(pass[p].fence, FALSE)
    /\ pass' = [pass EXCEPT ![p] = None]
    /\ proc' = [proc EXCEPT ![p].settled = IF pass[p].discard THEN "startup" ELSE "ordinary"]
    /\ UNCHANGED <<row, tables, capsule, thread, timers, faults>>

\* The pass returns an error and the flags stay as they were.  The record may
\* have been saved by a mutation that reported an error.
FailPass(p) ==
    /\ pass[p] # None
    /\ \/ /\ pass[p].point \in {"adopt", "interrupt"}
          /\ MutationFails(p, pass[p].fence, pass[p].op,
                           IF pass[p].point = "adopt" THEN record[pass[p].op].status
                           ELSE "interrupted")
       \/ /\ pass[p].point \in {"claim", "finish", "publish"}
          /\ ~Authorised(pass[p].fence, pass[p].point # "claim")
          /\ UNCHANGED <<tables, faults>>
       \/ /\ pass[p].point = "look" /\ proc[p].stopping /\ ~pass[p].discard
          /\ UNCHANGED <<tables, faults>>
       \/ /\ pass[p].point = "sweep" => pass[p].discard
          /\ Fail /\ UNCHANGED tables
    /\ pass' = [pass EXCEPT ![p] = None]
    /\ UNCHANGED <<row, capsule, thread, timers, proc>>

\* A delayed recovery, which a requested startup recovery makes void.
FireTimer(p, t) ==
    /\ t \in timers[p] /\ pass[p] = None
    /\ work[t.op] # None => ~work[t.op].live
    /\ timers' = [timers EXCEPT ![p] = @ \ {t}]
    /\ pass' = [pass EXCEPT ![p] =
                   IF proc[p].startup THEN None
                   ELSE [fence |-> t.fence, discard |-> FALSE, timer |-> TRUE,
                         held |-> FALSE, op |-> t.op, seq |-> t.seq, point |-> "look"]]
    /\ UNCHANGED <<row, tables, capsule, thread, proc, faults>>

-----------------------------------------------------------------------------
(* The row, the clock, and the end of processes.                           *)

NoThreads == [o \in Operation |-> None]

Fresh(p) == proc[p].alive /\ ~proc[p].stopping /\ proc[p].settled = "no"

\* Some process takes the row over, or moves the one it has.
ChangeInput(p) ==
    /\ proc[p].alive /\ ~proc[p].stopping
    /\ pass[p] # None => ~pass[p].held
    /\ \E next \in [workflow : Workflow \cup {None}, fence : {input.fence, input.fence + 1},
                      phase : Phases, legacy : {FALSE}] :
          /\ next # input /\ next.fence <= MaxFence
          /\ \/ /\ Steady => Fresh(p)
                /\ Recover(input, next) \/ Open(input, next, Busy, {})
             \/ /\ holder = p
                /\ \/ Restore(input, next) \/ Commit(input, next, Busy, {}, {})
                   \/ ~Steady /\ (Reserve(input, next, {}, {}) \/ Close(input, next, Busy))
          /\ Steady => next.phase # "idle"
          /\ input' = next
          /\ holder' = IF next.fence > input.fence THEN p ELSE holder
    /\ UNCHANGED <<tables, capsule, thread, pass, timers, proc, faults>>

\* The lease of the row runs out, or the process gives it up at shutdown.
LapseInput ==
    /\ holder # None /\ input.phase # "idle"
    /\ \/ ~Steady \/ ~proc[holder].alive
       \/ proc[holder].stopping /\ \A o \in Operation : ~Registered(holder, o)
    /\ input' = Input(input.workflow, input.fence, "idle", input.legacy)
    /\ UNCHANGED <<holder, tables, capsule, thread, pass, timers, proc, faults>>

\* A minute passes without a renewal.
ExpireLease(o) ==
    /\ IsOpen(o) /\ work[o].live
    /\ work' = [work EXCEPT ![o].live = FALSE]
    /\ UNCHANGED <<row, record, capsule, thread, pass, timers, proc, faults>>

\* A day passes: the private store forgets the command.
ExpireCapsule(o) ==
    /\ capsule[o] = "stored"
    /\ capsule' = [capsule EXCEPT ![o] = "expired"]
    /\ UNCHANGED <<row, tables, thread, pass, timers, proc, faults>>

\* Coordinator.Shutdown closes dispatch and cancels workers and timers.
Shutdown(p) ==
    /\ proc[p].alive /\ ~proc[p].stopping
    /\ Steady => \E q \in Process \ {p} : Fresh(q)
    /\ proc' = [proc EXCEPT ![p].stopping = TRUE]
    /\ timers' = [timers EXCEPT ![p] = {}]
    /\ UNCHANGED <<row, tables, capsule, thread, pass, faults>>

\* The process ends at any point, with all its goroutines.
Crash(p) ==
    /\ proc[p].alive
    /\ Steady => \E q \in Process \ {p} : Fresh(q)
    /\ proc' = [proc EXCEPT ![p].alive = FALSE]
    /\ thread' = [thread EXCEPT ![p] = NoThreads]
    /\ pass' = [pass EXCEPT ![p] = None]
    /\ timers' = [timers EXCEPT ![p] = {}]
    /\ UNCHANGED <<row, tables, capsule, faults>>

-----------------------------------------------------------------------------
WorkerStep(p, o) ==
    \/ ClaimWork(p, o) \/ Enqueue(p, o) \/ Begin(p, o) \/ Finish(p, o)
    \/ CompleteWork(p, o) \/ Publish(p, o) \/ Refuse(p, o)

PassStep(p) ==
    \/ Look(p) \/ Claim(p) \/ Check(p) \/ Adopt(p) \/ Interrupt(p) \/ FinishInterrupted(p)
    \/ PublishRecovered(p) \/ (\E o \in Operation : Sweep(p, o)) \/ EndPass(p) \/ FailPass(p)

Next ==
    \/ \E p \in Process :
          \/ \E o \in Operation :
                \/ Start(p, o) \/ WorkerStep(p, o) \/ Progress(p, o)
                \/ Renew(p, o) \/ Converge(p, o) \/ MarkStale(p, o)
          \/ BeginPass(p) \/ PassStep(p) \/ ChangeInput(p) \/ Shutdown(p) \/ Crash(p)
          \/ \E t \in timers[p] : FireTimer(p, t)
    \/ \E o \in Operation : ExpireLease(o) \/ ExpireCapsule(o)
    \/ LapseInput

Spec == Init /\ [][Next]_vars

\* Goroutines run, clocks advance, and a process that has just started takes
\* the row when it is free.
Fairness ==
    /\ \A p \in Process :
          /\ \A o \in Operation : WF_vars(WorkerStep(p, o))
          /\ WF_vars(PassStep(p))
          /\ WF_vars(BeginPass(p))
          /\ WF_vars(ChangeInput(p))
          /\ WF_vars(\E t \in timers[p] : FireTimer(p, t))
    /\ \A o \in Operation : WF_vars(ExpireLease(o))
    /\ WF_vars(LapseInput)

FairSpec == Spec /\ Fairness
-----------------------------------------------------------------------------
(* Properties.                                                             *)

\* What is decided about an operation: what its record says when terminal, or
\* what its completed work says while the record still lags behind.
Outcome(o) ==
    CASE record[o] # None /\ ~IsActive(o) -> record[o].status
      [] IsActive(o) /\ IsComplete(o) -> work[o].final.status
      [] OTHER -> None

Stage(o) ==
    CASE record[o] = None -> "absent"
      [] IsActive(o) /\ ~IsComplete(o) -> "open"
      [] IsActive(o) /\ IsComplete(o) -> "decided"
      [] OTHER -> "published"

\* completeOperation stores the outcome in the work and then in the record.
\* Whatever happens between the two writes, a crash, a takeover or a second
\* recovery, the outcome that was decided is the one that is published, it
\* never changes but for a completed result that becomes stale, and the
\* operations of the workflow run one after another.
Lifecycle == INSTANCE OperationLifecycle WITH
    Results <- Outcomes,
    stage <- [o \in Operation |-> Stage(o)],
    outcome <- [o \in Operation |-> Outcome(o)]

ImplementsLifecycle == Lifecycle!Spec

\* A record that lags behind its completed work is one step behind it, so that
\* the checkpoint passes completedOperationCheckpoint and can be published.
CheckpointFollowsRecord ==
    \A o \in Operation : IsActive(o) /\ IsComplete(o) => Follows(o)

\* A worker that may still write under its fence has the lease of its work:
\* no other process has claimed the operation and will run it again.
WorkerHasLease ==
    \A p \in Process, o \in Operation :
        /\ thread[p][o] # None /\ thread[p][o].point \in {"work", "complete"}
        /\ IsActive(o) /\ Authorised(thread[p][o].fence, TRUE)
        => work[o] # None /\ work[o].owner = p

\* Until an outcome is decided the retained command is kept, so that a restart
\* can resume the operation.
CommandKept ==
    \A o \in Operation :
        IsActive(o) /\ ~IsComplete(o) => capsule[o] # "none"

\* A startup recovery that reported success leaves no operation published as
\* interrupted with its work open.
StartupSettles ==
    \A p \in Process :
        proc[p].alive /\ proc[p].settled = "startup" /\ holder = p /\ pass[p] = None
        /\ Authorised(input.fence, FALSE)
        => Unswept = {}

\* Every operation ends, whichever process ends first: by its worker, by the
\* one that resumes it, or interrupted.
OperationSettles == \A o \in Operation : IsActive(o) ~> ~IsActive(o)
=============================================================================
