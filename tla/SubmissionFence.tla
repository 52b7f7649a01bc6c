-------------------------- MODULE SubmissionFence --------------------------
(***************************************************************************)
(* Tracker submissions and the rows that keep them from being repeated:    *)
(* submission_fences (one row per content and tracker site, owned by one   *)
(* attempt) and release_workflow_effects (one row per attempt), written    *)
(* by internal/services/db/release_workflow_durability.go, and the worker  *)
(* that brackets each request with them (submitTrackerPlans, effects.go).  *)
(*                                                                         *)
(* A worker is the goroutine of an operation under the fence it was        *)
(* dispatched with.  Nothing stops it when its tenure ends: it may still   *)
(* send the request it has begun.  The tracker is the environment: it      *)
(* decides on a request at any later time, and its answer may be lost.     *)
(*                                                                         *)
(* Abstractions.  The row active_input is the input of InputTenure.  One   *)
(* owner.  Attempts are numbered in the order of started_at.  Image and    *)
(* client effects, which have no global fence, are not in this module.     *)
(***************************************************************************)
EXTENDS InputTenure

CONSTANTS
    Content,        \* canonical submitted-content identities
    Site,           \* canonical tracker sites
    MaxAttempts,    \* attempts begun
    MaxOperations,  \* operations started
    MaxFence        \* no tenure beyond this fence

ASSUME SubmissionAssumption ==
    /\ MaxAttempts \in Nat /\ MaxOperations \in Nat /\ MaxFence \in Nat
    /\ None \notin Workflow

VARIABLES
    input,      \* the row active_input, as InputTenure sees it
    active,     \* active[w]: the queued or running operation of w, or None
    operations, \* operations started so far
    workers,    \* operation goroutines
    ledger,     \* release_workflow_effects, per attempt
    fences,     \* submission_fences, per content and site
    request,    \* request[a]: the HTTP request of attempt a
    answer,     \* answer[a]: what its worker made of plan.Submit
    retained,   \* attempts confirmed by an UploadResult in the workflow state
    waived      \* history: attempts whose protection a person gave up

vars == <<input, active, operations, workers, ledger, fences, request, answer,
          retained, waived>>

\* What happens outside the database, and what happens in it.
remote == <<request, answer>>
tables == <<ledger, fences>>

-----------------------------------------------------------------------------
Attempt == 1 .. MaxAttempts

Statuses == {"started", "succeeded", "failed", "unknown", "deleted"}

\* fence is the one of the SubmissionFenceAuthority the attempt began under.
EffectRows == [workflow : Workflow, op : Nat, fence : Nat, content : Content,
               site : Site, status : Statuses]

FenceRows == [attempt : Attempt, status : {"started", "unknown", "succeeded"}]

\* done: CompleteWork has stored the checkpoint of this operation.
ActiveOperations == [op : Nat, fence : Nat, done : BOOLEAN]

Workers == [op : Nat, workflow : Workflow, fence : Nat]

\* An absent row is none of the rows.
ASSUME AbsentAssumption ==
    None \notin EffectRows /\ None \notin FenceRows /\ None \notin ActiveOperations

TypeOK ==
    /\ input \in Inputs
    /\ active \in [Workflow -> ActiveOperations \cup {None}]
    /\ operations \in Nat
    /\ workers \subseteq Workers
    /\ ledger \in [Attempt -> EffectRows \cup {None}]
    /\ fences \in [Content \X Site -> FenceRows \cup {None}]
    /\ request \in [Attempt -> {"held", "sent", "accepted", "void"}]
    /\ answer \in [Attempt -> {"awaited", "known", "unclear", "receipted"}]
    /\ retained \subseteq Attempt
    /\ waived \subseteq Attempt

Init ==
    /\ input = NoInput
    /\ active = [w \in Workflow |-> None]
    /\ operations = 0
    /\ workers = {}
    /\ ledger = [a \in Attempt |-> None]
    /\ fences = [key \in Content \X Site |-> None]
    /\ request = [a \in Attempt |-> "void"]
    /\ answer = [a \in Attempt |-> "unclear"]
    /\ retained = {}
    /\ waived = {}

-----------------------------------------------------------------------------
Begun == {a \in Attempt : ledger[a] # None}

Key(a) == <<ledger[a].content, ledger[a].site>>

Worker(a) == [op |-> ledger[a].op, workflow |-> ledger[a].workflow, fence |-> ledger[a].fence]

Unresolved == {a \in Begun : ledger[a].status \in {"started", "unknown"}}

\* The attempt has the protecting fence row transitionActiveInput looks for.
Fenced(a) == fences[Key(a)] # None /\ fences[Key(a)].attempt = a

Isolated == {ledger[a].workflow : a \in {b \in Unresolved : Fenced(b)}}

Blocking == {ledger[a].workflow : a \in {b \in Unresolved : ~Fenced(b)}}

Busy == {w \in Workflow : active[w] # None}

\* Mutant: the fences keep their status.
MarkUnknown_EffectsOnly(chosen) ==
    /\ ledger' = [a \in Attempt |-> IF a \in chosen /\ ledger[a].status = "started"
                                    THEN [ledger[a] EXCEPT !.status = "unknown"] ELSE ledger[a]]
    /\ UNCHANGED fences

\* SET status = 'unknown' WHERE operation_id = op AND status = 'started', in
\* both tables, and for every operation of a workflow when legacy work is
\* recovered: chosen is the set of attempts the WHERE clause selects.
MarkUnknown(chosen) ==
    /\ ledger' = [a \in Attempt |-> IF a \in chosen /\ ledger[a].status = "started"
                                    THEN [ledger[a] EXCEPT !.status = "unknown"] ELSE ledger[a]]
    /\ fences' = [key \in Content \X Site |->
                     IF /\ fences[key] # None
                        /\ fences[key].attempt \in chosen /\ fences[key].status = "started"
                     THEN [fences[key] EXCEPT !.status = "unknown"] ELSE fences[key]]

OfOperation(w, op) == {a \in Begun : ledger[a].workflow = w /\ ledger[a].op = op}

OfWorkflow(w) == {a \in Begun : ledger[a].workflow = w}

-----------------------------------------------------------------------------
(* The input row, and the operations that run under it.                    *)

ChangeInput ==
    /\ LET busy == Busy
           isolated == Isolated
           blocking == Blocking
       IN  \E next \in [workflow : Workflow \cup {None}, fence : {input.fence, input.fence + 1},
                         phase : Phases, legacy : BOOLEAN] :
              /\ next # input /\ next.fence <= MaxFence
              /\ TenureStep(input, next, busy, isolated, blocking)
              /\ input' = next
    /\ UNCHANGED <<active, operations, workers, tables, remote, retained, waived>>

StartOperation(w) ==
    /\ Mutable(input, input.fence, w, FALSE)
    /\ active[w] = None
    /\ operations < MaxOperations
    /\ operations' = operations + 1
    /\ active' = [active EXCEPT ![w] = [op |-> operations', fence |-> input.fence, done |-> FALSE]]
    /\ workers' = workers \cup {[op |-> operations', workflow |-> w, fence |-> input.fence]}
    /\ UNCHANGED <<input, tables, remote, retained, waived>>

-----------------------------------------------------------------------------
(* One submission: beginSubmissionFence, plan.Submit, completeSubmission-  *)
(* Fence.                                                                  *)

NextAttempt(a) == a \notin Begun /\ \A b \in Attempt : b < a => b \in Begun

\* Mutant: only a started or confirmed fence refuses another attempt.
Free_IgnoresUnknown(key) == fences[key] # None => fences[key].status = "unknown"

\* With a row in place nothing is inserted: succeeded is reported as already
\* succeeded, started and unknown as an unknown outcome.
Free(key) == fences[key] = None

BeginSubmission(k, a, c, s) ==
    /\ k \in workers
    /\ Mutable(input, k.fence, k.workflow, FALSE)
    /\ Free(<<c, s>>)
    /\ NextAttempt(a)
    /\ ledger' = [ledger EXCEPT ![a] = [workflow |-> k.workflow, op |-> k.op, fence |-> k.fence,
                                        content |-> c, site |-> s, status |-> "started"]]
    /\ fences' = [fences EXCEPT ![<<c, s>>] = [attempt |-> a, status |-> "started"]]
    /\ request' = [request EXCEPT ![a] = "held"]
    /\ answer' = [answer EXCEPT ![a] = "awaited"]
    /\ UNCHANGED <<input, active, operations, workers, retained, waived>>

Submitting(a) == a \in Begun /\ Worker(a) \in workers /\ answer[a] = "awaited"

\* plan.Submit: the request goes out, or the adapter knows that it did not.
Send(a) ==
    /\ Submitting(a) /\ request[a] = "held"
    /\ \/ request' = [request EXCEPT ![a] = "sent"] /\ UNCHANGED answer
       \/ request' = [request EXCEPT ![a] = "void"] /\ answer' = [answer EXCEPT ![a] = "known"]
    /\ UNCHANGED <<input, active, operations, workers, tables, retained, waived>>

\* The tracker accepts the request, or it becomes void: rejected, or lost on
\* its way.
Decide(a) ==
    /\ a \in Begun /\ request[a] = "sent"
    /\ \E verdict \in {"accepted", "void"} :
          request' = [request EXCEPT ![a] = verdict]
    /\ UNCHANGED <<input, active, operations, workers, tables, answer, retained, waived>>

\* submission.OutcomeOf: the response is understood, or the error is not
\* classified (a timeout, a cancellation, a lost answer).
Answered(a) ==
    /\ Submitting(a)
    /\ \/ /\ request[a] \in {"accepted", "void"}
          /\ answer' = [answer EXCEPT ![a] = "known"]
          /\ UNCHANGED request
       \/ /\ answer' = [answer EXCEPT ![a] = "unclear"]
          /\ request' = [request EXCEPT ![a] = IF @ = "held" THEN "void" ELSE @]
    /\ UNCHANGED <<input, active, operations, workers, tables, retained, waived>>

\* Mutant: every error counts as a known failure.
Receiptable_AnyError(a) ==
    a \in Begun /\ Worker(a) \in workers /\ answer[a] \in {"known", "unclear"}

Receiptable(a) == a \in Begun /\ Worker(a) \in workers /\ answer[a] = "known"

\* plan.Submit returned no error.
Accepted(a) == answer[a] = "known" /\ request[a] = "accepted"

\* A known failure deletes the fence of its attempt.
Settled(a) == IF Accepted(a) THEN [attempt |-> a, status |-> "succeeded"] ELSE None

\* The receipt is stored in both tables or in none; its error is reported
\* beside the result and never tried again.
CompleteSubmission(a) ==
    /\ Receiptable(a)
    /\ answer' = [answer EXCEPT ![a] = "receipted"]
    /\ \/ /\ Mutable(input, ledger[a].fence, ledger[a].workflow, FALSE)
          /\ fences[Key(a)] = [attempt |-> a, status |-> "started"]
          /\ ledger[a].status = "started"
          /\ fences' = [fences EXCEPT ![Key(a)] = Settled(a)]
          /\ ledger' = [ledger EXCEPT ![a].status = IF Accepted(a) THEN "succeeded" ELSE "failed"]
       \/ UNCHANGED tables
    /\ UNCHANGED <<input, active, operations, workers, request, retained, waived>>

-----------------------------------------------------------------------------
(* The end of an operation.                                                *)

AttemptsOf(k) == {a \in Begun : Worker(a) = k}

Joined(k) == \A a \in AttemptsOf(k) : answer[a] \in {"receipted", "unclear"}

\* The command commits its upload results to the workflow state.
RetainResults(k) ==
    /\ k \in workers /\ Joined(k)
    /\ Mutable(input, k.fence, k.workflow, TRUE)
    /\ \E a \in AttemptsOf(k) : request[a] = "accepted" /\ answer[a] = "receipted"
    /\ retained' = retained \cup {a \in AttemptsOf(k) : request[a] = "accepted"
                                                        /\ answer[a] = "receipted"}
    /\ UNCHANGED <<input, active, operations, workers, tables, remote, waived>>

\* CompleteReleaseWorkflowWork, which needs the lease of this worker.
CompleteWork(k) ==
    /\ k \in workers /\ Joined(k)
    /\ Mutable(input, k.fence, k.workflow, TRUE)
    /\ active[k.workflow] = [op |-> k.op, fence |-> k.fence, done |-> FALSE]
    /\ MarkUnknown(OfOperation(k.workflow, k.op))
    /\ active' = [active EXCEPT ![k.workflow].done = TRUE]
    /\ workers' = workers \ {k}
    /\ UNCHANGED <<input, operations, remote, retained, waived>>

\* The record follows its checkpoint: at once, at a later poll, in recovery.
PublishCompleted(w) ==
    /\ Mutable(input, input.fence, w, TRUE)
    /\ active[w] # None /\ active[w].done
    /\ active' = [active EXCEPT ![w] = None]
    /\ UNCHANGED <<input, operations, workers, tables, remote, retained, waived>>

\* The process crashes, or the goroutine ends without its terminal write.
LoseWorker(k) ==
    /\ k \in workers
    /\ workers' = workers \ {k}
    /\ request' = [a \in Attempt |-> IF a \in AttemptsOf(k) /\ request[a] = "held"
                                     THEN "void" ELSE request[a]]
    /\ UNCHANGED <<input, active, operations, tables, answer, retained, waived>>

-----------------------------------------------------------------------------
(* Recovery of operations by a later tenure.                               *)

Foreign(w) ==
    /\ Mutable(input, input.fence, w, TRUE)
    /\ active[w] # None /\ ~active[w].done /\ active[w].fence < input.fence

\* interruptRecoveredOperation: first the record, then the work.
InterruptOperation(w) ==
    /\ Foreign(w)
    /\ active' = [active EXCEPT ![w] = None]
    /\ UNCHANGED <<input, operations, workers, tables, remote, retained, waived>>

\* CompleteWork for an interrupted operation, or MarkOperationEffectsUnknown
\* before one is resumed.
SettleEffects(w, op) ==
    /\ Mutable(input, input.fence, w, TRUE)
    /\ \/ active[w] = None
       \/ active[w] # None /\ active[w].op # op
       \/ Foreign(w)
    /\ \E a \in OfOperation(w, op) : ledger[a].status = "started"
    /\ MarkUnknown(OfOperation(w, op))
    /\ UNCHANGED <<input, active, operations, workers, remote, retained, waived>>

ResumeOperation(w) ==
    /\ Foreign(w) /\ ~input.legacy
    /\ \A a \in OfOperation(w, active[w].op) : ledger[a].status # "started"
    /\ active' = [active EXCEPT ![w].fence = input.fence]
    /\ workers' = workers \cup {[op |-> active[w].op, workflow |-> w, fence |-> input.fence]}
    /\ UNCHANGED <<input, operations, tables, remote, retained, waived>>

-----------------------------------------------------------------------------
(* Reconciliation.                                                         *)

\* RecoverLegacyReleaseWorkflowEffects, then publishLegacyRecoveryActions:
\* an attempt the retained results confirm settles its effect, not its fence.
RecoverLegacyEffects ==
    /\ input.legacy /\ input.phase = "recovering"
    /\ \E a \in OfWorkflow(input.workflow) : ledger[a].status = "started"
    /\ MarkUnknown(OfWorkflow(input.workflow))
    /\ UNCHANGED <<input, active, operations, workers, remote, retained, waived>>

ConfirmLegacyEffect(a) ==
    /\ input.legacy /\ input.phase = "recovering"
    /\ a \in OfWorkflow(input.workflow) \cap retained
    /\ ledger[a].status = "unknown"
    /\ ledger' = [ledger EXCEPT ![a].status = "succeeded"]
    /\ UNCHANGED <<input, active, operations, workers, fences, remote, retained, waived>>

Latest(a) == \A b \in OfWorkflow(ledger[a].workflow) : ledger[b].site = ledger[a].site => b <= a

\* ResolveReleaseWorkflowEffectUnknown with the exact receipt.  The operator
\* has looked at the tracker and has not found the upload; a request that is
\* still on its way cannot be seen there.
ResolveUnknown(a) ==
    /\ a \in Begun
    /\ Mutable(input, input.fence, ledger[a].workflow, TRUE)
    /\ Latest(a) /\ a \notin retained /\ ledger[a].status = "unknown"
    /\ request[a] # "accepted"
    /\ fences' = [key \in Content \X Site |->
                     IF fences[key] = [attempt |-> a, status |-> "unknown"]
                     THEN None ELSE fences[key]]
    /\ ledger' = [ledger EXCEPT ![a].status = "failed"]
    /\ waived' = IF request[a] \in {"held", "sent"} THEN waived \cup {a} ELSE waived
    /\ UNCHANGED <<input, active, operations, workers, remote, retained>>

\* Deleting a release from History removes its rows and their protection.
PurgeContent(w) ==
    /\ input.workflow # w /\ active[w] = None
    /\ OfWorkflow(w) # {}
    /\ \E a \in OfWorkflow(w) : ledger[a].status # "deleted"
    /\ fences' = [key \in Content \X Site |->
                     IF fences[key] # None /\ fences[key].attempt \in OfWorkflow(w)
                     THEN None ELSE fences[key]]
    /\ ledger' = [a \in Attempt |-> IF a \in OfWorkflow(w)
                                    THEN [ledger[a] EXCEPT !.status = "deleted"] ELSE ledger[a]]
    /\ waived' = waived \cup OfWorkflow(w)
    /\ UNCHANGED <<input, active, operations, workers, remote, retained>>

-----------------------------------------------------------------------------
AttemptStep(a) ==
    \/ \E k \in workers, c \in Content, s \in Site : BeginSubmission(k, a, c, s)
    \/ Send(a) \/ Decide(a) \/ Answered(a) \/ CompleteSubmission(a)
    \/ ConfirmLegacyEffect(a) \/ ResolveUnknown(a)

WorkerStep(k) == RetainResults(k) \/ CompleteWork(k) \/ LoseWorker(k)

WorkflowStep(w) ==
    \/ StartOperation(w) \/ PublishCompleted(w) \/ InterruptOperation(w) \/ ResumeOperation(w)
    \/ \E op \in 1 .. operations : SettleEffects(w, op)
    \/ PurgeContent(w)

Next ==
    \/ \E a \in Attempt : AttemptStep(a)
    \/ \E k \in workers : WorkerStep(k)
    \/ \E w \in Workflow : WorkflowStep(w)
    \/ ChangeInput \/ RecoverLegacyEffects

Spec == Init /\ [][Next]_vars

-----------------------------------------------------------------------------
(* Properties.                                                             *)

\* An attempt whose request may still be, or has been, accepted keeps its
\* content and site reserved: through crashes, takeovers, lost answers, failed
\* receipts and legacy recovery, until a person gives the protection up.
Protected ==
    \A a \in Begun \ waived :
        request[a] \in {"held", "sent", "accepted"} => Fenced(a)

\* A tracker site accepts the same content at most once, unless a person
\* declared an attempt incomplete while its request was out, or deleted it.
AcceptedOnce ==
    \A a, b \in Begun \ waived :
        request[a] = "accepted" /\ request[b] = "accepted" /\ Key(a) = Key(b) => a = b

\* A fence reported as already succeeded stands for an accepted upload.
ConfirmedIsAccepted ==
    \A key \in Content \X Site :
        fences[key] # None /\ fences[key].status = "succeeded"
        => request[fences[key].attempt] = "accepted"

\* Both tables agree about every unresolved attempt, so transitionActiveInput
\* sees each of them as isolated by its own fence.
UnresolvedIsFenced ==
    \A a \in Unresolved : fences[Key(a)] = [attempt |-> a, status |-> ledger[a].status]

\* The abstract promise: fence rows are claims, accepted requests deliveries.
Once == INSTANCE AtMostOnceSubmission WITH
    Keys <- Content \X Site,
    claim <- [key \in Content \X Site |->
                 CASE fences[key] = None -> "free"
                   [] fences[key] # None /\ fences[key].status = "succeeded" -> "confirmed"
                   [] OTHER -> "claimed"],
    delivered <- [key \in Content \X Site |->
                     {a \in Begun \ waived : request[a] = "accepted" /\ Key(a) = key}]

\* Every step of the fence and of the requests is a step of the promise.
DeliversAtMostOnce == Once!Spec

\* upgrading.md: "It marks unresolved prior-process external attempts failed
\* locally and removes their retry blocks".  When a later tenure has taken the
\* input over, settled its work and restored it, as a startup does, no attempt
\* of the earlier tenure is still of unknown outcome.
StartupRemovesRetryBlocks ==
    input.phase = "active" /\ active[input.workflow] = None
    => \A a \in OfWorkflow(input.workflow) :
          ledger[a].fence < input.fence => ledger[a].status # "unknown"
=============================================================================
