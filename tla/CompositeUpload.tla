-------------------------- MODULE CompositeUpload --------------------------
(***************************************************************************)
(* A composite upload (releaseworkflow/composite_upload.go): one durable   *)
(* session in the state of a workflow, driven stage by stage by the worker *)
(* of a composite operation, stopped when a decision is missing, and       *)
(* resumed by the answer of a user.                                        *)
(*                                                                         *)
(* A call of StartUpload or SubmitUploadFeedback is a sequence of          *)
(* transactions under different locks; the same request, or the same       *)
(* answer, may arrive again beside it, its client may disconnect between   *)
(* two of them, and the process may crash.  What the session, the          *)
(* operation record and the workflow revision say of each other in between *)
(* is what this module is about.  The life of the workflow ends when its   *)
(* input closes: opening the source again makes another one.               *)
(*                                                                         *)
(* Abstractions.  One workflow, one process at a time.  The stages are a   *)
(* number: the command the planner chooses, the recovery of media, the     *)
(* attachment of manual media and the comparison are each a stage; asks    *)
(* counts the pending actions that stop every lane.  Terminal reasons tell *)
(* nothing apart here and are left out.  A record carries its work, its    *)
(* checkpoint and its capsule: WorkflowOperation has their order.  A call  *)
(* that is refused at its first step changes nothing and is left out too.  *)
(* Debug sessions and legacy sessions are not modelled.                    *)
(***************************************************************************)
EXTENDS Integers, FiniteSets

CONSTANTS
    Client,          \* concurrent calls of the API
    Request,         \* idempotency keys of StartUpload
    Media,           \* the requests that bring images or menus of their own
    Answer,          \* idempotency keys of SubmitUploadFeedback
    Fingerprints,    \* Fingerprints[r]: the fingerprint of what request r asks for
    Stages,          \* stages to the result
    MaxAsks,         \* pending actions at a time
    TransitionLimit, \* transitions of one worker
    MaxOperations,   \* operations bound
    Budget,          \* calls of StartUpload, and mishaps: disconnects, failing
                     \* writes, cancellations and crashes
    None

Operation == 1 .. MaxOperations

Fingerprint == {Fingerprints[r] : r \in Request}

\* compositeUploadOperationKey
Keys == [base : Request \cup Answer, seq : Nat]

\* receipts[f]: the FeedbackSequence of answer f, 0 when f was not applied.
Sessions == [wants : Fingerprint, active : Operation \cup {None}, seq : Nat,
             receipts : [Answer -> Nat], tuned : BOOLEAN, media : BOOLEAN]

\* receipts[f]: the revision the answer f committed, 0 when it did not.
Workflows == [rev : Nat, stage : 0 .. Stages, asks : 0 .. MaxAsks, receipts : [Answer -> Nat]]

Ends == {"completed", "blocked", "failed", "canceled", "interrupted", "stale"}

Records == [key : Keys, rev : Nat, wants : Fingerprint, status : {"active"} \cup Ends]

Workers == [op : Operation, point : {"begin", "look", "tune", "stage", "finish", "complete"},
            view : Nat, left : Nat, canceled : BOOLEAN, outcome : Ends, failing : BOOLEAN]

Calls == [base : Request \cup Answer, fresh : BOOLEAN, rev : Nat, wants : Fingerprint,
          seq : Nat, op : Operation \cup {None},
          point : {"commit", "choose", "media", "apply", "reload", "start", "create", "dispatch"}]

ASSUME CompositeAssumption ==
    /\ Stages \in Nat \ {0} /\ MaxAsks \in Nat /\ TransitionLimit \in Nat
    /\ MaxOperations \in Nat /\ Budget \in Nat
    /\ Request \cap Answer = {} /\ Media \subseteq Request
    /\ None \notin Client \cup Request \cup Answer \cup Operation \cup Sessions \cup Records
                    \cup Workers \cup Calls

VARIABLES
    session,  \* State.Composite
    wf,       \* the workflow, with the command receipts of the answers
    slot,     \* the request that opened the active input, or None
    record,   \* record[o]: the operation record, or None
    minted,   \* operation identifiers handed out
    worker,   \* the goroutine of the active operation, or None
    call,     \* call[c]: the call client c has in flight, or None
    asked,    \* asked[f]: the action revision in the payload of answer f, or 0
    boot,     \* how far the process is with its start
    settled,  \* the state carries the epoch of this process
    spent     \* of the budget

durable == <<session, wf, slot, record>>
process == <<worker, call, boot, settled>>
vars == <<durable, minted, process, asked, spent>>

TypeOK ==
    /\ session \in Sessions \cup {None}
    /\ wf \in Workflows
    /\ slot \in Request \cup {None}
    /\ record \in [Operation -> Records \cup {None}]
    /\ minted \in 0 .. MaxOperations
    /\ worker \in Workers \cup {None}
    /\ call \in [Client -> Calls \cup {None}]
    /\ asked \in [Answer -> Nat]
    /\ boot \in {"up", "resume", "recover", "settle", "failed", "idle", "closed"}
    /\ settled \in BOOLEAN
    /\ spent \in 0 .. Budget

NoReceipts == [f \in Answer |-> 0]

Init ==
    /\ session = None
    /\ wf = [rev |-> 1, stage |-> 0, asks |-> 0, receipts |-> NoReceipts]
    /\ slot = None
    /\ record = [o \in Operation |-> None]
    /\ minted = 0
    /\ worker = None
    /\ call = [c \in Client |-> None]
    /\ asked = [f \in Answer |-> 0]
    /\ boot = "up"
    /\ settled = TRUE
    /\ spent = 0

-----------------------------------------------------------------------------
IsActive(o) == record[o] # None /\ record[o].status = "active"

ActiveOps == {o \in Operation : IsActive(o)}

Recorded == {o \in Operation : record[o] # None}

\* LoadLatestOperation finds the record updated last: the newest, or one whose
\* result was marked stale since.
Latest == {o \in Recorded : (\A p \in Recorded : p <= o) \/ record[o].status = "stale"}

Spend == spent < Budget /\ spent' = spent + 1

\* Every call loads the state first, which recovers it after a restart.
Serving == boot = "up" /\ settled

At(c, point) == call[c] # None /\ call[c].point = point

\* The command lock: an admission holds it across its transactions.
Unlocked == \A c \in Client : ~At(c, "create") /\ ~At(c, "dispatch")

End(c) == call' = [call EXCEPT ![c] = None]

Goto(c, point) == call' = [call EXCEPT ![c].point = point]

\* Current waits for the worker of an operation that has ended.
Joined == worker # None => IsActive(worker.op)

Holds(o) == session # None /\ session.active = o

NewSession(wants) ==
    [wants |-> wants, active |-> None, seq |-> 0, receipts |-> NoReceipts, tuned |-> FALSE,
     media |-> FALSE]

Released == [session EXCEPT !.active = None]

\* Another revision, as every save of the state makes.
Saved(changes) == wf' = [changes EXCEPT !.rev = wf.rev + 1]

-----------------------------------------------------------------------------
(* StartUpload. *)

NewCall(base, point) ==
    [base |-> base, fresh |-> FALSE, rev |-> 0, seq |-> 0, op |-> None, point |-> point,
     wants |-> IF base \in Request THEN Fingerprints[base] ELSE session.wants]

\* A mutant: the input is adopted beside a running operation.
Adopt_WhileRunning(c, r) ==
    /\ Serving /\ call[c] = None /\ Unlocked /\ slot # None
    /\ Spend
    /\ session # None /\ session.wants # Fingerprints[r] /\ wf.stage # 0
    /\ session' = NewSession(Fingerprints[r])
    /\ Saved([wf EXCEPT !.stage = 1, !.asks = 0])
    /\ call' = [call EXCEPT ![c] = [NewCall(r, "choose") EXCEPT !.fresh = TRUE]]
    /\ UNCHANGED <<slot, record, minted, worker, asked, boot, settled>>

\* adoptCompositeInput: the request names the workflow and its revision.
Adopt(c, r) ==
    /\ Serving /\ call[c] = None /\ Unlocked /\ slot # None /\ ActiveOps = {}
    /\ Spend
    /\ IF session # None /\ session.wants = Fingerprints[r]
       THEN /\ call' = [call EXCEPT ![c] = NewCall(r, "choose")]
            /\ UNCHANGED <<session, wf>>
       ELSE /\ wf.stage # 0
            /\ session' = NewSession(Fingerprints[r])
            /\ Saved([wf EXCEPT !.stage = 1, !.asks = 0])
            /\ call' = [call EXCEPT ![c] = [NewCall(r, "choose") EXCEPT !.fresh = TRUE]]
    /\ UNCHANGED <<slot, record, minted, worker, asked, boot, settled>>

\* OpenInput replays its own key; otherwise it cancels the workers of the input.
Open(c, r) ==
    /\ Serving /\ call[c] = None
    /\ Spend
    /\ call' = [call EXCEPT ![c] = NewCall(r, IF slot = r THEN "choose" ELSE "commit")]
    /\ worker' = IF slot = r \/ worker = None THEN worker
                 ELSE [worker EXCEPT !.canceled = TRUE]
    /\ UNCHANGED <<durable, minted, asked, boot, settled>>

\* The open commits when the prior workers have ended; it keeps the session of
\* an equal request, and whatever operation that session is bound to.
CommitOpen(c) ==
    /\ At(c, "commit") /\ Unlocked /\ ActiveOps = {}
    /\ session' = IF session # None /\ session.wants = call[c].wants THEN session
                  ELSE NewSession(call[c].wants)
    /\ Saved([wf EXCEPT !.stage = 0, !.asks = 0])
    /\ slot' = call[c].base
    /\ call' = [call EXCEPT ![c].point = "choose", ![c].fresh = TRUE]
    /\ UNCHANGED <<record, minted, worker, asked, boot, settled, spent>>

\* The rest of startUpload up to the media of the request.
Choose(c) ==
    /\ At(c, "choose") /\ Joined
    /\ \/ /\ wf.stage = Stages \/ \E o \in Latest : call[c].fresh => IsActive(o)
          /\ End(c)
       \/ /\ wf.stage # Stages
          /\ Latest = {} \/ \E o \in Latest : call[c].fresh /\ ~IsActive(o)
          /\ call' = [call EXCEPT ![c].rev = wf.rev,
                         ![c].point = IF call[c].base \in Media /\ ~session.media THEN "media"
                                      ELSE "start"]
    /\ UNCHANGED <<durable, minted, worker, asked, boot, settled, spent>>

\* ensureCompositeUploadMediaInputs: the staged images are kept in the session, at
\* the revision the call has seen; the call goes on from what it then finds.
Attach(c) ==
    /\ At(c, "media") /\ Unlocked
    /\ IF wf.rev # call[c].rev
       THEN End(c) /\ UNCHANGED <<session, wf>>
       ELSE /\ session' = [session EXCEPT !.media = TRUE]
            /\ Saved(wf)
            /\ call' = [call EXCEPT ![c].point = "start", ![c].rev = wf.rev + 1]
    /\ UNCHANGED <<slot, record, minted, worker, asked, boot, settled, spent>>

-----------------------------------------------------------------------------
(* SubmitUploadFeedback. *)

\* A person answers an action that is shown; the payload names its revision.
Answered(f) ==
    /\ asked[f] = 0 /\ wf.asks > 0 /\ boot = "up"
    /\ asked' = [asked EXCEPT ![f] = wf.rev]
    /\ UNCHANGED <<durable, minted, process, spent>>

\* A mutant: a repeated answer starts under the state as it is now.
Receive_CurrentKey(c, f) ==
    /\ Serving /\ call[c] = None /\ asked[f] # 0
    /\ \/ /\ wf.receipts[f] # 0 /\ session.receipts[f] # 0
          /\ call' = [call EXCEPT ![c] = [NewCall(f, "start") EXCEPT
                          !.rev = wf.rev, !.seq = session.seq]]
       \/ /\ wf.receipts[f] = 0 /\ wf.rev = asked[f] /\ wf.asks > 0
          /\ ActiveOps = {} /\ Joined
          /\ call' = [call EXCEPT ![c] = NewCall(f, "apply")]
    /\ UNCHANGED <<durable, minted, worker, asked, boot, settled, spent>>

\* A mutant: an answer that was applied is only answered.
Receive_AnswerOnly(c, f) ==
    /\ Serving /\ call[c] = None /\ asked[f] # 0
    /\ wf.receipts[f] = 0 /\ wf.rev = asked[f] /\ wf.asks > 0
    /\ ActiveOps = {} /\ Joined
    /\ call' = [call EXCEPT ![c] = NewCall(f, "apply")]
    /\ UNCHANGED <<durable, minted, worker, asked, boot, settled, spent>>

\* An answer arrives, again perhaps.  A retained receipt goes straight to the
\* Start of its operation; if its session was replaced it is only answered.
Receive(c, f) ==
    /\ Serving /\ call[c] = None /\ asked[f] # 0
    /\ \/ /\ wf.receipts[f] # 0 /\ session.receipts[f] # 0
          /\ call' = [call EXCEPT ![c] = [NewCall(f, "start") EXCEPT
                          !.rev = wf.receipts[f], !.seq = session.receipts[f]]]
       \/ /\ wf.receipts[f] = 0 /\ wf.rev = asked[f] /\ wf.asks > 0
          /\ ActiveOps = {} /\ Joined
          /\ call' = [call EXCEPT ![c] = NewCall(f, "apply")]
    /\ UNCHANGED <<durable, minted, worker, asked, boot, settled, spent>>

\* execute and applyCompositeUploadFeedback: the answer settles its action and
\* may invalidate later stages.
Apply(c) ==
    /\ At(c, "apply") /\ Unlocked
    /\ UNCHANGED <<slot, record, minted, worker, asked, boot, settled, spent>>
    /\ LET f == call[c].base IN
       \/ /\ ActiveOps = {} /\ wf.receipts[f] # 0
          /\ call' = [call EXCEPT ![c].point = "reload", ![c].rev = wf.receipts[f]]
          /\ UNCHANGED <<session, wf>>
       \/ /\ ActiveOps = {} /\ wf.receipts[f] = 0 /\ wf.rev = asked[f]
          /\ session' = [session EXCEPT !.active = None, !.seq = @ + 1, !.tuned = FALSE,
                                        !.receipts[f] = session.seq + 1]
          /\ \E stage \in {wf.stage, 1} :
               Saved([wf EXCEPT !.stage = stage, !.asks = @ - 1, !.receipts[f] = wf.rev + 1])
          /\ call' = [call EXCEPT ![c].point = "reload", ![c].rev = wf.rev + 1]
       \/ /\ ActiveOps # {} \/ (wf.receipts[f] = 0 /\ wf.rev # asked[f])
          /\ End(c)
          /\ UNCHANGED <<session, wf>>

\* The sequence of the operation key is read after the command lock was
\* released: another answer may have been applied meanwhile.
Reload(c) ==
    /\ At(c, "reload")
    /\ call' = [call EXCEPT ![c].point = "start", ![c].wants = session.wants,
                            ![c].seq = session.seq]
    /\ UNCHANGED <<durable, minted, worker, asked, boot, settled, spent>>

-----------------------------------------------------------------------------
(* Start, for a composite command: admission under the command lock. *)

KeyOf(c) == [base |-> call[c].base, seq |-> call[c].seq]

\* The records whose idempotency key the command carries.
Prior(c) == {o \in Recorded : record[o].key = KeyOf(c)}

\* operationResultIsCurrent: the result is there while the last stage is.
Outdated(c) == {o \in Prior(c) : /\ record[o].status = "completed" /\ record[o].rev = call[c].rev
                                 /\ wf.stage # Stages}

Admitted(c) ==
    /\ wf.rev = call[c].rev
    /\ session # None /\ session.wants = call[c].wants /\ session.active = None

\* A known key is answered, its record marked stale when its result is gone, or
\* refused as a conflict; otherwise the session is bound to the operation before
\* there is a record of it.
Start(c) ==
    /\ At(c, "start") /\ Unlocked
    /\ record' = [o \in Operation |->
                    IF o \in Outdated(c) THEN [record[o] EXCEPT !.status = "stale"]
                    ELSE record[o]]
    /\ UNCHANGED <<slot, worker, asked, boot, settled, spent>>
    /\ \/ /\ Prior(c) # {} \/ ~Admitted(c)
          /\ End(c)
          /\ UNCHANGED <<session, wf, minted>>
       \/ /\ Prior(c) = {} /\ Admitted(c) /\ minted < MaxOperations
          /\ minted' = minted + 1
          /\ session' = [session EXCEPT !.active = minted']
          /\ Saved(wf)
          /\ call' = [call EXCEPT ![c].point = "create", ![c].op = minted']

Create(c) ==
    /\ At(c, "create") /\ ActiveOps = {}
    /\ record' = [record EXCEPT ![call[c].op] =
                    [key |-> KeyOf(c), rev |-> call[c].rev, wants |-> call[c].wants,
                     status |-> "active"]]
    /\ Goto(c, "dispatch")
    /\ UNCHANGED <<session, wf, slot, minted, worker, asked, boot, settled, spent>>

\* The capsule or the record cannot be stored, or another operation is active.
FailCreate(c) ==
    /\ At(c, "create")
    /\ IF ActiveOps = {} THEN Spend ELSE UNCHANGED spent
    /\ session' = Released
    /\ Saved(wf)
    /\ End(c)
    /\ UNCHANGED <<slot, record, minted, worker, asked, boot, settled>>

NewWorker(o) ==
    [op |-> o, point |-> "begin", view |-> 0, left |-> TransitionLimit, canceled |-> FALSE,
     outcome |-> "failed", failing |-> FALSE]

Dispatch(c) ==
    /\ At(c, "dispatch")
    /\ worker' = NewWorker(call[c].op)
    /\ End(c)
    /\ UNCHANGED <<durable, minted, asked, boot, settled, spent>>

\* The work cannot be claimed or the queue not published: failAcceptedOperation
\* and finishCompositeAdmissionLocked.
FailDispatch(c) ==
    /\ At(c, "dispatch")
    /\ Spend
    /\ record' = [record EXCEPT ![call[c].op].status = "failed"]
    /\ session' = Released
    /\ Saved(wf)
    /\ End(c)
    /\ UNCHANGED <<slot, minted, worker, asked, boot, settled>>

\* The client goes away and its request context with it: nothing more is
\* written, the cleanup of a bound operation included.
Disconnect(c) ==
    /\ call[c] # None /\ call[c].point # "dispatch"
    /\ Spend
    /\ End(c)
    /\ UNCHANGED <<durable, minted, worker, asked, boot, settled>>

-----------------------------------------------------------------------------
(* runCompositeUpload and the operation around it. *)

Working(point) == worker # None /\ worker.point = point

Proceed(point) == worker' = [worker EXCEPT !.point = point, !.view = 0]

Conclude(outcome) == worker' = [worker EXCEPT !.point = "complete", !.outcome = outcome]

\* A mutant: the operation ends first.
Stop_NoFinish(outcome, failing) ==
    worker' = [worker EXCEPT !.point = "complete", !.outcome = outcome, !.failing = failing]

\* finishCompositeSession and failCompositeSession come before the outcome.
Stop(outcome, failing) ==
    worker' = [worker EXCEPT !.point = "finish", !.outcome = outcome, !.failing = failing]

WorkerOnly == UNCHANGED <<durable, minted, call, asked, boot, settled, spent>>

Begin ==
    /\ Working("begin")
    /\ Proceed("look")
    /\ WorkerOnly

\* The record cannot be marked running: the operation fails first, the session
\* is released after it.
FailBegin ==
    /\ Working("begin")
    /\ Spend
    /\ record' = [record EXCEPT ![worker.op].status = "failed"]
    /\ Stop("failed", FALSE)
    /\ UNCHANGED <<session, wf, slot, minted, call, asked, boot, settled>>

\* One turn of the loop up to its choice.  An error of the loop ends the
\* operation and leaves the session bound to it.
Look ==
    /\ Working("look")
    /\ WorkerOnly
    /\ CASE worker.left = 0 -> Stop("failed", FALSE)
         [] worker.left # 0 /\ worker.canceled -> Conclude("canceled")
         [] worker.left # 0 /\ ~worker.canceled /\ ~(Holds(worker.op) /\ session.wants = record[worker.op].wants) ->
              Conclude("failed")
         [] OTHER ->
              IF wf.stage = Stages THEN Stop("completed", FALSE)
              ELSE IF wf.asks > 0 THEN Stop("blocked", FALSE)
              ELSE \/ /\ ~session.tuned
                      /\ worker' = [worker EXCEPT !.point = "tune", !.view = wf.rev,
                                                  !.left = @ - 1]
                   \/ /\ session.tuned
                      /\ worker' = [worker EXCEPT !.point = "stage", !.view = wf.rev,
                                                  !.left = @ - 1]
                   \/ /\ session.tuned
                      /\ Stop("failed", TRUE)

\* applyCompositeAutomaticPolicy and updateCompositeIntent.
Tune ==
    /\ Working("tune") /\ Unlocked
    /\ IF wf.rev = worker.view /\ Holds(worker.op) /\ ~worker.canceled
       THEN /\ session' = [session EXCEPT !.tuned = TRUE]
            /\ Saved(wf)
            /\ Proceed("look")
       ELSE /\ Conclude(IF worker.canceled THEN "canceled" ELSE "failed")
            /\ UNCHANGED <<session, wf>>
    /\ UNCHANGED <<slot, record, minted, call, asked, boot, settled, spent>>

\* execute of the next command; it may leave actions pending.
Stage ==
    /\ Working("stage") /\ Unlocked
    /\ UNCHANGED <<session, slot, record, minted, call, asked, boot, settled, spent>>
    /\ \/ /\ wf.rev = worker.view /\ ~worker.canceled
          /\ \E asks \in 0 .. MaxAsks :
               Saved([wf EXCEPT !.stage = @ + 1, !.asks = asks])
          /\ Proceed("look")
       \/ /\ Conclude(IF worker.canceled THEN "canceled" ELSE "failed")
          /\ UNCHANGED wf

\* checkpointCompositeTerminalSession
Finish ==
    /\ Working("finish") /\ Unlocked
    /\ IF Holds(worker.op)
       THEN /\ session' = Released
            /\ Saved([wf EXCEPT !.asks = IF worker.failing THEN 0 ELSE @])
       ELSE UNCHANGED <<session, wf>>
    /\ Proceed("complete")
    /\ UNCHANGED <<slot, record, minted, call, asked, boot, settled, spent>>

FailFinish ==
    /\ Working("finish")
    /\ Spend
    /\ Conclude("failed")
    /\ UNCHANGED <<durable, minted, call, asked, boot, settled>>

\* completeOperation; a record that has ended stays.
Complete ==
    /\ Working("complete")
    /\ record' = IF IsActive(worker.op)
                 THEN [record EXCEPT ![worker.op].status = worker.outcome] ELSE record
    /\ worker' = None
    /\ UNCHANGED <<session, wf, slot, minted, call, asked, boot, settled, spent>>

\* CancelOperation
Cancel ==
    /\ worker # None /\ ~worker.canceled /\ IsActive(worker.op) /\ boot = "up"
    /\ Spend
    /\ worker' = [worker EXCEPT !.canceled = TRUE]
    /\ UNCHANGED <<durable, minted, call, asked, boot, settled>>

-----------------------------------------------------------------------------
(* A crash and the start of the next process. *)

\* Ordinary recovery resumes operations.  A startup closes an idle input whose
\* lease still runs and discards the work of one whose lease is over.
Crash ==
    /\ Spend
    /\ boot = "up"
    /\ boot' \in IF slot = None THEN {"up"}
                 ELSE {"resume", "recover"} \cup {b \in {"idle"} : ActiveOps = {}}
    /\ settled' = FALSE
    /\ call' = [c \in Client |-> None]
    /\ worker' = None
    /\ UNCHANGED <<durable, minted, asked>>

\* recoverAfterRestart of the first state a call loads.
RecoverAfterRestart ==
    /\ ~settled /\ boot = "up"
    /\ settled' = TRUE
    /\ \/ /\ ActiveOps = {} /\ wf.stage \in 1 .. Stages - 1
          /\ \E asks \in 0 .. wf.asks : Saved([wf EXCEPT !.asks = asks])
       \/ (ActiveOps # {} \/ wf.stage \in {0, Stages}) /\ UNCHANGED wf
    /\ UNCHANGED <<session, slot, record, minted, worker, call, asked, boot, spent>>

\* compositeUploadRecoveryValid, or the revision the command was accepted at.
Resumable(o) ==
    \/ Holds(o) /\ session.wants = record[o].wants
    \/ wf.rev = record[o].rev

\* recoverOperationAfterLease; the retained command may have expired.
Resume ==
    /\ boot = "resume"
    /\ boot' = "up"
    /\ UNCHANGED <<session, wf, slot, minted, call, asked, spent>>
    /\ \/ /\ ActiveOps = {}
          /\ UNCHANGED <<record, worker, settled>>
       \/ \E o \in ActiveOps :
            /\ Resumable(o)
            /\ worker' = NewWorker(o)
            /\ settled' = TRUE
            /\ UNCHANGED record
       \/ \E o \in ActiveOps :
            /\ record' = [record EXCEPT ![o].status = "interrupted"]
            /\ UNCHANGED <<worker, settled>>

\* discardInterruptedOperations
Discard ==
    /\ boot = "recover"
    /\ boot' = "settle"
    /\ record' = [o \in Operation |->
                    IF IsActive(o) THEN [record[o] EXCEPT !.status = "interrupted"]
                    ELSE record[o]]
    /\ UNCHANGED <<session, wf, slot, minted, worker, call, settled, asked, spent>>

\* The session of an ended operation is released and the input closes.  An
\* operation that was bound and never stored fails the start; the next start
\* finds an idle input with a running lease.
Settle ==
    /\ boot = "settle"
    /\ IF session # None /\ session.active # None
       THEN IF record[session.active] = None
            THEN boot' = "failed" /\ UNCHANGED <<session, wf, slot>>
            ELSE /\ session' = Released
                 /\ Saved(wf)
                 /\ slot' = None
                 /\ boot' = "closed"
       ELSE boot' = "closed" /\ slot' = None /\ UNCHANGED <<session, wf>>
    /\ UNCHANGED <<record, minted, worker, call, settled, asked, spent>>

CloseIdle ==
    /\ boot \in {"idle", "failed"}
    /\ boot' = "closed"
    /\ slot' = None
    /\ UNCHANGED <<session, wf, record, minted, worker, call, settled, asked, spent>>

-----------------------------------------------------------------------------
CallStep(c) ==
    \/ CommitOpen(c) \/ Choose(c) \/ Attach(c) \/ Apply(c) \/ Reload(c)
    \/ Start(c) \/ Create(c) \/ Dispatch(c)

WorkerStep == Begin \/ Look \/ Tune \/ Stage \/ Finish \/ Complete

BootStep == Resume \/ Discard \/ Settle \/ CloseIdle

Next ==
    \/ \E c \in Client : \/ \E r \in Request : Adopt(c, r) \/ Open(c, r)
                         \/ \E f \in Answer : Receive(c, f)
                         \/ CallStep(c)
                         \/ FailCreate(c) \/ FailDispatch(c) \/ Disconnect(c)
    \/ WorkerStep \/ FailBegin \/ FailFinish \/ Cancel
    \/ \E f \in Answer : Answered(f)
    \/ Crash \/ BootStep \/ RecoverAfterRestart

Spec == Init /\ [][Next]_vars

\* Calls, the worker and the start of a process go on, and a client repeats its
\* answer until one of its calls has been heard.
Fairness ==
    /\ \A c \in Client : WF_vars(CallStep(c))
    /\ WF_vars(WorkerStep)
    /\ WF_vars(BootStep)
    /\ \A f \in Answer : SF_vars(\E c \in Client : Receive(c, f))
    /\ WF_vars((\E f \in Answer : asked[f] # 0) /\ RecoverAfterRestart)

FairSpec == Spec /\ Fairness

-----------------------------------------------------------------------------
\* An answer starts at most one operation, however often it is repeated and
\* whatever else was answered since: the operation key of a replay is taken
\* from the receipt (SubmitUploadFeedback).
OneRunPerAnswer ==
    \A f \in Answer : Cardinality({o \in Recorded : record[o].key.base = f}) <= 1

\* A running operation works for the session as it is: for what that session
\* wants, bound to no other operation that was stored, and accepted at or after
\* every answer applied to it (requireOperationOwnership before the session of
\* a call is written).
RunMatchesSession ==
    \A o \in ActiveOps :
       /\ session.wants = record[o].wants
       /\ session.active \in Recorded => session.active = o
       /\ \A f \in Answer : session.receipts[f] # 0 => wf.receipts[f] <= record[o].rev

\* An operation that reached its goal, or waits for an answer, has released its
\* session before, so a crash in between cannot lock the session
\* (finishCompositeSession precedes completeOperation).
EndedRunIsFree ==
    \A o \in Recorded : record[o].status \in {"completed", "blocked"} => ~Holds(o)

\* The answer is the last thing that happened to the workflow, and nothing
\* stands in the way of its operation.
Waits(f) ==
    /\ session # None /\ session.receipts[f] # 0 /\ wf.receipts[f] = wf.rev
    /\ session.active = None /\ minted < MaxOperations

\* An applied answer is not left lying: its operation starts, or something else
\* moves the workflow, when its first caller went away (the replay of
\* SubmitUploadFeedback).
AnswersResume == \A f \in Answer : Waits(f) ~> ~Waits(f) \/ boot = "closed"

\* What cleanup of an admission promises (module.go:1346): no session stays
\* bound to an operation that was never stored.
BoundIsStored ==
    Unlocked /\ session # None /\ session.active # None => record[session.active] # None

\* What StartUpload says it does (composite_upload.go:157): an operation it
\* answers without a start of its own is one of the session it was asked for.
RepliesMatchRequest ==
    [][\A c \in Client : (Choose(c) /\ call'[c] = None) =>
          wf.stage = Stages \/ \E o \in Latest : record[o].wants = call[c].wants]_vars

\* A start of the process settles what a crash left and closes the input
\* (ResetIdleInputOnStartup, active_input.go:113).
StartSucceeds == boot # "failed"

=============================================================================
