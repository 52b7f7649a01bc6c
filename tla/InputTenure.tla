---------------------------- MODULE InputTenure ----------------------------
(***************************************************************************)
(* What the row active_input promises to the rest of the release workflow, *)
(* without leases, revisions or callers.  An authority is a fence: it may  *)
(* act while the row carries that fence and is not idle.  ActiveInputSlot  *)
(* is shown to take only these steps; SubmissionFence relies on them.      *)
(***************************************************************************)
EXTENDS Naturals

CONSTANTS Workflow, None

\* idle: the row is empty or its lease has run out.  pending: opening or
\* switch_pending.  The other two are the states of the same name.
Phases == {"idle", "pending", "recovering", "active"}

\* legacy: the row was claimed to reconcile a workflow without opening it.
Inputs == [workflow : Workflow \cup {None}, fence : Nat, phase : Phases, legacy : BOOLEAN]

Input(workflow, fence, phase, legacy) ==
    [workflow |-> workflow, fence |-> fence, phase |-> phase, legacy |-> legacy]

NoInput == Input(None, 0, "idle", FALSE)

-----------------------------------------------------------------------------
(* Below, busy is the set of workflows with a queued or running operation; *)
(* isolated and blocking are those with unresolved effects that have, or   *)
(* lack, a protecting submission fence.                                    *)

Lapse(input, next) == next = Input(input.workflow, input.fence, "idle", input.legacy)

\* A legacy claim is dropped without a look at operations or effects.
Close(input, next, busy) ==
    /\ next = Input(None, input.fence, "idle", FALSE)
    /\ IF input.legacy THEN input.phase = "recovering" ELSE busy = {}

\* Only an idle row is acquired, and always under a new fence.
Recover(input, next) ==
    /\ input.phase = "idle"
    /\ next = Input(input.workflow, input.fence + 1, "recovering", input.legacy)

Open(input, next, busy, blocking) ==
    /\ input.phase = "idle" /\ input.workflow = None
    /\ next = Input(None, input.fence + 1, "pending", FALSE)
    /\ busy = {} /\ blocking = {}

Reconcile(input, next, unresolved) ==
    /\ input.phase = "idle" /\ input.workflow = None
    /\ next = Input(next.workflow, input.fence + 1, "recovering", TRUE)
    /\ next.workflow \in unresolved

Restore(input, next) ==
    /\ input.phase = "recovering" /\ input.workflow # None /\ ~input.legacy
    /\ next = Input(input.workflow, input.fence, "active", FALSE)

Reserve(input, next, isolated, blocking) ==
    /\ input.phase = "active"
    /\ next = Input(input.workflow, input.fence, "pending", input.legacy)
    /\ blocking = {} /\ input.workflow \notin isolated

\* Committing a switch, and rolling it back to the prior input.  The lease that
\* comes with the new row may be over when the row is written.
Commit(input, next, busy, isolated, blocking) ==
    /\ input.phase # "idle" /\ ~input.legacy
    /\ next = Input(next.workflow, input.fence, next.phase, FALSE)
    /\ next.phase \in {"active", "idle"}
    /\ next.workflow # None
    /\ busy = {} /\ blocking = {}
    /\ isolated \cap {input.workflow, next.workflow} = {}

TenureStep(input, next, busy, isolated, blocking) ==
    \/ Lapse(input, next)
    \/ Close(input, next, busy)
    \/ Recover(input, next)
    \/ Open(input, next, busy, blocking)
    \/ Reconcile(input, next, isolated \cup blocking)
    \/ Restore(input, next)
    \/ Reserve(input, next, isolated, blocking)
    \/ Commit(input, next, busy, isolated, blocking)

\* requireWorkflowInputMutation for the authority of a fence.
Mutable(input, fence, w, allowPending) ==
    /\ input.fence = fence
    /\ input.workflow = w
    /\ \/ input.phase = "active"
       \/ allowPending /\ input.phase \in {"pending", "recovering"}
=============================================================================
