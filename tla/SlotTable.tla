----------------------------- MODULE SlotTable -----------------------------
(***************************************************************************)
(* The singleton row active_input and the rules by which SQLite write      *)
(* transactions change it (internal/services/db/active_input.go).  These   *)
(* are pure operators: a row, the row a caller expected, the row it wants  *)
(* to write, and what the same transaction reads from the operation and    *)
(* effect tables.  ActiveInputSlot composes them with the processes.       *)
(*                                                                         *)
(* Abstractions.  InputID, SourceVersion and WorkflowID are bound together *)
(* when an input is committed, so one field "workflow" stands for the      *)
(* triple.  ReservationID and RequestedPath are set and cleared together:  *)
(* the Boolean "reserved".  IdempotencyKey and RequestFingerprint are one  *)
(* request key.  LeaseExpiresAt is the number of ticks left until it, so   *)
(* no absolute clock is needed; the lease of an empty row is never read    *)
(* and is written as 0.                                                    *)
(***************************************************************************)
EXTENDS Naturals

CONSTANTS
    Process,    \* process epochs: an epoch is never reused after a crash
    Owner,      \* authenticated owners
    Workflow,   \* workflow identities, allocated when an input is committed
    Key,        \* client idempotency keys
    None,       \* the absent value
    TTL         \* workflowWorkLeaseTTL in ticks

ASSUME TTLAssumption == TTL \in Nat \ {0}
ASSUME NoneAssumption ==
    None \notin Process /\ None \notin Owner /\ None \notin Workflow /\ None \notin Key

States == {"empty", "opening", "active", "switch_pending", "recovering"}

Row == [state       : States,
        revision    : Nat,
        fence       : Nat,
        owner       : Owner \cup {None},
        coordinator : Process \cup {None},
        lease       : 0 .. TTL,
        workflow    : Workflow \cup {None},
        reserved    : BOOLEAN,
        key         : Key \cup {None}]

InitialRow == [state |-> "empty", revision |-> 0, fence |-> 0, owner |-> None,
               coordinator |-> None, lease |-> 0, workflow |-> None,
               reserved |-> FALSE, key |-> None]

-----------------------------------------------------------------------------
(* Rows a caller builds from the row it read.                              *)

Live(row) == row.lease > 0

Expired(row) == row.state # "empty" /\ ~Live(row)

HeldBy(row, p) == row.state # "empty" /\ row.coordinator = p

SameClaim(row, expected) ==
    /\ row.revision = expected.revision
    /\ row.fence = expected.fence
    /\ row.coordinator = expected.coordinator

\* Mutants: closing the slot forgets its fence, or its coordinator.
EmptyRow_FenceReset(row) ==
    [row EXCEPT !.state = "empty", !.revision = @ + 1, !.lease = 0, !.fence = 0,
                !.workflow = None, !.reserved = FALSE, !.key = None]

EmptyRow_CoordinatorReset(row) ==
    [row EXCEPT !.state = "empty", !.revision = @ + 1, !.lease = 0, !.coordinator = None,
                !.workflow = None, !.reserved = FALSE, !.key = None]

EmptyRow(row) ==
    [row EXCEPT !.state = "empty", !.revision = @ + 1, !.lease = 0,
                !.workflow = None, !.reserved = FALSE, !.key = None]

RecoveringRow(row, p) ==
    [row EXCEPT !.state = "recovering", !.revision = @ + 1, !.fence = @ + 1,
                !.coordinator = p, !.lease = TTL]

\* Mutant: recovery keeps the key of an abandoned request.
RestoredRow_KeyKept(row) ==
    IF row.workflow = None
    THEN EmptyRow(row)
    ELSE [row EXCEPT !.state = "active", !.revision = @ + 1, !.reserved = FALSE]

\* An abandoned request never committed its idempotency receipt, so its key
\* goes with its reservation.
RestoredRow(row) ==
    IF row.workflow = None
    THEN EmptyRow(row)
    ELSE [row EXCEPT !.state = "active", !.revision = @ + 1, !.reserved = FALSE,
                     !.key = IF row.reserved THEN None ELSE @]

ReservedRow(row, p, owner, key) ==
    [row EXCEPT !.state = IF row.state = "empty" THEN "opening" ELSE "switch_pending",
                !.revision = @ + 1,
                !.fence = IF row.state = "empty" THEN @ + 1 ELSE @,
                !.owner = owner, !.coordinator = p, !.lease = TTL,
                !.reserved = TRUE, !.key = key]

CommittedRow(pending, w) ==
    [pending EXCEPT !.state = "active", !.revision = @ + 1, !.lease = TTL,
                    !.workflow = w, !.reserved = FALSE]

\* The deferred rollback of OpenInput: the row read before the reservation,
\* under the reservation's fence and owner.
RolledBackRow(prior, pending) ==
    [prior EXCEPT !.revision = pending.revision + 1, !.fence = pending.fence,
                  !.owner = pending.owner, !.coordinator = pending.coordinator,
                  !.lease = IF prior.state = "empty" THEN 0 ELSE TTL]

-----------------------------------------------------------------------------
(* transitionActiveInput: which next rows the transaction accepts.         *)

Acquirable(row) == row.state = "empty" \/ ~Live(row)

AcquisitionValid(row, next) ==
    /\ next.fence = row.fence + 1
    /\ next.coordinator # None
    /\ next.owner # None
    /\ Live(next)
    /\ IF row.state = "empty" THEN next.state = "opening" ELSE next.state = "recovering"

TenureKept(row, next) ==
    /\ next.fence = row.fence
    /\ next.coordinator = row.coordinator
    /\ next.owner = row.owner

\* validateActiveInputTransition
ShapeValid(row, next) ==
    \/ /\ next.state = "recovering"
       /\ Acquirable(row)
       /\ next.workflow = row.workflow
       /\ next.reserved = row.reserved
    \/ /\ next.state = "opening" /\ row.state = "empty"
       /\ next.reserved /\ next.key # None /\ next.workflow = row.workflow
    \/ /\ next.state = "switch_pending" /\ row.state = "active"
       /\ next.reserved /\ next.key # None /\ next.workflow = row.workflow
    \/ next.state = "active" /\ next.workflow # None /\ ~next.reserved
    \/ next.state = "empty" /\ next.workflow = None /\ ~next.reserved

RestoringOwnedInput(row, next) ==
    row.state = "recovering" /\ next.state = "active" /\ next.workflow = row.workflow

\* Mutant: every unresolved effect counts as isolated.
EffectsPermit_AllIsolated(row, next, isolated, blocking) ==
    \/ next.state = "recovering"
    \/ RestoringOwnedInput(row, next)
    \/ (isolated \cup blocking) \cap {row.workflow, next.workflow} = {}

\* isolated: unresolved effects covered by their own global submission fence.
\* blocking: every other unresolved effect.  Both are sets of workflows.
EffectsPermit(row, next, isolated, blocking) ==
    \/ next.state = "recovering"
    \/ RestoringOwnedInput(row, next)
    \/ /\ blocking = {}
       /\ isolated \cap {row.workflow, next.workflow} = {}

\* Mutant: only closing the slot looks at the operations.
OperationsPermit_CloseOnly(row, next, active) ==
    next.state = "empty" => active = {}

OperationsPermit(row, next, active) ==
    \/ next.state \in {"recovering", "switch_pending"}
    \/ RestoringOwnedInput(row, next)
    \/ active = {}

TransitionAccepted(row, expected, next, active, isolated, blocking) ==
    /\ next.revision = expected.revision + 1
    /\ SameClaim(row, expected)
    /\ IF Acquirable(row) THEN AcquisitionValid(row, next) ELSE TenureKept(row, next)
    /\ ShapeValid(row, next)
    /\ EffectsPermit(row, next, isolated, blocking)
    /\ OperationsPermit(row, next, active)

-----------------------------------------------------------------------------
(* The narrower transactions on the row.                                   *)

\* CloseIdleActiveInput needs neither a live lease nor resolved effects.
CloseIdleAccepted(row, expected, active) ==
    /\ expected.state = "active" /\ row.state = "active"
    /\ SameClaim(row, expected)
    /\ row.owner = expected.owner
    /\ active = {}

\* The check shared by RenewActiveInput and RelinquishActiveInput.
TenureLive(row, p, fence) ==
    /\ HeldBy(row, p)
    /\ row.fence = fence
    /\ Live(row)

\* Mutant: a pending row authorises new work like settled work.
MayMutate_PendingAllowed(row, p, fence, w, allowPending) ==
    /\ row.coordinator = p
    /\ row.fence = fence
    /\ Live(row)
    /\ row.workflow = w
    /\ row.state \in {"active", "switch_pending", "recovering"}

\* requireWorkflowInputMutation for an authority (p, fence).
MayMutate(row, p, fence, w, allowPending) ==
    /\ row.coordinator = p
    /\ row.fence = fence
    /\ Live(row)
    /\ row.workflow = w
    /\ \/ row.state = "active"
       \/ allowPending /\ row.state \in {"switch_pending", "recovering"}
=============================================================================
