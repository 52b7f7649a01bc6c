------------------------- MODULE OperationLifecycle -------------------------
(***************************************************************************)
(* What a workflow promises about its long-running operations, without     *)
(* processes, leases or recovery: they run one at a time, each gets one    *)
(* outcome, and only the outcome that was decided is published.            *)
(***************************************************************************)
CONSTANTS Operation, Results, None

VARIABLES
    stage,      \* stage[o]: absent, open, decided or published
    outcome     \* outcome[o]: its outcome once decided

vars == <<stage, outcome>>

Init ==
    /\ stage = [o \in Operation |-> "absent"]
    /\ outcome = [o \in Operation |-> None]

Accept(o) ==
    /\ \A x \in Operation : stage[x] \in {"absent", "published"}
    /\ stage[o] = "absent"
    /\ stage' = [stage EXCEPT ![o] = "open"]
    /\ UNCHANGED outcome

\* The outcome is stored where a restart finds it, or published at once.
Decide(o, result, next) ==
    /\ stage[o] = "open"
    /\ stage' = [stage EXCEPT ![o] = next]
    /\ outcome' = [outcome EXCEPT ![o] = result]

Publish(o) ==
    /\ stage[o] = "decided"
    /\ stage' = [stage EXCEPT ![o] = "published"]
    /\ UNCHANGED outcome

\* A result that another command superseded.
Supersede(o) ==
    /\ stage[o] = "published" /\ outcome[o] = "completed"
    /\ outcome' = [outcome EXCEPT ![o] = "stale"]
    /\ UNCHANGED stage

Next ==
    \E o \in Operation :
        \/ Accept(o) \/ Publish(o) \/ Supersede(o)
        \/ \E result \in Results, next \in {"decided", "published"} : Decide(o, result, next)

Spec == Init /\ [][Next]_vars
=============================================================================
