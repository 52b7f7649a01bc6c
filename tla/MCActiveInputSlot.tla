------------------------- MODULE MCActiveInputSlot -------------------------
(* Instances of ActiveInputSlot for TLC.                                   *)
EXTENDS ActiveInputSlot, TLC

CONSTANTS o1, o2, s1, s2, k1, k2

\* One owner switching between two sources.
SwitchRequests == {[owner |-> o1, source |-> s1, key |-> k1],
                   [owner |-> o1, source |-> s2, key |-> k2]}

\* Either of them, and another owner.
MixedRequests == SwitchRequests \cup {[owner |-> o2, source |-> s1, key |-> k2]}

\* Bound: the fourth revision is for the other owner or for the recovery of an
\* abandoned request, without failures.
Bounded ==
    \/ slot.revision < 4
    \/ slot.revision = 4 /\ faults = 0 /\ (slot.owner = o2 \/ slot.state = "recovering")

\* One request, sent again and again.
SingleRequests == {[owner |-> o1, source |-> s1, key |-> k1]}

Symmetry == Permutations(Process) \cup Permutations(Workflow)
=============================================================================
