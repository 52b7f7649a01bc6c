-------------------------- MODULE MCWorkflowStages --------------------------
(* Instances of WorkflowStages for TLC. *)
EXTENDS WorkflowStages, TLC

\* Bound: one failed save, dead process or ended time to live.
OneMishap == faults + lapses + 1 >= MaxFaults + MaxLapses

Symmetry == Permutations(Trackers)

=============================================================================
