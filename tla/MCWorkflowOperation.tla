------------------------ MODULE MCWorkflowOperation ------------------------
(* Instances of WorkflowOperation for TLC.                                 *)
EXTENDS WorkflowOperation, TLC

Symmetry == Permutations(Process)
=============================================================================
