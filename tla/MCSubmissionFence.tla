------------------------- MODULE MCSubmissionFence -------------------------
(* Instances of SubmissionFence for TLC.                                   *)
EXTENDS SubmissionFence, TLC

Symmetry == Permutations(Workflow)
=============================================================================
