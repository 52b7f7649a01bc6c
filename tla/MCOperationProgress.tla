------------------------ MODULE MCOperationProgress ------------------------
(* Instances of OperationProgress for TLC.                                 *)
EXTENDS OperationProgress, TLC

Symmetry == Permutations(Reporter)
=============================================================================
