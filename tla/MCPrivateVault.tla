--------------------------- MODULE MCPrivateVault ---------------------------
(* Instances of PrivateVault for TLC.  No symmetry: several keys are removed *)
(* in the order of their names, as the directory lists them.                 *)
EXTENDS PrivateVault
=============================================================================
