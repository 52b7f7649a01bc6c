------------------------- MODULE MCConfigActivation -------------------------
(* Instances of ConfigActivation for TLC.                                  *)
EXTENDS ConfigActivation, TLC

MCConfig == {[provider |-> 0, description |-> 0], [provider |-> 1, description |-> 0],
             [provider |-> 0, description |-> 1]}
MCTwo == {[provider |-> 0, description |-> 0], [provider |-> 1, description |-> 0]}
MCBroken == {[provider |-> 0, description |-> 1]}
MCEnv == {None, 1}
MCSame == {None}
Symmetry == Permutations(Request)
=============================================================================
