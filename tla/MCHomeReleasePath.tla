------------------------- MODULE MCHomeReleasePath -------------------------
(* Instances of HomeReleasePath for TLC. *)
EXTENDS HomeReleasePath, TLC

Symmetry == Permutations(Groups)
=============================================================================
