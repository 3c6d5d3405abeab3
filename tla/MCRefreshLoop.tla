--------------------------- MODULE MCRefreshLoop ---------------------------
(***************************************************************************)
(* RefreshLoop for TLC.                                                    *)
(***************************************************************************)
EXTENDS RefreshLoop, TLC

Symmetry == Permutations(Auths)
=============================================================================
