-------------------------- MODULE MCHomeLifetime --------------------------
(* Instances of HomeLifetime for TLC.  No symmetry: the run checks liveness. *)
EXTENDS HomeLifetime

CONSTANTS r1, r2

TwoRequests == {r1, r2}
===========================================================================
