----------------------------- MODULE MCWsRelay -----------------------------
(* Instances of WsRelay for TLC. *)
EXTENDS WsRelay, TLC

Symmetry == Permutations(Requests)
=============================================================================
