------------------------ MODULE MCExecutionRegistry ------------------------
(* Instances of ExecutionRegistry for TLC. *)
EXTENDS ExecutionRegistry, TLC

\* Groups, sinks and callers are only ever compared for equality.
Symmetry ==
  Permutations(Groups) \cup Permutations(Sinks) \cup Permutations(Drainers)
    \cup Permutations(Closers)
=============================================================================
