--------------------------- MODULE MCAuthManager ---------------------------
(* Instances of AuthManager for TLC. *)
EXTENDS AuthManager, TLC

\* Overlapping requests and refreshes while the file comes and goes; and one
\* operation at a time, the operator's and the refresh loop's included.
MCEnvironments ==
  {[overlap |-> TRUE, others |-> TRUE, operated |-> FALSE,
    classes |-> {"unauthorized"}, until |-> 1],
   [overlap |-> FALSE, others |-> FALSE, operated |-> TRUE,
    classes |-> {"quota", "unauthorized"}, until |-> 2]}

\* Callers run the same operations.
Symmetry == Permutations(Callers)
=============================================================================
