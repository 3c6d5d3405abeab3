--------------------------- MODULE MCAuthCooldown ---------------------------
(* An instance of AuthCooldown for TLC. *)
EXTENDS AuthCooldown

CONSTANTS m1, m2

\* Two models and every failure class without a store; one model, 429s and
\* results without a model with a store.
MCEnvironments ==
  {[models |-> {m1, m2}, classes |-> FailureClass, retryAfters |-> {NoRetryAfter, 0, 2}, saves |-> FALSE],
   [models |-> {m1, NoModel}, classes |-> {"quota"}, retryAfters |-> {NoRetryAfter}, saves |-> TRUE]}
=============================================================================
