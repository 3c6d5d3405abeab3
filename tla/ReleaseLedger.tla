--------------------------- MODULE ReleaseLedger ---------------------------
(***************************************************************************)
(* What Home is promised about the executions of one subscriber lifetime:  *)
(* executions of a group are released one at a time, and what Home has     *)
(* been told never decreases and never runs ahead of what was released.    *)
(***************************************************************************)
EXTENDS Naturals

CONSTANT Groups

VARIABLES
  released,   \* executions of each group that have really been released
  reported    \* releases of each group Home knows of

vars == <<released, reported>>

Init ==
  /\ released = [g \in Groups |-> 0]
  /\ reported = [g \in Groups |-> 0]

Release(g) ==
  /\ released' = [released EXCEPT ![g] = @ + 1]
  /\ UNCHANGED reported

Report(g, n) ==
  /\ n > reported[g]
  /\ n <= released[g]
  /\ reported' = [reported EXCEPT ![g] = n]
  /\ UNCHANGED released

Next == \E g \in Groups : Release(g) \/ \E n \in 1..released[g] : Report(g, n)

Spec == Init /\ [][Next]_vars
=============================================================================
