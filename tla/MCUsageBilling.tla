-------------------------- MODULE MCUsageBilling ---------------------------
(***************************************************************************)
(* Instances of UsageBilling for TLC.                                      *)
(***************************************************************************)
EXTENDS UsageBilling

CONSTANTS p1, p2

\* the second usage costs more than the user has
Costs == [p \in {p1, p2} |-> IF p = p1 THEN 1 ELSE 2]
=============================================================================
