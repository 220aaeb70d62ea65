--------------------------- MODULE MCRegistration ---------------------------
(* Values of the constants of Registration for TLC. *)
EXTENDS Registration

CONSTANTS f1, f2, f3, disk

\* Every firing is one of the same condition.
MCConditionOf == [f \in Firing |-> disk]
=============================================================================
