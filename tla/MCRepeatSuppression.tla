------------------------ MODULE MCRepeatSuppression ------------------------
(* Values of the constants of RepeatSuppression for TLC. *)
EXTENDS RepeatSuppression, TLC

CONSTANTS d1, d2, d3, f1, f2

Sym == Permutations(Request) \cup Permutations(Fingerprint)
=============================================================================
