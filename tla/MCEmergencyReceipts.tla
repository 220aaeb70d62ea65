------------------------ MODULE MCEmergencyReceipts ------------------------
(* Values of the constants of EmergencyReceipts for TLC. *)
EXTENDS EmergencyReceipts, TLC

CONSTANTS r1, r2, fp1, fp2, i1, i2, telegram

\* A short life, for runs whose point is the next receipt of a condition.
Brief ==
  [retry |-> 1, expire |-> 2, maxAttempts |-> 1, lease |-> 1,
   after |-> [c \in Channel |-> 0], autoResolve |-> TRUE]

MCBriefPolicy == {Brief}

\* Two attempts in two ticks: a lease lost late may leave no attempt for later.
Quick ==
  [retry |-> 1, expire |-> 2, maxAttempts |-> 2, lease |-> 2,
   after |-> [c \in Channel |-> 1], autoResolve |-> FALSE]

MCQuickPolicy == {Quick}

Sym == Permutations(Receipt) \cup Permutations(Instance)
         \cup Permutations(Fingerprint)
=============================================================================
