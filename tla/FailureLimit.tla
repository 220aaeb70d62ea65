---------------------------- MODULE FailureLimit ----------------------------
(***************************************************************************)
(* PersistentRateLimitPolicy: the failures of an account inside a window,  *)
(* and the lockout that too many of them cause.  A record is a row of      *)
(* klaxond_auth_rate_limits; one that keeps nothing counts for no row.     *)
(* Times are whole numbers from 1 on.                                      *)
(***************************************************************************)
EXTENDS Integers, Sequences, FiniteSets, SequencesExt

CONSTANTS
  MaxFailures,    \* GOLD_AUTH_ACCOUNT_FAILURE_MAX
  FailureWindow,  \* GOLD_AUTH_ACCOUNT_FAILURE_WINDOW
  Lockout         \* GOLD_AUTH_ACCOUNT_LOCKOUT_WINDOW

ASSUME LimitAssumption ==
  MaxFailures \in Nat \ {0} /\ FailureWindow \in Nat /\ Lockout \in Nat \ {0}

\* A lockout of 10 minutes outlives the failures of 5 that caused it.
ASSUME LockoutAssumption == FailureWindow < Lockout

NoLimit == [fails |-> <<>>, until |-> 0]

\* The failures of a record come in order, the oldest first.
Before(s, t) == Cardinality({i \in DOMAIN s : s[i] < t})

\* Those of s that are not before t.
Since(s, t) == SubSeq(s, Before(s, t) + 1, Len(s))

\* prune_record.
Pruned(r, t) == [fails |-> Since(r.fails, t - FailureWindow),
                 until |-> IF r.until > t THEN r.until ELSE 0]

Locked(r, t) == Pruned(r, t).until > t

\* record_failure.
Failed(r, t) ==
  LET all == Append(Pruned(r, t).fails, t)
      excess == IF Len(all) > MaxFailures THEN Len(all) - MaxFailures ELSE 0
  IN  [fails |-> SubSeq(all, excess + 1, Len(all)),
       until |-> IF Len(all) >= MaxFailures THEN t + Lockout ELSE Pruned(r, t).until]

=============================================================================
