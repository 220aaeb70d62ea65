SPECIFICATION Spec
CONSTANTS
  Request = {r1, r2, r3}
  Family = {f1, f2, f3}
  MaxGen = 2
  u1 = u1
  k1 = k1
  User = {u1}
  Sid = {s1}
  LogoutToken = {k1}
  Claims <- MCClaims
  Timeout = 2
  Lifetime = 3
  Idle = 2
  TouchEvery = 1
  RotateEvery = 1
  Grace = 1
  Skew = 2
  MaxConcurrent = 2
  PruneAfter = 0
  LogoutAge = 1
  Retention = 3
  Delay = 1
  Horizon = 4
  MaxStarts = 4
  None = None
SYMMETRY Symmetric
INVARIANTS IInv OneActivePerFamily ConcurrencyCapped DeadlineKept
PROPERTIES ClosedForGood ReplayHarmless
CHECK_DEADLOCK FALSE
