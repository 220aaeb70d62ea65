SPECIFICATION SignInSpec
CONSTANTS
  Request = {r1, r2}
  Token = {t1, t2}
  Name = {n1, n2}
  Credential = {c1}
  MaxFailures = 1
  FailureWindow = 0
  Lockout = 1
  MaxBurst = 2
  MaxLinks = 1
  BurstWindow = 1
  LinkTtl = 1
  Ttl = 0
  LastSecond = 2
  MaxRequests = 3
  MaxUpsets = 1
  Nil = Nil
SYMMETRY Symmetric
INVARIANTS GuessesBounded SessionsEarned
CHECK_DEADLOCK FALSE
