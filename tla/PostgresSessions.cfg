SPECIFICATION Spec
CONSTANTS
  i1 = i1
  i2 = i2
  f1 = f1
  f2 = f2
  f3 = f3
  f4 = f4
  k1 = k1
  k2 = k2
  d1 = d1
  None = None
  Instance = {i1, i2}
  Family = {f1, f2, f3, f4}
  LogoutToken = {k1, k2}
  Key = {1, 2}
  Outdated = {1, 2}
  Snapshot = {d1}
  Holder <- MCHolder
  Claims <- MCClaims
  Contents <- MCContents
  Stored <- MCStored
  MaxGen = 1
  MaxConcurrent = 1
  MaxCalls = 2
  MaxQueue = 1
  Faulty = {i1}
  MaxFaults = 1
PROPERTIES ImplementsCalls EveryCallAnswered
CHECK_DEADLOCK FALSE
