CONSTANTS
  d1 = d1  d2 = d2  d3 = d3
  f1 = f1  f2 = f2
  Request = {d1, d2, d3}
  Fingerprint = {f1}
  Window = {1, 2}
  SendBound = 1
  TTL = 2
  Retention = 2
  LastArrival = 3
  Horizon = 7
  MaxFaults = 1
  None = None
CHECK_DEADLOCK FALSE
SPECIFICATION FairSpec
PROPERTIES
  EventuallyDecided
INVARIANTS
  IInv
  OneReservedSender
  SuppressedWasHeard
  OneSuccessPerWindow
