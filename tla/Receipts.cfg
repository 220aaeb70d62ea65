CONSTANTS
  r1 = r1  r2 = r2
  fp1 = fp1  fp2 = fp2
  i1 = i1  i2 = i2
  telegram = telegram
  Receipt = {r1}
  Fingerprint = {fp1}
  Instance = {i1, i2}
  Channel = {telegram}
  Policy <- MCQuickPolicy
  PostBound = 1
  FullLease = 2
  Horizon = 4
  MaxFaults = 1
  None = None
SPECIFICATION FairSpec
INVARIANTS
  IInv
  AttemptsBounded
  NoOverlappingRetries
  EscalatedOnceUndisturbed
PROPERTIES
  EventuallyClosed
