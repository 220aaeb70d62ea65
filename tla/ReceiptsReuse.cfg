CONSTANTS
  r1 = r1  r2 = r2
  fp1 = fp1  fp2 = fp2
  i1 = i1  i2 = i2
  telegram = telegram
  Receipt = {r1, r2}
  Fingerprint = {fp1}
  Instance = {i1}
  Channel = {}
  Policy <- MCBriefPolicy
  PostBound = 0
  FullLease = 1
  Horizon = 3
  MaxFaults = 0
  None = None
SYMMETRY Sym
SPECIFICATION Spec
PROPERTIES
  ImplementsContract
