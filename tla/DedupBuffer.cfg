SPECIFICATION FairSpec
CONSTANTS
  i1 = i1
  i2 = i2
  i3 = i3
  grafana = grafana
  wud = wud
  Item <- MCItem
  Source <- MCSource
  SourceOf <- MCSourceOf
  Windows <- MCWindows
  Longest = 2
  Horizon = 4
  MaxFaults = 2
INVARIANTS
  IInv
  HeldOneWindow
  OnceUnlessKept
  NotForgotten
PROPERTY
  EventuallyDelivered
CHECK_DEADLOCK FALSE
