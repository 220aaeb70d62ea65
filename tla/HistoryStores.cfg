SPECIFICATION Spec
CONSTANTS
  Store = {lite, pg}
  Postgres = {pg}
  Session = {x1}
  LogoutToken = {k1}
  Ends <- MCEnds
  Account = {a1}
  Task = {w1}
  Receipt = {e1}
  MaxFailures = 2
  FailureWindow = 0
  Lockout = 1
  Horizon = 2
  MaxCalls = 4
  MaxChanges = 2
  MaxFaults = 1
  MaxCrashes = 1
  None = None
INVARIANTS AuthKept ActivityCurrent ReservationsSettled
CHECK_DEADLOCK FALSE
