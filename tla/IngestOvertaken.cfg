SPECIFICATION Spec
CONSTANTS
  q1 = q1
  q2 = q2
  q3 = q3
  disk = disk
  db = db
  node = node
  Request = {q1, q2, q3}
  Alert = {disk}
  Rule = {}
  Covers <- MCCovers
  Holds <- MCBuffered
  Holdable = {disk}
  Silenceable = {}
  ListLimit = 1
  MaxRestarts = 0
  MaxFailing = 0
  None = None
CHECK_DEADLOCK FALSE
SYMMETRY Sym
INVARIANTS
  RecoveryCloses
