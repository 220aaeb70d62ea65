SPECIFICATION Spec
CONSTANTS
  q1 = q1
  q2 = q2
  q3 = q3
  disk = disk
  db = db
  node = node
  Request = {q1, q2, q3}
  Alert = {disk, db}
  Rule = {node}
  Covers <- MCCovers
  Holds <- MCHolds
  Holdable = {disk}
  Silenceable = {disk}
  ListLimit = 1
  MaxRestarts = 1
  MaxFailing = 1
  None = None
CHECK_DEADLOCK FALSE
SYMMETRY Sym
INVARIANTS
  IInv
  DeferralHonoured
  InhibitionCloses
