CONSTANTS
  f1 = f1  f2 = f2  f3 = f3
  disk = disk
  Firing = {f1, f2, f3}
  Condition = {disk}
  ConditionOf <- MCConditionOf
  Fallible = {f1, f2}
  Nothing = Nothing
SPECIFICATION FairRegistration
INVARIANTS
  RegistrationInv
  AnswersJustified
PROPERTIES
  EveryFiringAnswered
CHECK_DEADLOCK FALSE
