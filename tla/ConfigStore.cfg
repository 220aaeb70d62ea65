SPECIFICATION Spec
CONSTANTS
  Instance = {i1}
  Source = {s1}
  Token = {t1}
  Passkey = {p1}
  Store = {sqlite, postgres}
  Val = {0, 1}
  Timeout = {1, 2}
  Policy <- MCPolicy
  TopicSet <- MCTopicSet
  Topic <- MCTopic
  Profile <- MCProfile
  Severity = {"warning", "critical"}
  Origin = {"grafana", "batch"}
  Event = {"disk", "cpu"}
  MaxCode = 2
  FallbackTime = 1
  Margin = 1
  MaxSources = 1
  Initial <- MCInitial
  Bundle <- MCBundle
  MaxSaves = 3
  MaxWaiting = 1
  MaxFaults = 1
  MaxCrashes = 1
  None = None
INVARIANTS IInv AckedOnDisk AckedInMemory EmergencyCovered CodeOnce
CHECK_DEADLOCK FALSE
