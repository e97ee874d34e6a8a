SPECIFICATION FairSpec
CONSTANTS
  Procs = {p1, p2, p3}
  Mortal = {p1}
  Retries = 0
  None = None
  Versions = {1, 2}
  Ailing = {{}, {2}}
  Retained = 1
  MaxCalls = 3
INVARIANTS
  ExclusiveWhileAllLive
  ActiveIsInstalled
  RollbackTargetKept
  RecordMeansWhole
PROPERTIES
  OrphansAreDead
  SickIsLeft
CHECK_DEADLOCK FALSE
