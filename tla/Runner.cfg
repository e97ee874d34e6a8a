SPECIFICATION FairRunnerSpec
CONSTANTS
  CallIds = {c1, c2}
  Clients = {a}
  Runs = {r1, r2, r3}
  Limit = 1
  Capacity = 1
  None = None
INVARIANTS
  PoolDiscipline
  OneVerdict
  NoSecondExecution
  ActivityMatchesBook
PROPERTIES
  OneTerminalResult
  DeadlineBackstop
CHECK_DEADLOCK FALSE
