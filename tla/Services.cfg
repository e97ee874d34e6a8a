SPECIFICATION ServicesSpec
CONSTANTS
  None = None
  Runtimes = {r1, r2}
  Requests = {q1, q2}
  NoRecord = NoRecord
  m1 = m1
  m2 = m2
  Order <- MCOrder
  Replacements = {g1}
  Nothing = Nothing
  c1 = c1
  c2 = c2
  c3 = c3
  j1 = j1
  j2 = j2
  Calls = {c1, c2, c3}
  JobOf <- MCJobOf
  Waiters = {w1}
  Concurrency = 1
  Inputs = {i1, i2, i3}
  MaxFaults = 1
  Devices = {d1, d2}
  MaxLinks = 3
  MaxWindows = 2
  MaxRefusals = 2
  MaxUpsets = 1
SYMMETRY ServiceSymmetry
INVARIANTS
  RunsOnce
  ReceiptIsTrue
  AnswersAreDurable
  SoundReconciliation
  DrainedIsQuiet
  OnlyLiveServices
  SupervisorInv
  ClosedIsQuiet
  ConsumedOnce
  NothingForgotten
  EndIsLast
  MemoryMatchesDisk
  ReadyIsPaired
PROPERTY SwapKeepsService
CHECK_DEADLOCK FALSE
