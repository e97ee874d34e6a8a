SPECIFICATION FairSpec
CONSTANTS
  t1 = t1
  t2 = t2
  f1 = f1
  f2 = f2
  Txs = {t1, t2}
  Files = {f1, f2}
  Changes <- MCChanges
  MaxTransactions = 2
  MaxTerminal = 1
  HistoryBytes = 1
  Faults = {"store", "write", "crash", "edit"}
  MaxFaults = 2
  Original = Original
  External = External
  None = None
INVARIANTS
  TransactionInv
  AllOrNothingUnlessExposed
PROPERTIES
  OutsideEditsKept
  RollbackRestores
  RecoveryCompletes
CHECK_DEADLOCK FALSE
