SPECIFICATION LockSpec
CONSTANTS
  Procs = {p1, p2, p3}
  Mortal = {p1}
  Retries = 1
  None = None
SYMMETRY LivingSymmetry
PROPERTY LivingOwnerKeepsFile
CHECK_DEADLOCK FALSE
