SPECIFICATION LinkSpec
CONSTANTS
  CallIds = {c1}
  Clients = {a}
  Peer = a
  Runs = {r1, r2}
  Limit = 1
  Capacity = 1
  None = None
  MaxConns = 3
  MaxRevision = 1
  MaxRestarts = 1
  Oversize = {}
  Faults = {"restart"}
SYMMETRY RunSymmetry
INVARIANT AtMostOnce
CHECK_DEADLOCK FALSE
