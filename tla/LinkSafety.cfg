SPECIFICATION LinkSpec
CONSTANTS
  CallIds = {c1, c2}
  Clients = {a}
  Peer = a
  Runs = {r1, r2, r3}
  Limit = 1
  Capacity = 2
  None = None
  MaxConns = 2
  MaxRevision = 1
  MaxRestarts = 1
  Oversize = {c1}
  Faults = {"cut", "timeout", "abort", "idle", "dispose", "restart"}
SYMMETRY RunSymmetry
INVARIANTS
  AtMostOnceUntilStopped
  NoCallForgotten
CHECK_DEADLOCK FALSE
