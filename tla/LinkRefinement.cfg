SPECIFICATION LinkSpec
CONSTANTS
  CallIds = {c1}
  Clients = {a}
  Peer = a
  Runs = {r1, r2}
  Limit = 1
  Capacity = 1
  None = None
  MaxConns = 3
  MaxRevision = 2
  MaxRestarts = 1
  Oversize = {}
  Faults = {"cut", "crash", "silence", "deadline", "timeout", "manifest"}
SYMMETRY RunSymmetry
INVARIANTS
  NeverUnauthorized
PROPERTIES
  ImplementsRemoteCall
CHECK_DEADLOCK FALSE
