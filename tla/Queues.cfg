SPECIFICATION FairQueues
CONSTANTS
  None = None
  Procs = {a, b, c}
  Mortal = {a}
  Retries = 1
  Nobody = Nobody
  Requests = {a, b, c}
  Paths = {x, y, z}
  NoTask = NoTask
  Tasks = {a, b, c}
  Roots = {x, y}
  Operations = {o1, o2, o3, o4}
  Resources = {x, y}
  NoOperation = NoOperation
  SerialOperations = {o1, o2, o3}
  Keys = {x, y}
  MaxEvents = 3
INVARIANT PrefixHandedOver
PROPERTIES
  AdmittedInOrder
  ScanIsOnePass
  EveryoneServed
CHECK_DEADLOCK FALSE
