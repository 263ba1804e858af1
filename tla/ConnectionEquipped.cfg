SPECIFICATION Spec
CONSTANTS
  Call = {c1, c2}
  c1 = c1
  c2 = c2
  MaxRetries = 2
  RequestRetries = 1
  MaxClients = 4
  MaxCalls = 4
  MaxFaults = 2
INVARIANTS Equipped
CHECK_DEADLOCK FALSE
