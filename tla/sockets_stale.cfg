SPECIFICATION Spec
CONSTANTS
  Objects = {"a", "b"}
  Clients = {"a"}
  MaxFd = 5
INVARIANTS
  WaitsForClients
CHECK_DEADLOCK FALSE
