SPECIFICATION Spec
CONSTANTS
  Objects = {"a", "b"}
  Clients = {"a"}
  MaxFd = 5
INVARIANTS
  TypeOK
  BeginsWithRequest
  KeepsListening
  HoldsWhatItNames
  NothingLeft
CHECK_DEADLOCK FALSE
