\* A requester exits before the idle voter answers it.
SPECIFICATION Spec
CONSTANTS
  Peer = {5000, 5001}
  Knows <- Mesh
  StartClocks = {0}
  Commands = {"d/CS"}
  FalseSuspicion = FALSE
  MaxRequests <- Once
  MaxExits = 1
  MaxTick = 0
  Talkers = {}
CHECK_DEADLOCK FALSE
INVARIANT NoSelfDeadlock
