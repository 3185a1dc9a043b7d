\* d/CS typed by both of two peers that both run: who is kept waiting, and why.
SPECIFICATION Spec
CONSTANTS
  Peer = {5000, 5001}
  Knows <- Mesh
  StartClocks = {0}
  Commands = {"d/CS"}
  FalseSuspicion = FALSE
  MaxRequests <- Once
  MaxExits = 0
  MaxTick = 0
  Talkers = {}
CHECK_DEADLOCK FALSE
INVARIANT JustDeferral
