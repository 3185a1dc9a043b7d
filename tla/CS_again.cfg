\* Two peers with unequal clocks, of which one asks twice, that mix both commands, send
\* other messages in between and may exit.
SPECIFICATION FairSpec
CONSTANTS
  Peer = {5000, 5001}
  Knows <- Mesh
  StartClocks = {0, 1}
  Commands = {"d/CS", "d/Pin"}
  FalseSuspicion = FALSE
  MaxRequests <- OneTwice
  MaxExits = 1
  MaxTick = 1
  Talkers = {5000, 5001}
CHECK_DEADLOCK FALSE
INVARIANTS TypeOK IInv NoDeadlock
PROPERTIES EntersInOrder PinsServed
