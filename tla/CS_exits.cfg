\* Three peers, any of which may exit at any point; two of them run d/Pin once,
\* the third only votes.
SPECIFICATION Spec
CONSTANTS
  Peer = {5000, 5001, 5002}
  Knows <- Mesh
  StartClocks = {0}
  Commands = {"d/Pin"}
  FalseSuspicion = FALSE
  MaxRequests <- TwoOnce
  MaxExits = 1
  MaxTick = 0
  Talkers = {5000}
CHECK_DEADLOCK FALSE
INVARIANTS MutualExclusion NoVoteLost NoStaleVote
PROPERTY ImplementsMutex
