\* Three peers in a line as long as the time to live; the one at the end switches from
\* another room to that of the two who write.
SPECIFICATION FairSpec
CONSTANTS
  Peer = {5000, 5001, 5002}
  Links <- Line
  Joined <- OneSwitches
  InRoom <- OneElsewhere
  TTL = 2
  SeenMax = 3
  Topics = {{"b"}}
  Types <- Typed
  MaxSaid = 2
  MaxTick <- OneTick
CHECK_DEADLOCK FALSE
INVARIANTS TypeOK CausalInv CausalHistory KeptInv KeptOnce FocusHeeded
PROPERTY MessagesArrive
