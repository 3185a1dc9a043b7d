\* A third peer joins while one of the other two pins a room, and one of the three may exit.
SPECIFICATION FairSpec
CONSTANTS
  t1 = t1
  t2 = t2
  t3 = t3
  Peer = {5000, 5001, 5002}
  Starters = {5000, 5001}
  Room = {"a"}
  Tx = {t1}
  RoomOf <- SameRoom
  NoTx = NoTx
  Pinners = {5000}
  MaxExits = 1
CHECK_DEADLOCK FALSE
INVARIANT NoPinLost
PROPERTIES PinsSpread ImplementsCommit
