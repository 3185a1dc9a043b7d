\* Three transactions of two peers in two rooms; any one of three peers may exit anywhere.
SPECIFICATION Spec
CONSTANTS
  t1 = t1
  t2 = t2
  t3 = t3
  Peer = {5000, 5001, 5002}
  Starters = {5000, 5001, 5002}
  Room = {"a", "b"}
  Tx = {t1, t2, t3}
  RoomOf <- TwoRooms
  NoTx = NoTx
  Pinners = {5000, 5001}
  MaxExits = 1
CHECK_DEADLOCK FALSE
INVARIANTS TypeOK PinInv OneCommitter NoMixedOutcome
PROPERTY ImplementsCommit
