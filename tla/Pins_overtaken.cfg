\* Three peers that know each other pin the same room twice: do the peers agree once everything has arrived?
SPECIFICATION Spec
CONSTANTS
  t1 = t1
  t2 = t2
  t3 = t3
  Peer = {5000, 5001, 5002}
  Starters = {5000, 5001, 5002}
  Room = {"a"}
  Tx = {t1, t2}
  RoomOf <- SameRoom
  NoTx = NoTx
  Pinners = {5000, 5001, 5002}
  MaxExits = 0
CHECK_DEADLOCK FALSE
INVARIANT PinsAgree
