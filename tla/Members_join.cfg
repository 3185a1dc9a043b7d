\* A peer starts and enters a room while an established one enters it and leaves.
SPECIFICATION Spec
CONSTANTS
  Peer = {5000, 5001, 5002}
  Established = {5000, 5001}
  Room = {"a"}
  User = {"ann", "bob", "cho"}
  Calls <- OwnName
  Contacts <- Base
  MaxJoins <- OneRoomEach
  Leavers = {5001}
CHECK_DEADLOCK FALSE
INVARIANTS TypeOK MembersAgree
PROPERTY StayersKept
