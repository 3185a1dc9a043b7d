\* A peer starts while another enters a room and leaves.
SPECIFICATION Spec
CONSTANTS
  Peer = {5000, 5001, 5002}
  Established = {5000, 5001}
  Room = {"a"}
  User = {"ann", "bob", "cho"}
  Calls <- OwnName
  Contacts <- Base
  MaxJoins <- OneRoom
  Leavers = {5001}
CHECK_DEADLOCK FALSE
INVARIANT LeaversRemoved
