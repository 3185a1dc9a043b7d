\* Three clients, two with one name; the third may press Ctrl-C at any point.
SPECIFICATION FairSpec
CONSTANTS
  Client = {1, 2, 3}
  Room = {"a", "ab"}
  NoRoom = NoRoom
  User = {"ann", "bob"}
  NameOf <- TwoAnns
  Prefix <- AlsoAb
  Typed <- OneRoom
  Leavers = {1}
  Quitters = {3}
  MaxLines <- OneLine
CHECK_DEADLOCK FALSE
INVARIANTS TypeOK MembersOnce ListIsRight
PROPERTIES ImplementsRoomLog CatchesUp
