\* Three processes start, at any times and together; any time the last may exit, and
\* another may take its port.
SPECIFICATION FairSpec
CONSTANTS
  Port = {0, 1, 2}
  TTL = 1
  MaxStarts <- LastTwice
  MaxScans <- LastTwice
  Contacts <- LastToMiddle
  MaxExits <- Last
CHECK_DEADLOCK FALSE
INVARIANTS TypeOK MeshWhenCalm KnownBack
PROPERTY BootEnds
