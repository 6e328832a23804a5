SPECIFICATION Spec
CONSTANTS
  Nodes = {0, 1, 2, 3}
  Key <- MCKey
  None = None
  MaxHeld = 2
  MaxLost = 1
  MaxActivity = 5
CONSTRAINT Explored
INVARIANTS TypeOK ObjectsLive NothingLeft
PROPERTY ImplementsDirectory
CHECK_DEADLOCK FALSE
