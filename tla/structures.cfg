SPECIFICATION MCSpec
CONSTANTS
  Byte = {0, 1}
  Size = 4
  MaxCall = 5
  MaxCounter = 13
  MaxRsn = 1
  Nodes = {1, 2, 3, 4, 5, 6, 7, 8, 9, 10, 11}
  Key <- MCKey
  None = None
INVARIANTS TypeOK RecordsAreWhole TreeIsSound
PROPERTIES ImplementsByteQueue
CHECK_DEADLOCK FALSE
