SPECIFICATION Spec
CONSTANTS
  MaxMessages = 2
  MaxSize = 2
  Room = 2
INVARIANT NothingDropped
CHECK_DEADLOCK FALSE
