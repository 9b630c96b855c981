\* A pthread_create that fails takes a stop back.
CONSTANTS
  Parsers = {p1, p2}
  MaxUpdate = 2
  Limit = 1
  MaxBoots = 1
  Faults = {"create"}
SPECIFICATION Spec
CHECK_DEADLOCK FALSE
PROPERTIES
  StopIsFinal
