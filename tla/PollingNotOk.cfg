\* An {"ok": false} answer ends the parser without a message.
CONSTANTS
  Parsers = {p1, p2}
  MaxUpdate = 2
  Limit = 1
  MaxBoots = 1
  Faults = {"notok"}
SPECIFICATION Spec
CHECK_DEADLOCK FALSE
INVARIANTS
  NoOrphanWait
