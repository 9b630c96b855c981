\* Liveness: lost answers, answers that are not JSON and a queue that fails to
\* open, but no error answer (see PollingNotOk) and no failure to create a
\* thread (see PollingStop).
CONSTANTS
  Parsers = {p1, p2}
  MaxUpdate = 2
  Limit = 1
  MaxBoots = 2
  Faults = {"http", "garbage", "queue"}
SPECIFICATION FairSpec
\* A killed program stays down.
CHECK_DEADLOCK FALSE
INVARIANTS
  NoOrphanWait
PROPERTIES
  EveryUpdateHandled
  StopEndsPoll
  WaitReturns
