\* Every fault but the loss of the queue.
CONSTANTS
  Parsers = {p1, p2}
  MaxUpdate = 4
  Limit = 2
  MaxBoots = 3
  Faults = {"http", "notok", "garbage", "create"}
SPECIFICATION Spec
SYMMETRY Symmetry
\* A killed program stays down, and a parser that sends nothing stops the poll.
CHECK_DEADLOCK FALSE
INVARIANTS
  TypeOK
  ConfirmedHandled
  LoanExclusive
PROPERTIES
  DeliveryPromise
  LoanPromise
  WaitShortens
  StopRunsDown
