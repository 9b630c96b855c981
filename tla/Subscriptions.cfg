\* Three users, one with an id too wide for an int.
CONSTANTS
  IntMax = 8
  Updates <- Sent
  MaxUpdates = 3
  Initial <- Present
  Strays = {0, 1}
  MaxWords = 3
SPECIFICATION Spec
INVARIANTS
  TypeOK
  NoDuplicates
  LastWordCounts
  PollsSubscribers
