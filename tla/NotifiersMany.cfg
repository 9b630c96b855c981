\* Two threads change the table at once.
CONSTANTS
  Mutators = {m1, m2}
  Finders = {f}
  Kinds = {"add", "modify", "remove"}
  Events <- CommandAndPoll
  Updates <- MixedUpdates
  Handles = {"h1"}
  MAX_UPDATE_EVENTS = 3
SPECIFICATION Spec
SYMMETRY Symmetry
\* A process that has crashed takes no step.
CHECK_DEADLOCK FALSE
INVARIANTS
  TypeOK
  MutexHeld
  SlotsCallable
  FindsBestMatch
PROPERTIES
  InsideShortens
