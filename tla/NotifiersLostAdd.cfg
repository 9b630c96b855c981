\* Two threads register at once.
CONSTANTS
  Mutators = {m1, m2}
  Finders = {f}
  Kinds = {"add"}
  Events <- MessageEvents
  Updates <- MessageUpdates
  Handles = {"h1", "h2"}
  MAX_UPDATE_EVENTS = 4
SPECIFICATION HSpec
INVARIANTS
  AcceptedIsKept
