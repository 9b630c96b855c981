\* One thread changes the table while another looks handlers up.
CONSTANTS
  Mutators = {m}
  Finders = {f}
  Kinds = {"add", "modify", "remove"}
  Events <- MessageEvents
  Updates <- MessageUpdates
  Handles = {"h1", "h2"}
  MAX_UPDATE_EVENTS = 3
SPECIFICATION FairSpec
PROPERTIES
  TablePromise
  MutexReleased
