\* The table of the code; commands, a text and a poll.
CONSTANTS
  Updates <- UserUpdates
  MaxUpdates = 3
  MAX_UPDATE_EVENTS = 20
SPECIFICATION Spec
\* main sleeps for ever, and MaxUpdates ends the users' messages.
CHECK_DEADLOCK FALSE
INVARIANTS
  TypeOK
  Registered
  NoStranger
  EcoFollows
