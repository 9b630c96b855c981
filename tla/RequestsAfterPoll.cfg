\* A handler sends a poll (testbot's doEncuesta).
CONSTANTS
  MainCalls = {}
  HandlerCalls = {"getMe", "sendMessage", "sendPoll"}
  MaxChunks = 1
SPECIFICATION Spec
INVARIANTS
  GetIsGet
