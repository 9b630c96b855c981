\* Everybody makes every call.
CONSTANTS
  MainCalls = {"getMe", "sendMessage", "sendPoll"}
  HandlerCalls = {"getMe", "sendMessage", "sendPoll"}
  MaxChunks = 2
SPECIFICATION HSpec
INVARIANTS
  TypeOK
  OwnAnswer
  OwnBody
  GetUnlessPolled
  HandleUnshared
PROPERTIES
  LoanPromise
