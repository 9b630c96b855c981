\* Two bots; one of them may get two SIGINTs.  Two lives in all.
CONSTANTS
  Bots = {b1, b2}
  Signalled = {b1}
  MaxSignals = 2
  MaxBoots = 2
SPECIFICATION FairSpec
\* A bot that is down may stay down.
CHECK_DEADLOCK FALSE
INVARIANTS
  TypeOK
  Isolation
  OwnMutex
  CleanShutdown
PROPERTIES
  LoanPromise
  
  SigintEnds
