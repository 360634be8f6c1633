CONSTANTS
  MaxPromises = 3
  MaxSessions = 2
  LinkLoss = TRUE
SPECIFICATION FairSpec
INVARIANTS ResponseCanBeClosed
PROPERTIES EveryReadEnds EveryRequestEnds EveryAcquireEnds WorkerEnds
CHECK_DEADLOCK FALSE
