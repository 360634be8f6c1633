CONSTANTS
  NSlots = 2
  MaxRequests = 2
  MaxSessions = 2
  Statuses <- TwoOutcomes
  OK = "ok"
  Overtake = FALSE
SPECIFICATION FairSpec
INVARIANTS HonestSettle
PROPERTIES LedgerSpec EveryPromiseEnds
