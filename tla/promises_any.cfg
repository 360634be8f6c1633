CONSTANTS
  NSlots = 2
  MaxRequests = 2
  MaxSessions = 2
  Statuses <- TwoOutcomes
  OK = "ok"
  Overtake = TRUE
SPECIFICATION Spec
INVARIANTS TypeOK RealmSafe NoLostWake OpenCountExact
