SPECIFICATION Spec
CONSTANTS
  Leases = {1, 2}
  MaxGen = 2
  Song = 2
  RingSlots = 1
  Prompt = TRUE
  Slow = {"decoder"}
INVARIANTS ReadsAreMounted RingsAreHeld EndedPlayedAll
PROPERTIES RemovalIsTold
CHECK_DEADLOCK FALSE
