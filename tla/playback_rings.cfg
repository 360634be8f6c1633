SPECIFICATION Spec
CONSTANTS
  Leases = {1, 2}
  MaxGen = 1
  Song = 1
  RingSlots = 1
  Prompt = FALSE
  Slow = {}
INVARIANTS RingsAreHeld
CHECK_DEADLOCK FALSE
