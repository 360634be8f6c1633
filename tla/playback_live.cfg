SPECIFICATION FairSpec
CONSTANTS
  Leases = {1}
  MaxGen = 1
  Song = 1
  RingSlots = 1
  Prompt = FALSE
  Slow = {"audio", "decoder", "reader"}
PROPERTIES QuarantineDrains RemovalEndsPlayer
CHECK_DEADLOCK FALSE
