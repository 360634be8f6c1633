SPECIFICATION FairSpec
CONSTANTS
  NWaiting = 2
  NTimers = 2
  Owners = {a, b}
  Keys = {1}
  OrderMax = 4
  MaxTime = 2
  MaxCalls = 4
INVARIANTS RoomForAll DeadlinesExact FirstComeFirstShown
PROPERTY EveryTimerEnds
