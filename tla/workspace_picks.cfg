SPECIFICATION FairSpec
CONSTANTS
  User = 0
  WorkSlots = {1}
  Apps <- Registered
  Level <- Manifests
  WorkApp = "work"
  Texts = {t}
  MaxRevision = 1
  MaxSessions = 2
  MaxPicks = 2
  MaxFaults = 1
  Host = "host"
  None = none
  NoText = notext
  Null = null
  Error = error
INVARIANTS PickerHasItsPromise
PROPERTIES EveryPickEnds
CHECK_DEADLOCK FALSE
