SPECIFICATION Spec
CONSTANTS
  User = 0
  WorkSlots = {1}
  Apps <- Pickers
  Level <- PickersManifests
  WorkApp = "work"
  Texts = {t}
  MaxRevision = 3
  MaxSessions = 3
  MaxPicks = 1
  MaxFaults = 1
  Host = "host"
  None = none
  NoText = notext
  Null = null
  Error = error
INVARIANTS HandOver
PROPERTIES WorksAreSafe
CHECK_DEADLOCK FALSE
