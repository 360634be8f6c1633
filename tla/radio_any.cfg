SPECIFICATION Spec
CONSTANTS
  PreemptedStop = TRUE
  Others = {"bg"}
  MaxAttempts = 1
  MaxFailures = 1
INVARIANTS TypeOK NoOrphanLink SntpEndsWithLink
