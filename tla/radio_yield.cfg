SPECIFICATION FairSpec
CONSTANTS
  PreemptedStop = FALSE
  Others = {}
  MaxAttempts = 1
  MaxFailures = 1
INVARIANTS OnlyHoldersStop AttemptsAccounted AppsFirst
PROPERTIES NoDeinitUnderWait YieldIsHonoured OutcomesCollected
