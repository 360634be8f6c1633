-------------------------- MODULE TimeSync_proofs --------------------------
(***************************************************************************)
(* Theorems about the radio, the time attempt and the UI task, for every   *)
(* set of other holders and every limit of the policy.                     *)
(***************************************************************************)
EXTENDS TimeSync, TLAPS

-----------------------------------------------------------------------------
(* What is true of the radio by the order of the worker's stores: the lock *)
(* is held from a job's notification to its last store, the owner is set   *)
(* as long as the job is a link, and a link is up only under its worker.   *)
LinkInHand ==
  \/ wifi_job = "link"
  \/ wifi \in {"connecting", "up", "leaving", "deinit", "request", "owner"}

RadioShape ==
  /\ running <=> (wifi_job # "none" \/ wifi # "idle")
  /\ wifi_job # "none" => wifi = "idle"
  /\ link_owner # "none" <=> LinkInHand
  /\ link_state = "up" => wifi \in {"up", "leaving"}

(* The attempt has a hold from its acquire to its release, and SNTP's lock *)
(* while it waits.                                                         *)
Holding == {"owner", "state", "sntpStart", "sntpWait", "slice", "lostOwner",
            "lostState", "sntpStop", "release"}

AttemptShape ==
  /\ sntp_lock <=> sync = "slice"
  /\ holds["time"] = IF sync \in Holding THEN 1 ELSE 0

(* The policy counts no failure past its limit: whoever runs has not given *)
(* up, and whoever has not given up has a failure to go.                   *)
PolicyShape ==
  /\ ~policy.gave_up => policy.failures < MaxFailures
  /\ policy.running => ~policy.gave_up
  /\ polled => screen = "home" /\ goal = "none"

TimeInv ==
  TypeOK /\ RadioShape /\ AttemptShape /\ PolicyShape /\ AttemptsAccounted

-----------------------------------------------------------------------------
Callers == Holders \cup {"app"}

(* What a step can do to the radio.                                        *)
RadioMove ==
  \/ UNCHANGED radioVars
  \/ \E o \in LinkOwners : LinkStart(o)
  \/ \E o \in LinkOwners, caller \in Callers : LinkStop(o, caller)
  \/ \E caller \in Callers : LinkStopStore(caller)
  \/ \E started \in BOOLEAN : SntpStart(started)
  \/ SntpWaitBegin \/ SntpWaitEnd \/ SntpStop
  \/ ScanStart \/ Worker \/ LinkLost

LEMMA NextMovesRadio == [Next]_vars => RadioMove
<1> SUFFICES ASSUME [Next]_vars PROVE RadioMove
  OBVIOUS
<1> USE DEF RadioMove, Callers, Holders, LinkOwners
<1>1. CASE RadioWorker \/ ApLost
  BY <1>1 DEF RadioWorker, ApLost
<1>2. ASSUME NEW h \in Holders, AcquireOK(h)
      PROVE  RadioMove
  BY <1>2 DEF AcquireOK
<1>3. ASSUME NEW h \in Holders, Release(h)
      PROVE  RadioMove
  BY <1>3 DEF Release
<1>4. CASE Attempt
  <2>1. CASE AttemptAcquires
    BY <2>1, <1>2 DEF AttemptAcquires, AcquireBusy
  <2>2. CASE AttemptReleases
    BY <2>2, <1>3 DEF AttemptReleases
  <2>3. CASE AttemptSntpStart \/ AttemptWaits \/ SliceEnds \/ AttemptSntpStop
    BY <2>3 DEF AttemptSntpStart, AttemptWaits, SliceEnds, AttemptSntpStop
  <2>4. CASE \/ SyncTake \/ LooksAtOwner \/ ConnectWait \/ AfterSlice
             \/ RadioIsDown \/ PostOutcome \/ ClearActive
    BY <2>4 DEF SyncTake, LooksAtOwner, ConnectWait, AfterSlice, RadioIsDown,
                PostOutcome, ClearActive
  <2> QED
    BY <1>4, <2>1, <2>2, <2>3, <2>4 DEF Attempt
<1>5. CASE Deadline
  BY <1>5 DEF Deadline, ConnectTimeout, SntpTimeout, DownTimeout
<1>6. CASE Ui
  <2>1. CASE \/ PollCollects \/ PollStarts \/ PollWaits \/ SetEnabled
             \/ Yield("wifi") \/ Yield("app") \/ YieldReturns \/ YieldTimeout
             \/ SyncNow \/ GoHome
    BY <2>1 DEF PollCollects, PollStarts, PollWaits, SetEnabled, Yield,
                YieldReturns, YieldTimeout, SyncNow, GoHome
  <2>2. CASE Scan \/ AppLink \/ AppStop \/ AppStopStores
    BY <2>2 DEF Scan, AppLink, AppStop, AppStopStores
  <2> QED
    BY <1>6, <2>1, <2>2 DEF Ui
<1>7. CASE \E h \in Others :
             OtherAcquires(h) \/ OtherReleases(h) \/ OtherStops(h)
  BY <1>7, <1>2, <1>3 DEF OtherAcquires, OtherReleases, OtherStops
<1>8. CASE UNCHANGED vars
  BY <1>8 DEF vars
<1> QED
  BY <1>1, <1>4, <1>5, <1>6, <1>7, <1>8 DEF Next

LEMMA RadioTypes ==
  ASSUME RadioTypeOK(Callers), RadioMove
  PROVE  RadioTypeOK(Callers)'
<1> USE DEF RadioTypeOK, LinkOwners, LinkStates, WorkerSteps, radioVars,
            linkVars, jobVars, sntpVars
<1>1. CASE UNCHANGED radioVars
  BY <1>1
<1>2. ASSUME NEW o \in LinkOwners, LinkStart(o)
      PROVE  RadioTypeOK(Callers)'
  BY <1>2 DEF LinkStart
<1>3. ASSUME NEW o \in LinkOwners, NEW caller \in Callers, LinkStop(o, caller)
      PROVE  RadioTypeOK(Callers)'
  BY <1>3 DEF LinkStop
<1>4. ASSUME NEW caller \in Callers, LinkStopStore(caller)
      PROVE  RadioTypeOK(Callers)'
  BY <1>4 DEF LinkStopStore
<1>5. ASSUME NEW started \in BOOLEAN, SntpStart(started)
      PROVE  RadioTypeOK(Callers)'
  BY <1>5 DEF SntpStart
<1>6. CASE SntpWaitBegin \/ SntpWaitEnd
  BY <1>6 DEF SntpWaitBegin, SntpWaitEnd
<1>7. CASE SntpStop
  BY <1>7 DEF SntpStop
<1>8. CASE ScanStart
  BY <1>8 DEF ScanStart
<1>9. CASE LinkLost \/ WorkerTake \/ LinkUp \/ LinkNotUp \/ LinkStopSeen
  BY <1>9 DEF LinkLost, WorkerTake, LinkUp, LinkNotUp, LinkStopSeen
<1>10. CASE \/ LinkLeave \/ TearDown \/ ClearRequest \/ ClearOwner
           \/ ClearRunning \/ ScanDone
  BY <1>10 DEF LinkLeave, TearDown, ClearRequest, ClearOwner, ClearRunning,
              ScanDone
<1> QED
  BY <1>1, <1>2, <1>3, <1>4, <1>5, <1>6, <1>7, <1>8, <1>9,
     <1>10 DEF RadioMove, Worker

LEMMA RadioShapeStep ==
  ASSUME RadioTypeOK(Callers), RadioShape, RadioMove
  PROVE  RadioShape'
<1> USE DEF RadioTypeOK, LinkOwners, LinkStates, WorkerSteps, radioVars,
            linkVars, jobVars, sntpVars, RadioShape, LinkInHand
<1>1. CASE UNCHANGED radioVars
  BY <1>1
<1>2. ASSUME NEW o \in LinkOwners, LinkStart(o)
      PROVE  RadioShape'
  BY <1>2 DEF LinkStart
<1>3. ASSUME NEW o \in LinkOwners, NEW caller \in Callers, LinkStop(o, caller)
      PROVE  RadioShape'
  BY <1>3 DEF LinkStop
<1>4. ASSUME NEW caller \in Callers, LinkStopStore(caller)
      PROVE  RadioShape'
  BY <1>4 DEF LinkStopStore
<1>5. ASSUME NEW started \in BOOLEAN, SntpStart(started)
      PROVE  RadioShape'
  BY <1>5 DEF SntpStart
<1>6. CASE SntpWaitBegin \/ SntpWaitEnd \/ SntpStop \/ ScanStart
  BY <1>6 DEF SntpWaitBegin, SntpWaitEnd, SntpStop, ScanStart
<1>7. CASE LinkLost \/ WorkerTake \/ LinkUp \/ LinkNotUp \/ LinkStopSeen
  BY <1>7 DEF LinkLost, WorkerTake, LinkUp, LinkNotUp, LinkStopSeen
<1>8. CASE \/ LinkLeave \/ TearDown \/ ClearRequest \/ ClearOwner
           \/ ClearRunning \/ ScanDone
  BY <1>8 DEF LinkLeave, TearDown, ClearRequest, ClearOwner, ClearRunning,
              ScanDone
<1> QED
  BY <1>1, <1>2, <1>3, <1>4, <1>5, <1>6, <1>7, <1>8 DEF RadioMove, Worker

-----------------------------------------------------------------------------
(* The attempt's and the UI task's variables.                              *)
SyncTypeOK ==
  /\ sync \in SyncSteps
  /\ job \in {"none", "auto", "manual"}
  /\ manual \in BOOLEAN /\ sawOurs \in BOOLEAN
  /\ err \in {"ok", "timeout", "final"}
  /\ out \in Outcomes
  /\ waitedOut \in BOOLEAN
  /\ active \in BOOLEAN
  /\ posted \in Outcomes \cup {"none"}

UiTypeOK ==
  /\ abort_req \in BOOLEAN
  /\ enabled \in BOOLEAN
  /\ screen \in {"home", "wifi", "app"}
  /\ goal \in {"none", "wifi", "app"}
  /\ late \in BOOLEAN /\ polled \in BOOLEAN

PolicyTypeOK ==
  policy \in [attempts : 0 .. MaxAttempts, failures : 0 .. MaxFailures,
              running : BOOLEAN, gave_up : BOOLEAN]

LEMMA TypeParts ==
  TypeOK <=> /\ RadioTypeOK(Callers) /\ SyncTypeOK /\ UiTypeOK /\ PolicyTypeOK
             /\ holds \in [Holders -> 0 .. 1]
BY DEF TypeOK, SyncTypeOK, UiTypeOK, PolicyTypeOK, Callers

LEMMA SyncTypes ==
  ASSUME RadioTypeOK(Callers), SyncTypeOK, [Next]_vars
  PROVE  SyncTypeOK'
<1> USE DEF SyncTypeOK, SyncSteps, Outcomes, Goes, attemptVars, syncVars
<1>1. CASE RadioWorker \/ ApLost
  BY <1>1, NextMovesRadio, RadioTypes
  DEF RadioWorker, ApLost, RadioTypeOK
<1>2. CASE Attempt
  <2>1. CASE SyncTake \/ AttemptAcquires \/ LooksAtOwner
    BY <2>1 DEF SyncTake, AttemptAcquires, LooksAtOwner
  <2>2. CASE ConnectWait \/ AttemptSntpStart \/ AttemptWaits
    BY <2>2 DEF ConnectWait, AttemptSntpStart, AttemptWaits
  <2>3. CASE SliceEnds \/ AfterSlice \/ AttemptSntpStop
    BY <2>3 DEF SliceEnds, AfterSlice, AttemptSntpStop
  <2>4. CASE AttemptReleases \/ RadioIsDown \/ PostOutcome \/ ClearActive
    BY <2>4 DEF AttemptReleases, RadioIsDown, PostOutcome, ClearActive
  <2> QED
    BY <1>2, <2>1, <2>2, <2>3, <2>4 DEF Attempt
<1>3. CASE Deadline
  BY <1>3 DEF Deadline, ConnectTimeout, SntpTimeout, DownTimeout
<1>4. CASE Ui
  <2>1. CASE PollCollects \/ PollStarts \/ SyncNow
    BY <2>1 DEF PollCollects, PollStarts, SyncNow
  <2>2. CASE \/ PollWaits \/ SetEnabled \/ Yield("wifi") \/ Yield("app")
             \/ YieldReturns \/ YieldTimeout \/ Scan \/ AppLink \/ AppStop
             \/ AppStopStores \/ GoHome
    BY <2>2 DEF PollWaits, SetEnabled, Yield, YieldReturns, YieldTimeout,
                Scan, AppLink, AppStop, AppStopStores, GoHome
  <2> QED
    BY <1>4, <2>1, <2>2 DEF Ui
<1>5. CASE \E h \in Others :
             OtherAcquires(h) \/ OtherReleases(h) \/ OtherStops(h)
  BY <1>5 DEF OtherAcquires, OtherReleases, OtherStops
<1>6. CASE UNCHANGED vars
  BY <1>6 DEF vars
<1> QED
  BY <1>1, <1>2, <1>3, <1>4, <1>5, <1>6 DEF Next

LEMMA UiTypes ==
  ASSUME SyncTypeOK, UiTypeOK, [Next]_vars
  PROVE  UiTypeOK'
<1> USE DEF UiTypeOK, uiVars
<1>1. CASE RadioWorker \/ ApLost
  BY <1>1 DEF RadioWorker, ApLost
<1>2. CASE Attempt
  BY <1>2
  DEF Attempt, SyncTake, AttemptAcquires, LooksAtOwner, ConnectWait,
      AttemptSntpStart, AttemptWaits, SliceEnds, AfterSlice, AttemptSntpStop,
      AttemptReleases, RadioIsDown, PostOutcome, ClearActive
<1>3. CASE Deadline
  BY <1>3 DEF Deadline, ConnectTimeout, SntpTimeout, DownTimeout
<1>4. CASE Ui
  <2>1. CASE PollCollects \/ PollStarts \/ PollWaits \/ SyncNow
    BY <2>1 DEF PollCollects, PollStarts, PollWaits, SyncNow
  <2>2. CASE SetEnabled \/ Yield("wifi") \/ Yield("app")
    BY <2>2 DEF SetEnabled, Yield, SyncTypeOK
  <2>3. CASE \/ YieldReturns \/ YieldTimeout \/ Scan \/ AppLink \/ AppStop
             \/ AppStopStores \/ GoHome
    BY <2>3 DEF YieldReturns, YieldTimeout, Scan, AppLink, AppStop,
                AppStopStores, GoHome
  <2> QED
    BY <1>4, <2>1, <2>2, <2>3 DEF Ui
<1>5. CASE \E h \in Others :
             OtherAcquires(h) \/ OtherReleases(h) \/ OtherStops(h)
  BY <1>5 DEF OtherAcquires, OtherReleases, OtherStops
<1>6. CASE UNCHANGED vars
  BY <1>6 DEF vars
<1> QED
  BY <1>1, <1>2, <1>3, <1>4, <1>5, <1>6 DEF Next

-----------------------------------------------------------------------------
(* The bookkeeping of attempts.                                            *)

(* A step that leaves the attempt's place, its kind and its outcome alone. *)
LEMMA AccountsKept ==
  ASSUME AttemptsAccounted,
         UNCHANGED <<active, job, manual, posted>>,
         policy'.running = policy.running,
         (sync' = sync) \/ {sync, sync'} \cap {"idle", "clear"} = {}
  PROVE  AttemptsAccounted'
BY DEF AttemptsAccounted, AutoInFlight

LEMMA AccountsStep ==
  ASSUME SyncTypeOK, PolicyTypeOK, AttemptsAccounted, [Next]_vars
  PROVE  AttemptsAccounted'
<1> USE DEF Goes, attemptVars, syncVars, uiVars
<1>1. CASE RadioWorker \/ ApLost
  BY <1>1, AccountsKept DEF RadioWorker, ApLost
<1>2. CASE Attempt
  <2>1. CASE SyncTake
    BY <2>1 DEF SyncTake, AttemptsAccounted, AutoInFlight, SyncTypeOK
  <2>2. CASE AttemptAcquires \/ LooksAtOwner \/ ConnectWait
    BY <2>2, AccountsKept DEF AttemptAcquires, LooksAtOwner, ConnectWait
  <2>3. CASE AttemptSntpStart \/ AttemptWaits \/ SliceEnds
    BY <2>3, AccountsKept DEF AttemptSntpStart, AttemptWaits, SliceEnds
  <2>4. CASE AfterSlice \/ AttemptSntpStop
    BY <2>4, AccountsKept DEF AfterSlice, AttemptSntpStop
  <2>5. CASE AttemptReleases \/ RadioIsDown
    BY <2>5, AccountsKept DEF AttemptReleases, RadioIsDown
  <2>6. CASE PostOutcome
    BY <2>6 DEF PostOutcome, AttemptsAccounted, AutoInFlight, SyncTypeOK,
                Outcomes
  <2>7. CASE ClearActive
    BY <2>7 DEF ClearActive, AttemptsAccounted, AutoInFlight, SyncTypeOK
  <2> QED
    BY <1>2, <2>1, <2>2, <2>3, <2>4, <2>5, <2>6, <2>7 DEF Attempt
<1>3. CASE Deadline
  BY <1>3, AccountsKept DEF Deadline, ConnectTimeout, SntpTimeout, DownTimeout
<1>4. CASE Ui
  <2>1. CASE PollCollects
    <3>1. posted # "none" => policy'.running = FALSE
      BY <2>1 DEF PollCollects, Recorded, PolicyTypeOK, SyncTypeOK, Outcomes
    <3> QED
      BY <2>1, <3>1 DEF PollCollects, AttemptsAccounted, AutoInFlight
  <2>2. CASE PollStarts
    <3>1. CASE policy.attempts >= MaxAttempts
      BY <2>2, <3>1, AccountsKept DEF PollStarts, PolicyTypeOK
    <3>2. CASE ~(policy.attempts >= MaxAttempts)
      <4>1. policy'.running
        BY <2>2, <3>2 DEF PollStarts, PolicyTypeOK
      <4> QED
        BY <2>2, <3>2, <4>1
        DEF PollStarts, MayStart, AttemptsAccounted, AutoInFlight
    <3> QED
      BY <3>1, <3>2
  <2>3. CASE SetEnabled
    <3>1. policy'.running = policy.running
      BY <2>3 DEF SetEnabled, FreshPolicy
    <3> QED
      BY <2>3, <3>1, AccountsKept DEF SetEnabled
  <2>4. CASE SyncNow
    BY <2>4 DEF SyncNow, AttemptsAccounted, AutoInFlight
  <2>5. CASE PollWaits \/ Yield("wifi") \/ Yield("app") \/ YieldReturns
    BY <2>5, AccountsKept DEF PollWaits, Yield, YieldReturns
  <2>6. CASE \/ YieldTimeout \/ Scan \/ AppLink \/ AppStop \/ AppStopStores
             \/ GoHome
    BY <2>6, AccountsKept
    DEF YieldTimeout, Scan, AppLink, AppStop, AppStopStores, GoHome
  <2> QED
    BY <1>4, <2>1, <2>2, <2>3, <2>4, <2>5, <2>6 DEF Ui
<1>5. CASE \E h \in Others :
             OtherAcquires(h) \/ OtherReleases(h) \/ OtherStops(h)
  BY <1>5, AccountsKept DEF OtherAcquires, OtherReleases, OtherStops
<1>6. CASE UNCHANGED vars
  BY <1>6, AccountsKept DEF vars
<1> QED
  BY <1>1, <1>2, <1>3, <1>4, <1>5, <1>6 DEF Next

(* Only the UI task writes the policy.                                     *)
LEMMA PolicyMoves ==
  ASSUME [Next]_vars
  PROVE  \/ UNCHANGED <<policy, polled, screen, goal>>
         \/ Ui
BY DEF Next, RadioWorker, ApLost, Attempt, SyncTake, AttemptAcquires,
       LooksAtOwner, ConnectWait, AttemptSntpStart, AttemptWaits, SliceEnds,
       AfterSlice, AttemptSntpStop, AttemptReleases, RadioIsDown, PostOutcome,
       ClearActive, Deadline, ConnectTimeout, SntpTimeout, DownTimeout,
       OtherAcquires, OtherReleases, OtherStops, vars, uiVars

(* What an outcome does to the policy.                                     *)
LEMMA RecordedOK ==
  ASSUME NEW outcome \in Outcomes, PolicyTypeOK, PolicyShape, policy.running
  PROVE  /\ Recorded(policy, outcome)
              \in [attempts : 0 .. MaxAttempts, failures : 0 .. MaxFailures,
                   running : BOOLEAN, gave_up : BOOLEAN]
         /\ ~Recorded(policy, outcome).running
         /\ ~Recorded(policy, outcome).gave_up
              => Recorded(policy, outcome).failures < MaxFailures
<1> DEFINE n == policy.attempts
           f == policy.failures
<1>1. /\ MaxAttempts \in Nat /\ MaxFailures \in Nat /\ MaxFailures > 0
      /\ n \in 0 .. MaxAttempts /\ f \in 0 .. MaxFailures
      /\ f < MaxFailures /\ ~policy.gave_up
  BY SyncAssumption DEF PolicyTypeOK, PolicyShape
<1>2. policy = [attempts |-> n, failures |-> f, running |-> TRUE,
                gave_up |-> FALSE]
  BY <1>1 DEF PolicyTypeOK
<1> HIDE DEF n, f
<1>3. CASE outcome = "ok"
  <2>1. Recorded(policy, outcome)
          = [attempts |-> n, failures |-> 0, running |-> FALSE,
             gave_up |-> FALSE]
    BY <1>2, <1>3 DEF Recorded
  <2> QED
    BY <1>1, <2>1
<1>4. CASE outcome = "failed"
  <2> DEFINE over == policy.gave_up \/ policy.failures + 1 >= MaxFailures
  <2>1. Recorded(policy, outcome)
          = [[[policy EXCEPT !.running = FALSE] EXCEPT !.failures = @ + 1]
               EXCEPT !.gave_up = over]
    BY <1>2, <1>4 DEF Recorded
  <2>2. over \in BOOLEAN /\ (~over => f + 1 < MaxFailures)
    BY <1>1 DEF f
  <2> HIDE DEF over
  <2>3. Recorded(policy, outcome)
          = [attempts |-> n, failures |-> f + 1, running |-> FALSE,
             gave_up |-> over]
    BY <1>2, <2>1
  <2> QED
    BY <1>1, <2>2, <2>3
<1>5. CASE outcome = "aborted"
  <2>1. Recorded(policy, outcome)
          = [attempts |-> IF n = 0 THEN 0 ELSE n - 1, failures |-> f,
             running |-> FALSE, gave_up |-> FALSE]
    BY <1>2, <1>5 DEF Recorded
  <2> QED
    BY <1>1, <2>1
<1>6. CASE outcome = "busy"
  <2>1. Recorded(policy, outcome)
          = [attempts |-> n, failures |-> f, running |-> FALSE,
             gave_up |-> FALSE]
    BY <1>2, <1>6 DEF Recorded
  <2> QED
    BY <1>1, <2>1
<1> QED
  BY <1>3, <1>4, <1>5, <1>6 DEF Outcomes

LEMMA PolicyStep ==
  ASSUME SyncTypeOK, PolicyTypeOK, PolicyShape, AttemptsAccounted, [Next]_vars
  PROVE  PolicyTypeOK' /\ PolicyShape'
<1>1. CASE UNCHANGED <<policy, polled, screen, goal>>
  BY <1>1 DEF PolicyTypeOK, PolicyShape
<1>2. CASE PollCollects
  <2>1. CASE posted = "none"
    BY <1>2, <2>1 DEF PollCollects, uiIdle, PolicyTypeOK, PolicyShape
  <2>2. CASE posted # "none"
    <3>1. policy.running /\ posted \in Outcomes
      BY <2>2 DEF AttemptsAccounted, SyncTypeOK
    <3>2. /\ policy' = Recorded(policy, posted)
          /\ polled' => screen' = "home" /\ goal' = "none"
      BY <1>2, <2>2 DEF PollCollects, uiIdle
    <3> QED
      BY <3>1, <3>2, RecordedOK DEF PolicyTypeOK, PolicyShape
  <2> QED
    BY <2>1, <2>2
<1>3. CASE PollStarts
  <2>1. ~polled' /\ ~policy.gave_up /\ policy.failures < MaxFailures
    BY <1>3 DEF PollStarts, MayStart, PolicyShape
  <2>2. CASE policy.attempts >= MaxAttempts
    <3>1. policy' = [policy EXCEPT !.gave_up = TRUE] /\ ~policy.running
      BY <1>3, <2>2 DEF PollStarts, MayStart
    <3> QED
      BY <2>1, <3>1 DEF PolicyTypeOK, PolicyShape
  <2>3. CASE ~(policy.attempts >= MaxAttempts)
    <3>1. policy' = [[policy EXCEPT !.attempts = policy.attempts + 1]
                       EXCEPT !.running = TRUE]
      BY <1>3, <2>3 DEF PollStarts
    <3>2. policy.attempts + 1 \in 0 .. MaxAttempts
      BY <2>3, SyncAssumption DEF PolicyTypeOK
    <3> QED
      BY <2>1, <3>1, <3>2 DEF PolicyTypeOK, PolicyShape
  <2> QED
    BY <2>2, <2>3
<1>4. CASE SetEnabled
  <2>1. polled' => screen' = "home" /\ goal' = "none"
    BY <1>4 DEF SetEnabled, uiIdle
  <2>2. CASE policy' = policy
    BY <2>1, <2>2 DEF PolicyTypeOK, PolicyShape
  <2>3. CASE policy' = [FreshPolicy EXCEPT !.running = policy.running]
    <3>1. policy' = [attempts |-> 0, failures |-> 0,
                     running |-> policy.running, gave_up |-> FALSE]
      BY <2>3 DEF FreshPolicy
    <3>2. /\ policy.running \in BOOLEAN
          /\ MaxAttempts \in Nat /\ MaxFailures \in Nat /\ MaxFailures > 0
      BY SyncAssumption DEF PolicyTypeOK
    <3> QED
      BY <2>1, <3>1, <3>2 DEF PolicyTypeOK, PolicyShape
  <2> QED
    BY <1>4, <2>2, <2>3 DEF SetEnabled
<1>5. CASE \/ PollWaits \/ SyncNow \/ Scan \/ AppLink \/ AppStop
           \/ AppStopStores
  BY <1>5 DEF PollWaits, SyncNow, Scan, AppLink, AppStop, AppStopStores,
              uiVars, PolicyTypeOK, PolicyShape
<1>6. CASE \/ Yield("wifi") \/ Yield("app") \/ YieldReturns \/ YieldTimeout
           \/ GoHome
  BY <1>6 DEF Yield, YieldReturns, YieldTimeout, GoHome, uiIdle, PolicyTypeOK,
              PolicyShape
<1> QED
  BY <1>1, <1>2, <1>3, <1>4, <1>5, <1>6, PolicyMoves DEF Ui

-----------------------------------------------------------------------------
(* The attempt's hold and its lock.                                        *)
LEMMA HoldsStep ==
  ASSUME SyncTypeOK, RadioTypeOK(Callers), holds \in [Holders -> 0 .. 1],
         AttemptShape, [Next]_vars
  PROVE  holds' \in [Holders -> 0 .. 1] /\ AttemptShape'
<1> USE DEF Goes, attemptVars, syncVars, uiVars, AttemptShape, Holding,
            radioVars, linkVars, jobVars, sntpVars
<1>1. CASE RadioWorker \/ ApLost
  <2>1. UNCHANGED <<holds, sync, sntp_lock>>
    BY <1>1 DEF RadioWorker, ApLost, Worker, WorkerTake, LinkUp, LinkNotUp,
                LinkStopSeen, LinkLeave, TearDown, ClearRequest, ClearOwner,
                ClearRunning, ScanDone, LinkLost
  <2> QED
    BY <2>1
<1>2. CASE Attempt
  <2>1. CASE SyncTake \/ LooksAtOwner \/ ConnectWait \/ AfterSlice
    BY <2>1 DEF SyncTake, LooksAtOwner, ConnectWait, AfterSlice
  <2>2. CASE AttemptAcquires
    <3>1. CASE AcquireOK("time") /\ Goes("acquire", "owner")
      BY <3>1 DEF AcquireOK, LinkStart, Holders
    <3>2. CASE AcquireBusy /\ Goes("acquire", "post")
      BY <3>2 DEF AcquireBusy
    <3> QED
      BY <2>2, <3>1, <3>2 DEF AttemptAcquires
  <2>3. CASE AttemptSntpStart
    BY <2>3 DEF AttemptSntpStart, SntpStart
  <2>4. CASE AttemptWaits \/ SliceEnds
    BY <2>4 DEF AttemptWaits, SntpWaitBegin, SliceEnds, SntpWaitEnd
  <2>5. CASE AttemptSntpStop
    BY <2>5 DEF AttemptSntpStop, SntpStop
  <2>6. CASE AttemptReleases
    <3>1. CASE /\ Release("time")
               /\ Goes("release", IF "time" \in stopping' THEN "releasing"
                                  ELSE "down")
      BY <3>1 DEF Release, LinkStop, Holders
    <3>2. CASE LinkStopStore("time") /\ Goes("releasing", "down")
               /\ UNCHANGED holds
      BY <3>2 DEF LinkStopStore
    <3> QED
      BY <2>6, <3>1, <3>2 DEF AttemptReleases
  <2>7. CASE RadioIsDown \/ PostOutcome \/ ClearActive
    BY <2>7 DEF RadioIsDown, PostOutcome, ClearActive
  <2> QED
    BY <1>2, <2>1, <2>2, <2>3, <2>4, <2>5, <2>6, <2>7 DEF Attempt
<1>3. CASE Deadline
  BY <1>3 DEF Deadline, ConnectTimeout, SntpTimeout, DownTimeout
<1>4. CASE Ui
  <2>1. UNCHANGED <<holds, sync, sntp_lock>>
    BY <1>4 DEF Ui, PollCollects, PollStarts, PollWaits, SetEnabled, Yield,
                YieldReturns, YieldTimeout, SyncNow, Scan, ScanStart, AppLink,
                LinkStart, AppStop, LinkStop, AppStopStores, LinkStopStore,
                GoHome
  <2> QED
    BY <2>1
<1>5. ASSUME NEW h \in Others,
             OtherAcquires(h) \/ OtherReleases(h) \/ OtherStops(h)
      PROVE  holds' \in [Holders -> 0 .. 1] /\ AttemptShape'
  <2>1. h # "time" /\ h \in Holders
    BY SyncAssumption DEF Holders
  <2>2. CASE OtherAcquires(h)
    BY <2>1, <2>2 DEF OtherAcquires, AcquireOK, LinkStart, Holders
  <2>3. CASE OtherReleases(h)
    BY <2>1, <2>3 DEF OtherReleases, Release, LinkStop, Holders
  <2>4. CASE OtherStops(h)
    BY <2>4 DEF OtherStops, LinkStopStore
  <2> QED
    BY <1>5, <2>2, <2>3, <2>4
<1>6. CASE UNCHANGED vars
  BY <1>6 DEF vars
<1> QED
  BY <1>1, <1>2, <1>3, <1>4, <1>5, <1>6 DEF Next

-----------------------------------------------------------------------------
(* The invariant.                                                          *)
LEMMA TimeStep == TimeInv /\ [Next]_vars => TimeInv'
<1> SUFFICES ASSUME TimeInv, [Next]_vars PROVE TimeInv'
  OBVIOUS
<1>1. /\ RadioTypeOK(Callers) /\ SyncTypeOK /\ UiTypeOK /\ PolicyTypeOK
      /\ holds \in [Holders -> 0 .. 1]
      /\ RadioShape /\ AttemptShape /\ PolicyShape /\ AttemptsAccounted
  BY TypeParts DEF TimeInv
<1>2. RadioTypeOK(Callers)' /\ RadioShape'
  BY <1>1, NextMovesRadio, RadioTypes, RadioShapeStep
<1>3. SyncTypeOK' /\ UiTypeOK'
  BY <1>1, SyncTypes, UiTypes
<1>4. AttemptsAccounted'
  BY <1>1, AccountsStep
<1>5. PolicyTypeOK' /\ PolicyShape'
  BY <1>1, PolicyStep
<1>6. (holds \in [Holders -> 0 .. 1])' /\ AttemptShape'
  BY <1>1, HoldsStep
<1>7. TypeOK'
  BY <1>2, <1>3, <1>5, <1>6
  DEF TypeOK, SyncTypeOK, UiTypeOK, PolicyTypeOK, Callers
<1> QED
  BY <1>2, <1>4, <1>5, <1>6, <1>7 DEF TimeInv

LEMMA TimeInit == Init => TimeInv
<1> SUFFICES ASSUME Init PROVE TimeInv
  OBVIOUS
<1>1. RadioTypeOK(Callers)
  BY DEF Init, RadioInit, RadioTypeOK, LinkOwners, LinkStates, WorkerSteps
<1>2. SyncTypeOK /\ UiTypeOK
  BY DEF Init, SyncTypeOK, UiTypeOK, SyncSteps, Outcomes
<1>3. /\ MaxAttempts \in Nat /\ MaxFailures \in Nat /\ MaxFailures > 0
  BY SyncAssumption
<1>4. PolicyTypeOK /\ PolicyShape
  BY <1>3 DEF Init, PolicyTypeOK, PolicyShape, FreshPolicy
<1>5. holds \in [Holders -> 0 .. 1]
  BY DEF Init
<1>6. RadioShape
  BY DEF Init, RadioInit, RadioShape, LinkInHand
<1>7. AttemptShape
  BY DEF Init, RadioInit, AttemptShape, Holding, Holders
<1>8. AttemptsAccounted
  BY DEF Init, AttemptsAccounted, AutoInFlight, FreshPolicy
<1> QED
  BY <1>1, <1>2, <1>4, <1>5, <1>6, <1>7, <1>8, TypeParts DEF TimeInv

LEMMA TimeAlways == Spec => []TimeInv
<1> QED
  BY TimeInit, TimeStep, PTL DEF Spec

(* Every variable of the radio, of the attempt and of the UI task has a    *)
(* value of its kind: the policy's two counters, which nothing but the     *)
(* pairing of attempts and outcomes bounds, never pass their limits.       *)
THEOREM TimeTypes == Spec => []TypeOK
<1>1. TimeInv => TypeOK
  BY DEF TimeInv
<1> QED
  BY <1>1, TimeAlways, PTL

(* net_autosync.c: two attempts never overlap, and while the policy says   *)
(* one is running exactly one outcome is due or posted, whatever the       *)
(* setting, the screens and the deadlines do in between.                   *)
THEOREM AttemptsTheorem == Spec => []AttemptsAccounted
<1>1. TimeInv => AttemptsAccounted
  BY DEF TimeInv
<1> QED
  BY <1>1, TimeAlways, PTL

-----------------------------------------------------------------------------
(* SNTP and its lock.                                                      *)

(* What the attempt must be doing while SNTP runs.                         *)
SntpSteps == {"sntpWait", "slice", "lostOwner", "lostState", "sntpStop"}

(* SNTP comes from the attempt alone and goes by the attempt or by the     *)
(* worker's teardown; while it runs, the attempt does not leave the steps  *)
(* from the start to the stop.                                             *)
LEMMA SntpMoves ==
  ASSUME TimeInv, [Next]_vars
  PROVE  \/ sntp' = FALSE
         \/ /\ sntp' = sntp
            /\ sntp /\ sync \in SntpSteps => sync' \in SntpSteps
         \/ /\ sync' = "sntpWait" /\ sntp' /\ link_state = "up"
            /\ UNCHANGED <<link_state, wifi>>
<1> USE DEF Goes, attemptVars, syncVars, uiVars, SntpSteps, radioVars,
            linkVars, jobVars, sntpVars
<1>1. CASE RadioWorker \/ ApLost
  BY <1>1 DEF RadioWorker, ApLost, Worker, WorkerTake, LinkUp, LinkNotUp,
              LinkStopSeen, LinkLeave, TearDown, ClearRequest, ClearOwner,
              ClearRunning, ScanDone, LinkLost
<1>2. CASE Attempt
  <2>1. CASE SyncTake \/ LooksAtOwner \/ ConnectWait \/ AfterSlice
    BY <2>1 DEF SyncTake, LooksAtOwner, ConnectWait, AfterSlice
  <2>2. CASE AttemptAcquires
    BY <2>2 DEF AttemptAcquires, AcquireOK, AcquireBusy, LinkStart
  <2>3. CASE AttemptSntpStart
    <3>1. CASE SntpStart(TRUE) /\ Goes("sntpStart", "sntpWait")
      BY <3>1 DEF SntpStart
    <3>2. CASE SntpStart(FALSE) /\ Goes("sntpStart", "release")
      BY <3>2 DEF SntpStart, TimeInv, TypeOK, RadioTypeOK
    <3> QED
      BY <2>3, <3>1, <3>2 DEF AttemptSntpStart
  <2>4. CASE AttemptWaits \/ SliceEnds
    BY <2>4 DEF AttemptWaits, SntpWaitBegin, SliceEnds, SntpWaitEnd
  <2>5. CASE AttemptSntpStop
    BY <2>5 DEF AttemptSntpStop, SntpStop
  <2>6. CASE AttemptReleases
    BY <2>6 DEF AttemptReleases, Release, LinkStop, LinkStopStore
  <2>7. CASE RadioIsDown \/ PostOutcome \/ ClearActive
    BY <2>7 DEF RadioIsDown, PostOutcome, ClearActive
  <2> QED
    BY <1>2, <2>1, <2>2, <2>3, <2>4, <2>5, <2>6, <2>7 DEF Attempt
<1>3. CASE Deadline
  BY <1>3 DEF Deadline, ConnectTimeout, SntpTimeout, DownTimeout
<1>4. CASE Ui
  BY <1>4 DEF Ui, PollCollects, PollStarts, PollWaits, SetEnabled, Yield,
              YieldReturns, YieldTimeout, SyncNow, Scan, ScanStart, AppLink,
              LinkStart, AppStop, LinkStop, AppStopStores, LinkStopStore,
              GoHome
<1>5. CASE \E h \in Others :
             OtherAcquires(h) \/ OtherReleases(h) \/ OtherStops(h)
  BY <1>5 DEF OtherAcquires, AcquireOK, LinkStart, OtherReleases, Release,
              LinkStop, OtherStops, LinkStopStore
<1>6. CASE UNCHANGED vars
  BY <1>6 DEF vars
<1> QED
  BY <1>1, <1>2, <1>3, <1>4, <1>5, <1>6 DEF Next

(* A link that is up goes through the worker's leave and deinit, and the   *)
(* deinit ends SNTP.                                                       *)
SntpHasLink == link_state = "up" \/ wifi \in {"leaving", "deinit"}

LEMMA LinkOutlivesSntp ==
  ASSUME RadioTypeOK(Callers), RadioShape, RadioMove, SntpHasLink
  PROVE  SntpHasLink' \/ sntp' = FALSE
<1> USE DEF RadioTypeOK, LinkOwners, LinkStates, WorkerSteps, radioVars,
            linkVars, jobVars, sntpVars, RadioShape, LinkInHand, SntpHasLink
<1>1. CASE UNCHANGED radioVars
  BY <1>1
<1>2. ASSUME NEW o \in LinkOwners, LinkStart(o)
      PROVE  SntpHasLink' \/ sntp' = FALSE
  BY <1>2 DEF LinkStart
<1>3. ASSUME NEW o \in LinkOwners, NEW caller \in Callers, LinkStop(o, caller)
      PROVE  SntpHasLink' \/ sntp' = FALSE
  BY <1>3 DEF LinkStop
<1>4. ASSUME NEW caller \in Callers, LinkStopStore(caller)
      PROVE  SntpHasLink' \/ sntp' = FALSE
  BY <1>4 DEF LinkStopStore
<1>5. ASSUME NEW started \in BOOLEAN, SntpStart(started)
      PROVE  SntpHasLink' \/ sntp' = FALSE
  BY <1>5 DEF SntpStart
<1>6. CASE SntpWaitBegin \/ SntpWaitEnd \/ SntpStop \/ ScanStart
  BY <1>6 DEF SntpWaitBegin, SntpWaitEnd, SntpStop, ScanStart
<1>7. CASE LinkLost \/ WorkerTake \/ LinkUp \/ LinkNotUp \/ LinkStopSeen
  BY <1>7 DEF LinkLost, WorkerTake, LinkUp, LinkNotUp, LinkStopSeen
<1>8. CASE \/ LinkLeave \/ TearDown \/ ClearRequest \/ ClearOwner
           \/ ClearRunning \/ ScanDone
  BY <1>8 DEF LinkLeave, TearDown, ClearRequest, ClearOwner, ClearRunning,
              ScanDone
<1> QED
  BY <1>1, <1>2, <1>3, <1>4, <1>5, <1>6, <1>7, <1>8 DEF RadioMove, Worker

LEMMA SntpStep == TimeInv /\ SntpEndsWithLink /\ [Next]_vars
                    => SntpEndsWithLink'
<1> SUFFICES ASSUME TimeInv, SntpEndsWithLink, [Next]_vars
             PROVE  SntpEndsWithLink'
  OBVIOUS
<1>1. RadioTypeOK(Callers) /\ RadioShape /\ RadioMove
  BY TypeParts, NextMovesRadio DEF TimeInv
<1>2. SntpEndsWithLink <=> (sntp => SntpHasLink /\ sync \in SntpSteps)
  BY DEF SntpEndsWithLink, SntpHasLink, SntpSteps
<1>3. SntpEndsWithLink' <=> (sntp' => SntpHasLink' /\ sync' \in SntpSteps)
  BY DEF SntpEndsWithLink, SntpHasLink, SntpSteps
<1>4. CASE sntp' = FALSE
  BY <1>3, <1>4
<1>5. CASE /\ sntp' = sntp
           /\ sntp /\ sync \in SntpSteps => sync' \in SntpSteps
  BY <1>1, <1>2, <1>3, <1>5, LinkOutlivesSntp
<1>6. CASE /\ sync' = "sntpWait" /\ sntp' /\ link_state = "up"
           /\ UNCHANGED <<link_state, wifi>>
  BY <1>3, <1>6 DEF SntpHasLink, SntpSteps
<1> QED
  BY <1>4, <1>5, <1>6, SntpMoves

(* wifi_time.c, on SNTP on a link: whichever of the two ends it, SNTP only *)
(* runs on a link that is up or still to be torn down, and only while the  *)
(* attempt that started it is there to stop it.                            *)
THEOREM SntpTheorem == Spec => []SntpEndsWithLink
<1>1. Init => SntpEndsWithLink
  BY DEF Init, RadioInit, SntpEndsWithLink
<1> QED
  BY <1>1, SntpStep, TimeAlways, PTL DEF Spec

(* wifi_time.c, on sntp_lock: no deinit, the worker's or another one,      *)
(* deletes the semaphore while a task waits on it.                         *)
THEOREM NoDeinitTheorem == Spec => NoDeinitUnderWait
<1>1. TimeInv /\ [Next]_vars
        => [sync = "slice" /\ sync' = "slice" => sntp' = sntp]_vars
  <2> SUFFICES ASSUME TimeInv, [Next]_vars, sync = "slice", sync' = "slice"
               PROVE  sntp' = sntp
    OBVIOUS
  <2>1. sntp_lock
    BY DEF TimeInv, AttemptShape
  <2>2. RadioMove
    BY NextMovesRadio
  <2>3. CASE \E started \in BOOLEAN : SntpStart(started)
    BY <2>1, <2>3 DEF SntpStart
  <2>4. CASE SntpStop
    BY <2>1, <2>4 DEF SntpStop
  <2>5. CASE Worker
    BY <2>1, <2>5 DEF Worker, WorkerTake, LinkUp, LinkNotUp, LinkStopSeen,
         LinkLeave, TearDown, ClearRequest, ClearOwner, ClearRunning,
         ScanDone, sntpVars
  <2>6. CASE \/ UNCHANGED radioVars
             \/ \E o \in LinkOwners : LinkStart(o)
             \/ \E o \in LinkOwners, caller \in Callers : LinkStop(o, caller)
             \/ \E caller \in Callers : LinkStopStore(caller)
             \/ SntpWaitBegin \/ SntpWaitEnd \/ ScanStart \/ LinkLost
    BY <2>6 DEF LinkStart, LinkStop, LinkStopStore, SntpWaitBegin,
                SntpWaitEnd, ScanStart, LinkLost, radioVars, sntpVars
  <2> QED
    BY <2>2, <2>3, <2>4, <2>5, <2>6 DEF RadioMove
<1> QED
  BY <1>1, TimeAlways, PTL DEF Spec, NoDeinitUnderWait

-----------------------------------------------------------------------------
(* Holds and the service's link.                                           *)

(* What a step can do to the holds and to the request to stop.             *)
LEMMA HoldMoves ==
  ASSUME [Next]_vars
  PROVE  \/ \E h \in Holders : AcquireOK(h)
         \/ \E h \in Holders : Release(h)
         \/ /\ UNCHANGED holds
            /\ \/ UNCHANGED radioVars
               \/ LinkStart("app") \/ LinkStop("app", "app")
               \/ \E caller \in Callers : LinkStopStore(caller)
               \/ \E started \in BOOLEAN : SntpStart(started)
               \/ SntpWaitBegin \/ SntpWaitEnd \/ SntpStop
               \/ ScanStart \/ Worker \/ LinkLost
<1> DEFINE Goal == \/ \E h \in Holders : AcquireOK(h)
                   \/ \E h \in Holders : Release(h)
                   \/ /\ UNCHANGED holds
                      /\ \/ UNCHANGED radioVars
                         \/ LinkStart("app") \/ LinkStop("app", "app")
                         \/ \E caller \in Callers : LinkStopStore(caller)
                         \/ \E started \in BOOLEAN : SntpStart(started)
                         \/ SntpWaitBegin \/ SntpWaitEnd \/ SntpStop
                         \/ ScanStart \/ Worker \/ LinkLost
<1> USE DEF attemptVars, syncVars, uiVars
<1>1. CASE RadioWorker \/ ApLost
  BY <1>1 DEF RadioWorker, ApLost
<1>2. CASE Attempt
  <2>1. CASE AttemptAcquires
    BY <2>1 DEF AttemptAcquires, AcquireBusy, Holders
  <2>2. CASE AttemptReleases
    BY <2>2 DEF AttemptReleases, Holders, Callers
  <2>3. CASE AttemptSntpStart \/ AttemptWaits \/ SliceEnds \/ AttemptSntpStop
    BY <2>3 DEF AttemptSntpStart, AttemptWaits, SliceEnds, AttemptSntpStop
  <2>4. CASE \/ SyncTake \/ LooksAtOwner \/ ConnectWait \/ AfterSlice
             \/ RadioIsDown \/ PostOutcome \/ ClearActive
    BY <2>4 DEF SyncTake, LooksAtOwner, ConnectWait, AfterSlice, RadioIsDown,
                PostOutcome, ClearActive
  <2> QED
    BY <1>2, <2>1, <2>2, <2>3, <2>4 DEF Attempt
<1>3. CASE Deadline
  BY <1>3 DEF Deadline, ConnectTimeout, SntpTimeout, DownTimeout
<1>4. CASE Ui
  <2>1. CASE \/ PollCollects \/ PollStarts \/ PollWaits \/ SetEnabled
             \/ Yield("wifi") \/ Yield("app") \/ YieldReturns \/ YieldTimeout
             \/ SyncNow \/ GoHome
    BY <2>1 DEF PollCollects, PollStarts, PollWaits, SetEnabled, Yield,
                YieldReturns, YieldTimeout, SyncNow, GoHome
  <2>2. CASE Scan \/ AppLink \/ AppStop \/ AppStopStores
    BY <2>2 DEF Scan, AppLink, AppStop, AppStopStores, Callers
  <2> QED
    BY <1>4, <2>1, <2>2 DEF Ui
<1>5. CASE \E h \in Others :
             OtherAcquires(h) \/ OtherReleases(h) \/ OtherStops(h)
  BY <1>5 DEF OtherAcquires, OtherReleases, OtherStops, Holders, Callers
<1>6. CASE UNCHANGED vars
  BY <1>6 DEF vars
<1> QED
  BY <1>1, <1>2, <1>3, <1>4, <1>5, <1>6 DEF Next

(* Is somebody still there after a release?                                *)
StillHeld == \E k \in Holders : holds'[k] > 0

LEMMA AcquireHolds ==
  ASSUME holds \in [Holders -> 0 .. 1], NEW h \in Holders, AcquireOK(h)
  PROVE  Held'
<1>1. holds'[h] > 0
  BY DEF AcquireOK
<1> QED
  BY <1>1 DEF Held, Holders

(* A link of the service that nobody holds and nobody is about to give     *)
(* back has been asked back, as long as there is something to ask.         *)
LEMMA OrphanStep == TimeInv /\ NoOrphanLink /\ [Next]_vars => NoOrphanLink'
<1> SUFFICES ASSUME TimeInv, NoOrphanLink, [Next]_vars
             PROVE  NoOrphanLink'
  OBVIOUS
<1>1. /\ RadioTypeOK(Callers) /\ RadioShape
      /\ holds \in [Holders -> 0 .. 1]
  BY TypeParts DEF TimeInv
<1>2. ASSUME NEW h \in Holders, AcquireOK(h)
      PROVE  NoOrphanLink'
  BY <1>1, <1>2, AcquireHolds DEF NoOrphanLink
<1>3. ASSUME NEW h \in Holders, Release(h)
      PROVE  NoOrphanLink'
  <2>1. CASE \E k \in Holders : holds'[k] > 0
    BY <2>1 DEF NoOrphanLink, Held, Holders
  <2>2. CASE ~\E k \in Holders : holds'[k] > 0
    <3>1. LinkStop("service", h)
      BY <1>3, <2>2 DEF Release
    <3>2. CASE link_owner # "service"
      BY <3>1, <3>2 DEF LinkStop, NoOrphanLink
    <3>3. CASE link_owner = "service" /\ PreemptedStop
      <4>1. stopping' \cap Holders # {}
        BY <3>1, <3>3 DEF LinkStop
      <4> QED
        BY <4>1 DEF NoOrphanLink, ServiceFree, Holders
    <3>4. CASE link_owner = "service" /\ ~PreemptedStop
      BY <3>1, <3>4 DEF LinkStop, NoOrphanLink
    <3> QED
      BY <3>2, <3>3, <3>4
  <2> QED
    BY <2>1, <2>2
<1> USE DEF NoOrphanLink, Held, ServiceFree, Holders, linkVars, jobVars,
            sntpVars, radioVars
<1>4. ASSUME UNCHANGED holds,
             \/ UNCHANGED radioVars \/ SntpWaitBegin \/ SntpWaitEnd
             \/ SntpStop \/ \E started \in BOOLEAN : SntpStart(started)
      PROVE  NoOrphanLink'
  BY <1>4 DEF SntpWaitBegin, SntpWaitEnd, SntpStop, SntpStart
<1>5. ASSUME UNCHANGED holds, LinkStart("app")
      PROVE  NoOrphanLink'
  BY <1>5 DEF LinkStart
<1>6. ASSUME UNCHANGED holds, LinkStop("app", "app")
      PROVE  NoOrphanLink'
  BY <1>6, SyncAssumption DEF LinkStop
<1>7. ASSUME UNCHANGED holds, NEW caller \in Callers, LinkStopStore(caller)
      PROVE  NoOrphanLink'
  BY <1>7 DEF LinkStopStore
<1>8. ASSUME UNCHANGED holds, ScanStart
      PROVE  NoOrphanLink'
  BY <1>1, <1>8 DEF ScanStart, RadioShape
<1>9. ASSUME UNCHANGED holds, Worker \/ LinkLost
      PROVE  NoOrphanLink'
  <2>1. CASE LinkLost \/ WorkerTake \/ LinkUp \/ LinkNotUp \/ LinkStopSeen
    BY <1>9, <2>1 DEF LinkLost, WorkerTake, LinkUp, LinkNotUp, LinkStopSeen
  <2>2. CASE \/ LinkLeave \/ TearDown \/ ClearRequest \/ ClearOwner
             \/ ClearRunning \/ ScanDone
    BY <1>1, <1>9, <2>2
    DEF LinkLeave, TearDown, ClearRequest, ClearOwner, ClearRunning, ScanDone,
        RadioShape
  <2> QED
    BY <1>9, <2>1, <2>2 DEF Worker
<1> QED
  BY <1>2, <1>3, <1>4, <1>5, <1>6, <1>7, <1>8, <1>9, HoldMoves

(* net_service.c, on its mutex: no link of the service is left up with     *)
(* nobody holding it and nobody having asked for it back, however many     *)
(* holders there are and wherever a release is preempted in its stop.      *)
THEOREM NoOrphanTheorem == Spec => []NoOrphanLink
<1>1. Init => NoOrphanLink
  BY DEF Init, RadioInit, NoOrphanLink
<1> QED
  BY <1>1, OrphanStep, TimeAlways, PTL DEF Spec

-----------------------------------------------------------------------------
(* Only holders stop.  This takes a stop_for() that is not preempted       *)
(* between its load of the owner and its store: with one the store may hit *)
(* the next owner's link, and the statement is false.                      *)
StopIsWhole == stopping = {}

LEMMA StopIsWholeStep ==
  ASSUME ~PreemptedStop, StopIsWhole, RadioMove
  PROVE  StopIsWhole'
<1> USE DEF StopIsWhole, linkVars, jobVars, sntpVars, radioVars
<1>1. CASE \/ UNCHANGED radioVars \/ SntpWaitBegin \/ SntpWaitEnd \/ SntpStop
           \/ ScanStart \/ LinkLost
           \/ \E started \in BOOLEAN : SntpStart(started)
           \/ \E o \in LinkOwners : LinkStart(o)
  BY <1>1 DEF SntpWaitBegin, SntpWaitEnd, SntpStop, ScanStart, LinkLost,
              SntpStart, LinkStart
<1>2. ASSUME NEW o \in LinkOwners, NEW caller \in Callers, LinkStop(o, caller)
      PROVE  StopIsWhole'
  BY <1>2 DEF LinkStop
<1>3. ASSUME NEW caller \in Callers, LinkStopStore(caller)
      PROVE  StopIsWhole'
  BY <1>3 DEF LinkStopStore
<1>4. CASE Worker
  BY <1>4 DEF Worker, WorkerTake, LinkUp, LinkNotUp, LinkStopSeen, LinkLeave,
              TearDown, ClearRequest, ClearOwner, ClearRunning, ScanDone
<1> QED
  BY <1>1, <1>2, <1>3, <1>4 DEF RadioMove

LEMMA HoldersStep ==
  ASSUME ~PreemptedStop, TimeInv, StopIsWhole, OnlyHoldersStop, [Next]_vars
  PROVE  OnlyHoldersStop'
<1>1. RadioTypeOK(Callers) /\ RadioShape /\ holds \in [Holders -> 0 .. 1]
  BY TypeParts DEF TimeInv
<1>2. ASSUME NEW h \in Holders, AcquireOK(h)
      PROVE  OnlyHoldersStop'
  <2>1. CASE link_owner # "service"
    BY <1>2, <2>1 DEF AcquireOK, LinkStart, OnlyHoldersStop
  <2>2. CASE link_owner = "service"
    BY <1>2, <2>2 DEF AcquireOK, OnlyHoldersStop, radioVars, linkVars
  <2> QED
    BY <2>1, <2>2
<1>3. ASSUME NEW h \in Holders, Release(h)
      PROVE  OnlyHoldersStop'
  <2>1. CASE \E k \in Holders : holds'[k] > 0
    <3>1. UNCHANGED <<link_owner, link_stop_req>>
      BY <1>3, <2>1 DEF Release, radioVars, linkVars
    <3>2. Held
      BY <1>3 DEF Release, Held
    <3> QED
      BY <3>1, <3>2 DEF OnlyHoldersStop
  <2>2. CASE ~\E k \in Holders : holds'[k] > 0
    BY <2>2 DEF OnlyHoldersStop, Held, Holders
  <2> QED
    BY <2>1, <2>2
<1> USE DEF OnlyHoldersStop, Held, Holders, linkVars, jobVars, sntpVars,
            radioVars
<1>4. ASSUME UNCHANGED holds,
             \/ UNCHANGED radioVars \/ SntpWaitBegin \/ SntpWaitEnd
             \/ SntpStop \/ \E started \in BOOLEAN : SntpStart(started)
             \/ ScanStart \/ LinkLost
      PROVE  OnlyHoldersStop'
  BY <1>4 DEF SntpWaitBegin, SntpWaitEnd, SntpStop, SntpStart, ScanStart,
              LinkLost
<1>5. ASSUME UNCHANGED holds, LinkStart("app")
      PROVE  OnlyHoldersStop'
  BY <1>5 DEF LinkStart
<1>6. ASSUME UNCHANGED holds, LinkStop("app", "app")
      PROVE  OnlyHoldersStop'
  BY <1>6 DEF LinkStop
<1>7. ASSUME UNCHANGED holds, NEW caller \in Callers, LinkStopStore(caller)
      PROVE  OnlyHoldersStop'
  BY <1>7 DEF LinkStopStore, StopIsWhole
<1>8. ASSUME UNCHANGED holds, Worker
      PROVE  OnlyHoldersStop'
  BY <1>8 DEF Worker, WorkerTake, LinkUp, LinkNotUp, LinkStopSeen, LinkLeave,
              TearDown, ClearRequest, ClearOwner, ClearRunning, ScanDone
<1> QED
  BY <1>2, <1>3, <1>4, <1>5, <1>6, <1>7, <1>8, HoldMoves

(* wifi_time.c, on wifi_time_link_stop_for(): only the holder can give the *)
(* link back; while somebody holds the service's link nobody has asked for *)
(* it, whatever apps and other holders do.                                 *)
THEOREM HoldersTheorem ==
  ASSUME ~PreemptedStop
  PROVE  Spec => []OnlyHoldersStop
<1>1. Init => StopIsWhole /\ OnlyHoldersStop
  BY DEF Init, RadioInit, StopIsWhole, OnlyHoldersStop
<1>2. TimeInv /\ StopIsWhole /\ OnlyHoldersStop /\ [Next]_vars
        => StopIsWhole' /\ OnlyHoldersStop'
  BY StopIsWholeStep, HoldersStep, NextMovesRadio
<1> QED
  BY <1>1, <1>2, TimeAlways, PTL DEF Spec

-----------------------------------------------------------------------------
(* Apps first.  The clock is the one holder of net_service in the code; a  *)
(* second one that lets its link go would leave it on its way down.        *)

(* A link of the service is held, on its way to be waited for, or one that *)
(* an attempt has stopped waiting for.                                     *)
LinkAccounted ==
  link_owner = "service" =>
    Held \/ waitedOut \/ sync \in {"releasing", "down"}

LEMMA HeldByTime ==
  ASSUME Others = {}
  PROVE  TimeInv => (Held <=> sync \in Holding)
BY TypeParts DEF TimeInv, AttemptShape, Held, Holders

(* How the attempt goes on from its release, and when a wait given up is   *)
(* forgotten.                                                              *)
LEMMA SyncMoves ==
  ASSUME SyncTypeOK, [Next]_vars
  PROVE  /\ waitedOut => waitedOut' \/ ~running'
         /\ \/ sync' = sync
            \/ sync \in Holding
                 /\ sync' \in Holding \cup {"releasing", "down"}
            \/ sync = "releasing" /\ sync' = "down"
            \/ sync = "down" /\ (~running \/ waitedOut')
            \/ sync \notin Holding \cup {"releasing", "down"}
<1> USE DEF Goes, attemptVars, syncVars, uiVars, Holding
<1>1. CASE RadioWorker \/ ApLost
  BY <1>1 DEF RadioWorker, ApLost, SyncTypeOK
<1>2. CASE Attempt
  <2>1. CASE SyncTake \/ LooksAtOwner \/ ConnectWait \/ AfterSlice
    BY <2>1 DEF SyncTake, LooksAtOwner, ConnectWait, AfterSlice
  <2>2. CASE AttemptAcquires
    BY <2>2 DEF AttemptAcquires
  <2>3. CASE AttemptSntpStart
    BY <2>3 DEF AttemptSntpStart
  <2>4. CASE AttemptWaits
    BY <2>4 DEF AttemptWaits
  <2>5. CASE SliceEnds \/ AttemptSntpStop \/ AttemptReleases
    BY <2>5 DEF SliceEnds, AttemptSntpStop, AttemptReleases
  <2>6. CASE RadioIsDown \/ PostOutcome \/ ClearActive
    BY <2>6 DEF RadioIsDown, Busy, PostOutcome, ClearActive
  <2> QED
    BY <1>2, <2>1, <2>2, <2>3, <2>4, <2>5, <2>6 DEF Attempt
<1>3. CASE Deadline
  BY <1>3 DEF Deadline, ConnectTimeout, SntpTimeout, DownTimeout
<1>4. CASE Ui
  BY <1>4 DEF Ui, PollCollects, PollStarts, PollWaits, SetEnabled, Yield,
              YieldReturns, YieldTimeout, SyncNow, Scan, AppLink, AppStop,
              AppStopStores, GoHome
<1>5. CASE \E h \in Others :
             OtherAcquires(h) \/ OtherReleases(h) \/ OtherStops(h)
  BY <1>5 DEF OtherAcquires, OtherReleases, OtherStops
<1>6. CASE UNCHANGED vars
  BY <1>6 DEF vars
<1> QED
  BY <1>1, <1>2, <1>3, <1>4, <1>5, <1>6 DEF Next

(* A link becomes the service's by an acquire.                             *)
LEMMA ServiceLinkIsAcquired ==
  ASSUME [Next]_vars, link_owner # "service", link_owner' = "service"
  PROVE  \E h \in Holders : AcquireOK(h)
<1>1. ASSUME NEW h \in Holders, Release(h)
      PROVE  FALSE
  BY <1>1 DEF Release, LinkStop, radioVars, linkVars
<1>2. CASE \/ UNCHANGED radioVars
           \/ LinkStart("app") \/ LinkStop("app", "app")
           \/ \E caller \in Callers : LinkStopStore(caller)
           \/ \E started \in BOOLEAN : SntpStart(started)
           \/ SntpWaitBegin \/ SntpWaitEnd \/ SntpStop
           \/ ScanStart \/ LinkLost
  BY <1>2 DEF LinkStart, LinkStop, LinkStopStore, SntpStart, SntpWaitBegin,
              SntpWaitEnd, SntpStop, ScanStart, LinkLost, radioVars, linkVars
<1>3. CASE Worker
  BY <1>3 DEF Worker, WorkerTake, LinkUp, LinkNotUp, LinkStopSeen, LinkLeave,
              TearDown, ClearRequest, ClearOwner, ClearRunning, ScanDone,
              linkVars
<1> QED
  BY <1>1, <1>2, <1>3, HoldMoves

LEMMA LinkAccountedStep ==
  ASSUME Others = {}, TimeInv, TimeInv', LinkAccounted, [Next]_vars
  PROVE  LinkAccounted'
<1> SUFFICES ASSUME link_owner' = "service"
             PROVE  Held' \/ waitedOut' \/ sync' \in {"releasing", "down"}
  BY DEF LinkAccounted
<1>1. /\ Held <=> sync \in Holding
      /\ Held' <=> sync' \in Holding
  <2>1. Held <=> sync \in Holding
    BY HeldByTime
  <2>2. (holds \in [Holders -> 0 .. 1])' /\ AttemptShape'
    BY DEF TimeInv, TypeOK
  <2>3. Held' <=> sync' \in Holding
    BY <2>2 DEF AttemptShape, Held, Holders
  <2> QED
    BY <2>1, <2>3
<1>2. holds \in [Holders -> 0 .. 1] /\ SyncTypeOK /\ RadioShape
  BY TypeParts DEF TimeInv
<1>3. running'
  BY DEF TimeInv, RadioShape, LinkInHand
<1>4. CASE link_owner # "service"
  BY <1>2, <1>4, ServiceLinkIsAcquired, AcquireHolds
<1>5. CASE link_owner = "service"
  <2>1. running
    BY <1>2, <1>5 DEF RadioShape, LinkInHand
  <2>2. Held \/ waitedOut \/ sync \in {"releasing", "down"}
    BY <1>5 DEF LinkAccounted
  <2> QED
    BY <1>1, <1>2, <1>3, <2>1, <2>2, SyncMoves DEF Holding
<1> QED
  BY <1>4, <1>5

(* An app that did not have to go ahead finds the attempt over.            *)
AppAlone == screen = "app" /\ ~late => ~active

LEMMA AppAloneStep ==
  ASSUME TimeInv, AppAlone, [Next]_vars
  PROVE  AppAlone'
<1> USE DEF AppAlone, attemptVars, syncVars, uiVars
<1>1. CASE RadioWorker \/ ApLost
  BY <1>1 DEF RadioWorker, ApLost
<1>2. CASE Attempt
  <2>1. CASE SyncTake \/ AttemptAcquires \/ LooksAtOwner \/ ConnectWait
    BY <2>1 DEF SyncTake, AttemptAcquires, LooksAtOwner, ConnectWait
  <2>2. CASE AttemptSntpStart \/ AttemptWaits \/ SliceEnds \/ AfterSlice
    BY <2>2 DEF AttemptSntpStart, AttemptWaits, SliceEnds, AfterSlice
  <2>3. CASE \/ AttemptSntpStop \/ AttemptReleases \/ RadioIsDown
             \/ PostOutcome \/ ClearActive
    BY <2>3 DEF AttemptSntpStop, AttemptReleases, RadioIsDown, PostOutcome,
                ClearActive
  <2> QED
    BY <1>2, <2>1, <2>2, <2>3 DEF Attempt
<1>3. CASE Deadline
  BY <1>3 DEF Deadline, ConnectTimeout, SntpTimeout, DownTimeout
<1>4. CASE Ui
  <2>1. CASE PollStarts
    BY <2>1 DEF PollStarts, TimeInv, PolicyShape
  <2>2. CASE SyncNow
    BY <2>2 DEF SyncNow
  <2>3. CASE Yield("wifi") \/ Yield("app") \/ YieldReturns \/ YieldTimeout
    BY <2>3 DEF Yield, YieldReturns, YieldTimeout
  <2>4. CASE \/ PollCollects \/ PollWaits \/ SetEnabled \/ Scan \/ AppLink
             \/ AppStop \/ AppStopStores \/ GoHome
    BY <2>4 DEF PollCollects, PollWaits, SetEnabled, Scan, AppLink, AppStop,
                AppStopStores, GoHome
  <2> QED
    BY <1>4, <2>1, <2>2, <2>3, <2>4 DEF Ui
<1>5. CASE \E h \in Others :
             OtherAcquires(h) \/ OtherReleases(h) \/ OtherStops(h)
  BY <1>5 DEF OtherAcquires, OtherReleases, OtherStops
<1>6. CASE UNCHANGED vars
  BY <1>6 DEF vars
<1> QED
  BY <1>1, <1>2, <1>3, <1>4, <1>5, <1>6 DEF Next

(* net_autosync.h, APPS FIRST: when the clock is the only holder, as in    *)
(* the code, an app whose yield did not run out meets no attempt, and no   *)
(* radio of the service but one an attempt has stopped waiting for.        *)
THEOREM AppsFirstTheorem ==
  ASSUME Others = {}
  PROVE  Spec => []AppsFirst
<1>1. Init => LinkAccounted /\ AppAlone
  BY DEF Init, RadioInit, LinkAccounted, AppAlone
<1>2. TimeInv /\ TimeInv' /\ LinkAccounted /\ AppAlone /\ [Next]_vars
        => LinkAccounted' /\ AppAlone'
  BY LinkAccountedStep, AppAloneStep
<1>3. TimeInv /\ LinkAccounted /\ AppAlone => AppsFirst
  <2> SUFFICES ASSUME TimeInv, LinkAccounted, AppAlone, screen = "app", ~late
               PROVE  /\ ~active /\ holds["time"] = 0
                      /\ ~Held /\ ~waitedOut => link_owner # "service"
    BY DEF AppsFirst
  <2>1. ~active
    BY DEF AppAlone
  <2>2. sync = "idle"
    BY <2>1 DEF TimeInv, AttemptsAccounted
  <2>3. holds["time"] = 0
    BY <2>2 DEF TimeInv, AttemptShape, Holding
  <2> QED
    BY <2>1, <2>2, <2>3 DEF LinkAccounted
<1> QED
  BY <1>1, <1>2, <1>3, TimeAlways, PTL DEF Spec
=============================================================================
