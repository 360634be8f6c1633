-------------------- MODULE PocketPromises_ledger_proofs --------------------
(***************************************************************************)
(* When no slot changes hands inside a driver's stores, the table          *)
(* implements the ledger of PromiseLedger: a Promise settles at most once, *)
(* after its own work, with the status of that work, and no completion is  *)
(* lost.  Without that condition none of it holds.                         *)
(***************************************************************************)
EXTENDS PocketPromises_proofs

-----------------------------------------------------------------------------
(* What a step does to one driver.                                         *)

WorkEnds(r) == /\ drv[r] = "working"
               /\ drv'[r] \in {"checked", "self", "over"}
               /\ drv'[r] = "checked" => Owns(r)
               /\ drv'[r] = "over" => ~Owns(r)
               /\ outcome'[r] \in Statuses

DriverStep(r) ==
  \/ WorkEnds(r) /\ Claimless
  \/ /\ outcome'[r] = outcome[r]
     /\ \/ drv'[r] = drv[r]
        \/ owner = "opened" /\ r = cur /\ drv'[r] = "working"
        \/ StoreStatus(r) /\ drv'[r] = "stored"
        \/ StoreDone(r) /\ drv'[r] = "published"
        \/ PostWake(r) /\ drv'[r] = "over"

LEMMA DriverSteps ==
  ASSUME TypeOK, CallSlot, Next, NEW r \in Requests
  PROVE  DriverStep(r)
<1>t. /\ drv \in [Requests -> DrvSteps]
      /\ outcome \in [Requests -> Statuses \cup {"none"}]
  BY DEF TypeOK
<1>1. CASE drv' = drv /\ outcome' = outcome
  BY <1>1 DEF DriverStep
<1>2. CASE DriverStart
  <2>1. \/ drv'[r] = drv[r]
        \/ owner = "opened" /\ r = cur /\ drv'[r] = "working"
    BY <1>t, <1>2 DEF DriverStart
  <2>2. outcome'[r] = outcome[r]
    BY <1>2 DEF DriverStart
  <2> QED
    BY <2>1, <2>2 DEF DriverStep
<1>3. ASSUME NEW q \in Requests, NEW d \in {"checked", "self", "over"},
             NEW s \in Statuses, drv[q] = "working",
             drv' = [drv EXCEPT ![q] = d],
             outcome' = [outcome EXCEPT ![q] = s],
             d = "checked" => Owns(q), d = "over" => ~Owns(q), Claimless
      PROVE  DriverStep(r)
  <2>1. CASE r = q
    <3>1. drv'[r] = d /\ outcome'[r] = s
      BY ONLY <1>t, <1>3, <2>1
    <3> QED
      BY <1>3, <2>1, <3>1 DEF DriverStep, WorkEnds
  <2>2. CASE r # q
    <3>1. drv'[r] = drv[r] /\ outcome'[r] = outcome[r]
      BY ONLY <1>t, <1>3, <2>2
    <3> QED
      BY <3>1 DEF DriverStep
  <2> QED
    BY <2>1, <2>2
<1>4. ASSUME PumpStops
      PROVE  DriverStep(r)
  <2> DEFINE q == promises[pumpAt].request
  <2>1. Claimless /\ q \in Requests
    BY <1>4, StopTable DEF Claimless
  <2>2. Owns(q)
    BY <1>4 DEF PumpStops, CallSlot, Owns, TypeOK
  <2> HIDE DEF q
  <2>3. ASSUME NEW s \in Statuses, drv[q] = "working",
               drv' = [drv EXCEPT ![q] = "self"],
               outcome' = [outcome EXCEPT ![q] = s]
        PROVE  DriverStep(r)
    BY <1>3, <2>1, <2>2, <2>3
  <2> QED
    BY <1>1, <1>4, <2>3, StopTable DEF q
<1>5. ASSUME NEW q \in Requests, Posting(q)
      PROVE  DriverStep(r)
  <2>1. outcome' = outcome
    BY <1>5 DEF Posting, StoreStatus, StoreDone, PostWake
  <2>2. CASE r # q
    <3>1. drv'[r] = drv[r]
      BY <1>t, <1>5, <2>2 DEF Posting, StoreStatus, StoreDone, PostWake
    <3> QED
      BY <2>1, <3>1 DEF DriverStep
  <2>3. CASE r = q
    <3>1. \/ StoreStatus(r) /\ drv'[r] = "stored"
          \/ StoreDone(r) /\ drv'[r] = "published"
          \/ PostWake(r) /\ drv'[r] = "over"
      BY <1>t, <1>5, <2>3 DEF Posting, StoreStatus, StoreDone, PostWake
    <3> QED
      BY <2>1, <3>1 DEF DriverStep
  <2> QED
    BY <2>2, <2>3
<1>6. ASSUME NEW q \in Requests, NEW s \in Statuses,
             Finish(q, s) \/ OwnerCompletes(q, s)
      PROVE  DriverStep(r)
  <2>1. Claimless
    BY <1>6 DEF Claimless, Unheard
  <2>2. /\ drv[q] = "working"
        /\ outcome' = [outcome EXCEPT ![q] = s]
        /\ \E d \in {"checked", "self", "over"} :
             /\ drv' = [drv EXCEPT ![q] = d]
             /\ d = "checked" => Owns(q)
             /\ d = "over" => ~Owns(q)
    BY <1>6 DEF Finish, OwnerCompletes
  <2> QED
    BY <1>3, <2>1, <2>2
<1>7. CASE \/ PromiseOpen \/ PromiseAbandon \/ PromiseArm \/ PromiseArmFails
           \/ CancelToken \/ CancelAll \/ BeginPump \/ PumpSettles \/ PumpSkips
           \/ EndTurn \/ Wake \/ SessionEnd \/ SessionStart
           \/ \E i \in Slots : Elapse(i)
  BY <1>1, <1>7
     DEF PromiseOpen, PromiseAbandon, PromiseArm, PromiseArmFails, CancelToken,
         CancelAll, BeginPump, PumpSettles, PumpSkips, EndTurn, Wake,
         SessionEnd, SessionStart, Elapse
<1> QED
  BY <1>2, <1>4, <1>5, <1>6, <1>7 DEF Next, SurfaceCall, Turn, Pump

-----------------------------------------------------------------------------
(* A driver inside its stores still owns its slot, since nobody gives the  *)
(* slot back in the meantime.                                              *)

MidOwns == \A r \in Requests : MidComplete(r) => Owns(r)

LEMMA OwnsStays ==
  ASSUME ~Overtake, TypeOK, Outcomes, CallInProgress, CallSlot, Next,
         NEW r \in Requests, Owns(r), MidComplete(r) \/ Claimless
  PROVE  Owns(r)'
<1>1. /\ SlotOf(r) \in Slots
      /\ Claimed(SlotOf(r))
      /\ promises[SlotOf(r)].request = r
  BY RequestFacts DEF Owns, Claimed
<1>2. CASE Claimless
  BY <1>1, <1>2, ClaimlessTable DEF ClaimsKept, SameClaim, Owns
<1>3. ASSUME NEW i, Keeps({i}), i # SlotOf(r)
      PROVE  Owns(r)'
  BY <1>1, <1>3 DEF Keeps, Same, SameClaim, Owns
<1>4. ASSUME NEW S, MayRelease(S), MidComplete(r)
      PROVE  SlotOf(r) \notin S
  BY <1>1, <1>4 DEF MayRelease
<1>5. CASE PromiseOpen
  BY <1>1, <1>3, <1>5, OpenTable DEF Claims
<1>6. CASE MidComplete(r) /\ (PromiseAbandon \/ PromiseArmFails)
  <2>1. MayRelease({SlotOf(cur)}) /\ Frees(SlotOf(cur))
    BY <1>6, FreeTable DEF PromiseAbandon, PromiseArmFails
  <2> QED
    BY <1>3, <1>4, <1>6, <2>1 DEF Frees
<1>7. CASE MidComplete(r) /\ PumpSettles
  <2>1. MayRelease({pumpAt}) /\ Frees(pumpAt)
    BY <1>7, FreeTable DEF PumpSettles
  <2> QED
    BY <1>3, <1>4, <1>7, <2>1 DEF Frees
<1>8. CASE MidComplete(r) /\ SessionEnd
  BY <1>1, <1>4, <1>8 DEF SessionEnd
<1>9. CASE PromiseArm
  <2>1. Arms(SlotOf(cur))
    BY <1>9, ArmTable
  <2> QED
    BY <1>1, <1>3, <2>1 DEF Arms, Owns
<1> QED
  BY <1>2, <1>5, <1>6, <1>7, <1>8, <1>9, NextCases

LEMMA MidOwnsStep ==
  ASSUME ~Overtake, TypeOK, Outcomes, CallInProgress, CallSlot, MidOwns, Next
  PROVE  MidOwns'
<1> SUFFICES ASSUME NEW r \in Requests, MidComplete(r)'
             PROVE  Owns(r)'
  BY DEF MidOwns
<1>1. DriverStep(r)
  BY DriverSteps
<1>2. \/ MidComplete(r)
      \/ Claimless /\ Owns(r)
  BY <1>1 DEF DriverStep, WorkEnds, MidComplete, StoreStatus
<1> QED
  BY <1>2, OwnsStays DEF MidOwns

(* The work of a request has a status once it has ended, and not before.   *)
WorkKnown ==
  \A r \in Requests : IF drv[r] \in {"none", "working"}
                      THEN outcome[r] = "none" ELSE outcome[r] \in Statuses

LEMMA WorkKnownStep ==
  ASSUME TypeOK, CallSlot, NoEarlyDriver, WorkKnown, Next
  PROVE  WorkKnown'
<1> SUFFICES ASSUME NEW r \in Requests
             PROVE  IF drv'[r] \in {"none", "working"}
                    THEN outcome'[r] = "none" ELSE outcome'[r] \in Statuses
  BY DEF WorkKnown
<1>1. DriverStep(r)
  BY DriverSteps
<1>2. CASE WorkEnds(r)
  BY <1>2 DEF WorkEnds
<1>3. CASE ~WorkEnds(r)
  BY <1>1, <1>3 DEF DriverStep, WorkKnown, NoEarlyDriver, StoreStatus,
                    StoreDone, PostWake
<1> QED
  BY <1>2, <1>3

-----------------------------------------------------------------------------
(* What a slot holds is its own request's: nobody else stores there.       *)

StatusStored ==
  \A r \in Requests : drv[r] = "stored" =>
                        promises[SlotOf(r)].status = outcome[r]

DoneHonest ==
  \A i \in Slots : CompleteSlot(i) =>
                     promises[i].status = outcome[promises[i].request]

(* The ways a claimed slot comes out of a step.                            *)
SlotStep(i) ==
  \/ promises'[i].request = NoRequest
  \/ /\ promises'[i].request = promises[i].request
     /\ promises'[i].done = promises[i].done
     /\ promises'[i].status = promises[i].status
  \/ \E r \in Requests :
       /\ SlotOf(r) = i /\ Owns(r) /\ SameClaim(promises[i], promises'[i])
       /\ \/ /\ drv[r] = "checked" /\ drv'[r] = "stored"
             /\ promises'[i].done = promises[i].done
             /\ promises'[i].status = outcome[r]
          \/ /\ drv[r] = "stored" /\ drv'[r] = "published"
             /\ promises'[i].done = r
             /\ promises'[i].status = promises[i].status
          \/ /\ drv[r] = "working" /\ drv'[r] = "self"
             /\ promises'[i].done = r
             /\ promises'[i].status = outcome'[r]

LEMMA SlotSteps ==
  ASSUME TypeOK, Outcomes, CallInProgress, CallSlot, MidOwns, Next,
         NEW i \in Slots, Claimed(i)
  PROVE  SlotStep(i)
<1>t. /\ drv \in [Requests -> DrvSteps]
      /\ outcome \in [Requests -> Statuses \cup {"none"}]
  BY DEF TypeOK
<1>1. ASSUME NEW S, Keeps(S), i \notin S
      PROVE  SlotStep(i)
  BY <1>1 DEF SlotStep, Keeps, Same, SameClaim
<1>2. CASE PromiseOpen
  BY <1>1, <1>2, OpenTable DEF Claims
<1>3. CASE PromiseAbandon \/ PromiseArmFails \/ PumpSettles
  BY <1>1, <1>3, FreeTable DEF Frees, SlotStep
<1>4. CASE PromiseArm
  BY <1>1, <1>4, ArmTable DEF Arms, SlotStep
<1>5. CASE SessionEnd
  BY <1>5, EndTable DEF SlotStep
<1>6. CASE Unheard
  BY <1>1, <1>6, UnheardTable
<1>7. ASSUME NEW r \in Requests, NEW s \in Statuses, Owns(r),
             Tells(SlotOf(r), r, s), drv[r] = "working",
             drv' = [drv EXCEPT ![r] = "self"],
             outcome' = [outcome EXCEPT ![r] = s]
      PROVE  SlotStep(i)
  <2>1. drv'[r] = "self" /\ outcome'[r] = s
    BY ONLY <1>t, <1>7
  <2> QED
    BY <1>1, <1>7, <2>1 DEF Tells, Told, SlotStep
<1>8. CASE PumpStops
  <2> DEFINE r == promises[pumpAt].request
  <2>1. r \in Requests /\ SlotOf(r) = pumpAt /\ Owns(r)
    BY <1>8, StopTable DEF PumpStops, CallSlot, Owns, TypeOK
  <2> HIDE DEF r
  <2>2. CASE Keeps({})
    BY <1>1, <2>2
  <2>3. ASSUME NEW s \in Statuses, drv[r] = "working", Tells(pumpAt, r, s),
               drv' = [drv EXCEPT ![r] = "self"],
               outcome' = [outcome EXCEPT ![r] = s]
        PROVE  SlotStep(i)
    BY <1>7, <2>1, <2>3
  <2> QED
    BY <1>8, <2>2, <2>3, StopTable DEF r
<1>9. ASSUME NEW r \in Requests, NEW s \in Statuses, OwnerCompletes(r, s)
      PROVE  SlotStep(i)
  <2>1. drv[r] = "working" /\ outcome' = [outcome EXCEPT ![r] = s]
    BY <1>9 DEF OwnerCompletes
  <2>2. CASE Owns(r)
    BY <1>7, <1>9, <2>1, <2>2, CompleteTable
  <2>3. CASE ~Owns(r)
    BY <1>1, <1>9, <2>3, CompleteTable
  <2> QED
    BY <2>2, <2>3
<1>10. ASSUME NEW r \in Requests, StoreStatus(r)
       PROVE  SlotStep(i)
  <2>1. /\ Tells(SlotOf(r), promises[SlotOf(r)].done, outcome[r])
        /\ drv[r] = "checked" /\ drv'[r] = "stored" /\ Owns(r)
    BY <1>10, <1>t, CompleteTable DEF StoreStatus, MidOwns, MidComplete
  <2> QED
    BY <1>1, <2>1 DEF Tells, Told, SlotStep
<1>11. ASSUME NEW r \in Requests, StoreDone(r)
       PROVE  SlotStep(i)
  <2>1. /\ Tells(SlotOf(r), r, promises[SlotOf(r)].status)
        /\ drv[r] = "stored" /\ drv'[r] = "published" /\ Owns(r)
    BY <1>11, <1>t, CompleteTable DEF StoreDone, MidOwns, MidComplete
  <2> QED
    BY <1>1, <2>1 DEF Tells, Told, SlotStep
<1> QED
  BY <1>2, <1>3, <1>4, <1>5, <1>6, <1>8, <1>9, <1>10, <1>11, NextCases
     DEF Claimless, Posting, Unheard

LEMMA StatusStoredStep ==
  ASSUME ~Overtake, TypeOK, Outcomes, CallInProgress, CallSlot, MidOwns,
         StatusStored, Next
  PROVE  StatusStored'
<1> SUFFICES ASSUME NEW r \in Requests, drv'[r] = "stored"
             PROVE  promises'[SlotOf(r)].status = outcome'[r]
  BY DEF StatusStored
<1> DEFINE i == SlotOf(r)
<1>1. MidComplete(r) /\ outcome'[r] = outcome[r]
      /\ (drv[r] = "stored" \/ StoreStatus(r))
  BY DriverSteps DEF DriverStep, WorkEnds, MidComplete, StoreStatus
<1>2. Owns(r) /\ promises'[i].request = r /\ r # NoRequest /\ i \in Slots
  BY <1>1, OwnsStays, RequestFacts DEF MidOwns, Owns
<1>3. CASE StoreStatus(r)
  BY <1>1, <1>3, CompleteTable DEF Tells, Told
<1>4. CASE drv[r] = "stored"
  <2>1. SlotStep(i)
    BY <1>2, SlotSteps DEF Claimed, Owns
  <2>2. \A q \in Requests : Owns(q) /\ SlotOf(q) = i => q = r
    BY <1>2 DEF Owns
  <2>3. promises'[i].status = promises[i].status
    BY <1>2, <1>4, <2>1, <2>2 DEF SlotStep
  <2> QED
    BY <1>1, <1>4, <2>3 DEF StatusStored
<1> QED
  BY <1>1, <1>3, <1>4

(* The post-state of a slot that is complete after a step.                 *)
LEMMA DoneHonestStep ==
  ASSUME TypeOK, Outcomes, CallInProgress, CallSlot, NoEarlyDriver,
         DoneByDriver, MidOwns, StatusStored, DoneHonest, Next
  PROVE  DoneHonest'
<1> SUFFICES ASSUME NEW i \in Slots, CompleteSlot(i)'
             PROVE  promises'[i].status = outcome'[promises'[i].request]
  BY DEF DoneHonest
<1> DEFINE r == promises'[i].request
<1>1. r # NoRequest /\ promises'[i].done = r
  BY DEF CompleteSlot, Claimed
<1>2. CASE Claimed(i)
  <2>1. SlotStep(i)
    BY <1>2, SlotSteps
  <2>2. r = promises[i].request /\ r \in Requests
    BY <1>1, <1>2, <2>1 DEF SlotStep, SameClaim, TypeOK, SlotRecord, Claimed
  <2>a. \A q \in Requests : Owns(q) /\ SlotOf(q) = i => q = r
    BY <2>2 DEF Owns
  <2> HIDE DEF r
  <2>3. CASE promises[i].done = r
    <3>1. Posted(r) /\ promises[i].status = outcome[r]
      BY <1>1, <1>2, <2>2, <2>3 DEF DoneByDriver, DoneHonest, CompleteSlot
    <3>2. outcome'[r] = outcome[r]
      BY <2>2, <3>1, DriverSteps DEF DriverStep, WorkEnds, Posted
    <3>3. promises'[i].status = promises[i].status
      BY <1>1, <2>1, <2>a, <3>1 DEF SlotStep, Posted, r
    <3> QED
      BY <3>1, <3>2, <3>3 DEF r
  <2>4. CASE promises[i].done # r
    <3>1. /\ drv[r] = "stored" \/ promises'[i].status = outcome'[r]
          /\ drv[r] = "stored" => promises'[i].status = promises[i].status
          /\ SlotOf(r) = i
      BY <1>1, <2>1, <2>4, <2>a DEF SlotStep, r
    <3>2. drv[r] = "stored" => outcome'[r] = outcome[r]
      BY <2>2, DriverSteps DEF DriverStep, WorkEnds
    <3> QED
      BY <2>2, <3>1, <3>2 DEF StatusStored, r
  <2> QED
    BY <2>3, <2>4
<1>3. CASE ~Claimed(i)
  <2>1. CASE PromiseOpen
    <3>1. PICK k \in Slots : Claims(k, <<promise_counter, k>>)
      BY <2>1, OpenTable
    <3> QED
      BY <1>1, <1>3, <3>1
         DEF Claims, Keeps, Same, SameClaim, Claimed, CompleteSlot
  <2>2. CASE ~PromiseOpen
    <3>1. promises'[i].request \in {promises[i].request, NoRequest}
      BY <2>2, NextCases, FreeTable, ArmTable, EndTable, ClaimlessTable
         DEF Frees, Arms, Keeps, Same, SameClaim, ClaimsKept
    <3> QED
      BY <1>1, <1>3, <3>1 DEF Claimed
  <2> QED
    BY <2>1, <2>2
<1> QED
  BY <1>2, <1>3

-----------------------------------------------------------------------------
(* What the guest holds: nothing before the Promise is armed, a pending    *)
(* Promise while its slot is.                                              *)

Held ==
  /\ \A r \in Requests : r[1] >= promise_counter => js[r] = "none"
  /\ InCall => js[cur] = "none"
  /\ \A i \in Slots : Armed(i) => js[promises[i].request] = "pending"

(* The steps that hand out or end Promises are three.                      *)
LEMMA SamePromises ==
  ASSUME Next, ~PromiseArm, ~PumpSettles, ~SessionEnd
  PROVE  UNCHANGED <<js, result>>
BY DEF Next, SurfaceCall, Turn, Pump, Posting, PromiseOpen, DriverStart,
       PromiseAbandon, PromiseArmFails, CancelToken, CancelAll, BeginPump,
       PumpStops, PumpSkips, EndTurn, Wake, SessionStart, Elapse, StoreStatus,
       StoreDone, PostWake, Finish, OwnerCompletes

LEMMA SettledPending ==
  ASSUME TypeOK, Held, PumpSettles
  PROVE  LET r == promises[pumpAt].request IN
         /\ r \in Requests /\ js[r] = "pending"
         /\ CompleteSlot(pumpAt) /\ pumpAt \in Slots
BY DEF PumpSettles, Held, Armed, Claimed, CompleteSlot, TypeOK, SlotRecord

LEMMA HeldStep ==
  ASSUME TypeOK, Outcomes, CallInProgress, CallSlot, NoEarlyDriver, Held, Next
  PROVE  Held'
<1>j. js \in [Requests -> JsStates]
  BY DEF TypeOK
<1>r. /\ \A r \in Requests : r[1] \in Nat
      /\ promise_counter \in Nat
  BY PromiseAssumption DEF Requests, TypeOK
<1>1. CASE PromiseOpen
  <2>1. PICK i \in Slots : /\ <<promise_counter, i>> \in Requests
                           /\ cur' = <<promise_counter, i>>
                           /\ Claims(i, <<promise_counter, i>>)
    BY <1>1, OpenTable
  <2>2. js' = js /\ promise_counter' = promise_counter + 1
    BY <1>1 DEF PromiseOpen
  <2>3. \A r \in Requests : r[1] >= promise_counter' => js'[r] = "none"
    BY <1>r, <2>2 DEF Held
  <2>4. js'[cur'] = "none"
    BY <1>r, <2>1, <2>2 DEF Held
  <2>5. \A k \in Slots : Armed(k)' => js'[promises'[k].request] = "pending"
    BY <2>1, <2>2 DEF Held, Armed, Claimed, Claims, Keeps, Same, SameClaim
  <2> QED
    BY <2>3, <2>4, <2>5 DEF Held
<1>2. CASE PromiseArm
  <2>1. /\ cur \in Requests /\ cur[1] < promise_counter
        /\ SlotOf(cur) \in Slots /\ promises[SlotOf(cur)].request = cur
    BY <1>2, RequestFacts
       DEF PromiseArm, CallInProgress, NoEarlyDriver, CallSlot, Owns, InCall
  <2>2. Arms(SlotOf(cur)) /\ js' = [js EXCEPT ![cur] = "pending"]
        /\ promise_counter' = promise_counter /\ ~InCall'
    BY <1>2, ArmTable DEF PromiseArm, InCall
  <2>3. \A r \in Requests : r[1] >= promise_counter' => js'[r] = "none"
    BY <1>r, <2>1, <2>2 DEF Held
  <2>4. ASSUME NEW k \in Slots, Armed(k)'
        PROVE  js'[promises'[k].request] = "pending"
    <3>1. CASE k = SlotOf(cur)
      BY <1>j, <2>1, <2>2, <3>1 DEF Arms
    <3>2. CASE k # SlotOf(cur)
      <4>1. Armed(k) /\ promises'[k].request = promises[k].request
        BY <2>2, <2>4, <3>2
           DEF Arms, Keeps, Same, SameClaim, Armed, Claimed
      <4>2. promises[k].request # cur /\ promises[k].request \in Requests
        BY <3>2, <4>1 DEF CallSlot, Armed, Claimed, TypeOK, SlotRecord
      <4> QED
        BY <1>j, <2>1, <2>2, <4>1, <4>2 DEF Held
    <3> QED
      BY <3>1, <3>2
  <2> QED
    BY <2>2, <2>3, <2>4 DEF Held
<1>3. CASE PumpSettles
  <2> DEFINE q == promises[pumpAt].request
  <2>1. /\ q \in Requests /\ js[q] = "pending"
        /\ SlotOf(q) = pumpAt
    BY <1>3, SettledPending DEF CallSlot, CompleteSlot
  <2>2. /\ js' = [js EXCEPT ![q] = "settled"]
        /\ promise_counter' = promise_counter /\ ~InCall' /\ Frees(pumpAt)
    BY <1>3, FreeTable DEF PumpSettles, NextSlot, InCall
  <2>3. \A r \in Requests : r[1] >= promise_counter' => js'[r] = "none"
    BY <1>j, <2>1, <2>2 DEF Held
  <2>4. ASSUME NEW k \in Slots, Armed(k)'
        PROVE  js'[promises'[k].request] = "pending"
    <3>1. k # pumpAt
      BY <2>2, <2>4 DEF Frees, Armed
    <3>2. Armed(k) /\ promises'[k].request = promises[k].request
      BY <2>2, <2>4, <3>1 DEF Frees, Keeps, Same, SameClaim, Armed, Claimed
    <3>3. promises[k].request # q /\ promises[k].request \in Requests
      BY <2>1, <3>1, <3>2 DEF CallSlot, Armed, Claimed, TypeOK, SlotRecord
    <3> QED
      BY <1>j, <2>1, <2>2, <3>2, <3>3 DEF Held
  <2> QED
    BY <2>2, <2>3, <2>4 DEF Held
<1>4. CASE SessionEnd
  <2>1. /\ js' = [r \in Requests |-> IF js[r] = "pending" THEN "dropped"
                                                         ELSE js[r]]
        /\ promise_counter' = promise_counter /\ ~InCall'
    BY <1>4 DEF SessionEnd, InCall
  <2>2. \A r \in Requests : r[1] >= promise_counter' => js'[r] = "none"
    BY <2>1 DEF Held
  <2>3. \A k \in Slots : ~Armed(k)'
    BY <1>4, EndTable DEF Armed, Claimed
  <2> QED
    BY <2>1, <2>2, <2>3 DEF Held
<1>5. CASE PromiseAbandon \/ PromiseArmFails
  <2>1. /\ js' = js /\ promise_counter' = promise_counter /\ ~InCall'
        /\ Frees(SlotOf(cur))
    BY <1>5, FreeTable DEF PromiseAbandon, PromiseArmFails, InCall
  <2> QED
    BY <2>1 DEF Held, Armed, Claimed, Frees, Keeps, Same, SameClaim
<1>6. CASE Claimless
  <2>1. js' = js /\ promise_counter' = promise_counter
    BY <1>6
       DEF Claimless, Unheard, Posting, DriverStart, CancelToken, CancelAll,
           BeginPump, PumpSkips, PumpStops, EndTurn, Wake, SessionStart, Elapse,
           StoreStatus, StoreDone, PostWake, Finish, OwnerCompletes
  <2>2. ClaimsKept /\ (InCall' <=> InCall) /\ (InCall => cur' = cur)
    BY <1>6, ClaimlessTable, ClaimlessCall
  <2> QED
    BY <2>1, <2>2 DEF Held, Armed, Claimed, ClaimsKept, SameClaim
<1> QED
  BY <1>1, <1>2, <1>3, <1>4, <1>5, <1>6, NextCases

(* What a Promise was settled with stays what its driver posted.           *)
LEMMA HonestSettleStep ==
  ASSUME TypeOK, CallInProgress, CallSlot, NoEarlyDriver, DoneByDriver,
         DoneHonest, Held, HonestSettle, Next
  PROVE  HonestSettle'
<1> SUFFICES ASSUME NEW r \in Requests, js'[r] = "settled"
             PROVE  drv'[r] \in AfterPost /\ result'[r] = outcome'[r]
  BY DEF HonestSettle, Posted, AfterPost
<1>j. /\ js \in [Requests -> JsStates]
      /\ result \in [Requests -> Statuses \cup {"none"}]
  BY DEF TypeOK
<1>1. ASSUME Posted(r), result'[r] = outcome[r]
      PROVE  drv'[r] \in AfterPost /\ result'[r] = outcome'[r]
  <2>1. Posted(r)'
    BY <1>1, PostedStays
  <2>2. outcome'[r] = outcome[r]
    BY <1>1, DriverSteps DEF DriverStep, WorkEnds, Posted
  <2> QED
    BY <1>1, <2>1, <2>2 DEF Posted, AfterPost
<1>2. ASSUME js[r] = "settled", result'[r] = result[r]
      PROVE  drv'[r] \in AfterPost /\ result'[r] = outcome'[r]
  BY <1>1, <1>2 DEF HonestSettle
<1>3. CASE PumpSettles
  <2> DEFINE q == promises[pumpAt].request
  <2>1. /\ q \in Requests /\ js[q] = "pending"
        /\ CompleteSlot(pumpAt) /\ pumpAt \in Slots
    BY <1>3, SettledPending
  <2>2. /\ js' = [js EXCEPT ![q] = "settled"]
        /\ result' = [result EXCEPT ![q] = promises[pumpAt].status]
    BY <1>3 DEF PumpSettles
  <2>3. CASE r = q
    <3>1. Posted(r)
      BY <2>1, <2>3 DEF DoneByDriver, CompleteSlot, Claimed
    <3>2. result'[r] = outcome[r]
      BY <1>j, <2>1, <2>2, <2>3 DEF DoneHonest
    <3> QED
      BY <1>1, <3>1, <3>2
  <2>4. CASE r # q
    BY <1>2, <1>j, <2>1, <2>2, <2>4
  <2> QED
    BY <2>3, <2>4
<1>4. CASE PromiseArm
  <2>1. js' = [js EXCEPT ![cur] = "pending"] /\ result' = result
    BY <1>4 DEF PromiseArm
  <2> QED
    BY <1>2, <1>j, <2>1
<1>5. CASE SessionEnd
  <2>1. /\ js' = [q \in Requests |-> IF js[q] = "pending" THEN "dropped"
                                                         ELSE js[q]]
        /\ result' = result
    BY <1>5 DEF SessionEnd
  <2> QED
    BY <1>2, <2>1
<1>6. CASE ~PromiseArm /\ ~PumpSettles /\ ~SessionEnd
  <2>1. js' = js /\ result' = result
    BY <1>6, SamePromises
  <2> QED
    BY <1>2, <2>1
<1> QED
  BY <1>3, <1>4, <1>5, <1>6

-----------------------------------------------------------------------------
(* The inductive invariant.                                                *)

LedgerInv == /\ MidOwns /\ WorkKnown /\ StatusStored /\ DoneHonest
             /\ Held /\ HonestSettle

LEMMA LedgerInvInit == Init => LedgerInv
<1> SUFFICES ASSUME Init
             PROVE  LedgerInv
  OBVIOUS
<1>1. /\ \A i \in Slots : ~Claimed(i)
      /\ ~InCall
  BY DEF Init, FreeSlot, Claimed, InCall
<1>2. \A r \in Requests : drv[r] = "none" /\ js[r] = "none"
                          /\ outcome[r] = "none"
  BY DEF Init
<1> QED
  BY <1>1, <1>2 DEF LedgerInv, MidOwns, MidComplete, WorkKnown, StatusStored,
     DoneHonest, CompleteSlot, Held, Armed, HonestSettle

LEMMA LedgerInvStep ==
  ASSUME ~Overtake, Inv, WakeInv, LedgerInv, [Next]_vars
  PROVE  LedgerInv'
<1> USE DEF Inv, WakeInv, LedgerInv
<1>1. CASE Next
  <2>1. MidOwns' /\ WorkKnown' /\ StatusStored'
    BY <1>1, MidOwnsStep, WorkKnownStep, StatusStoredStep
  <2>2. DoneHonest'
    BY <1>1, DoneHonestStep
  <2>3. Held' /\ HonestSettle'
    BY <1>1, HeldStep, HonestSettleStep
  <2> QED
    BY <2>1, <2>2, <2>3
<1>2. CASE UNCHANGED vars
  BY <1>2 DEF vars, MidOwns, MidComplete, Owns, WorkKnown, StatusStored,
     DoneHonest, CompleteSlot, Claimed, Posted, Held, InCall,
     Armed, HonestSettle
<1> QED
  BY <1>1, <1>2

LEMMA LedgerInvAlways ==
  ASSUME ~Overtake
  PROVE  Spec => [](Inv /\ WakeInv /\ LedgerInv)
<1>1. Init => LedgerInv
  BY LedgerInvInit
<1>2. Inv /\ WakeInv /\ LedgerInv /\ [Next]_vars => LedgerInv'
  BY LedgerInvStep
<1> QED
  BY <1>1, <1>2, WakeInvAlways, PTL DEF Spec

(* A Promise settles only after its own driver has posted, and with the    *)
(* status that driver posted: pocket_api_complete() stores the status      *)
(* before the number, and the pump reads them the other way round.         *)
THEOREM HonestSettleTheorem ==
  ASSUME ~Overtake
  PROVE  Spec => []HonestSettle
<1>1. LedgerInv => HonestSettle
  BY DEF LedgerInv
<1> QED
  BY <1>1, LedgerInvAlways, PTL

-----------------------------------------------------------------------------
(* The table implements the ledger.                                        *)

LEMMA LedgerInit == Init => Ledger!Init
BY DEF Init, Ledger!Init

(* A step of the table hands out, ends or settles one Promise, drops what  *)
(* a session leaves, or is none of the ledger's business.                  *)
LEMMA LedgerStep ==
  ASSUME Inv, WakeInv, LedgerInv, [Next]_vars
  PROVE  [Ledger!Next]_<<js, outcome, result>>
<1> USE DEF Inv, WakeInv, LedgerInv
<1>1. CASE PromiseArm
  <2>1. cur \in Requests /\ js[cur] = "none"
    BY <1>1 DEF PromiseArm, CallInProgress, Held, InCall
  <2>2. js' = [js EXCEPT ![cur] = "pending"] /\ UNCHANGED <<outcome, result>>
    BY <1>1 DEF PromiseArm
  <2> QED
    BY <2>1, <2>2 DEF Ledger!Next, Ledger!Hand
<1>2. CASE PumpSettles
  <2> DEFINE q == promises[pumpAt].request
  <2>1. /\ q \in Requests /\ js[q] = "pending"
        /\ CompleteSlot(pumpAt) /\ pumpAt \in Slots
    BY <1>2, SettledPending
  <2>2. /\ js' = [js EXCEPT ![q] = "settled"]
        /\ result' = [result EXCEPT ![q] = promises[pumpAt].status]
        /\ outcome' = outcome
    BY <1>2 DEF PumpSettles
  <2>3. promises[pumpAt].status = outcome[q]
    BY <2>1 DEF DoneHonest
  <2>4. outcome[q] # "none"
    <3>1. Posted(q)
      BY <2>1 DEF DoneByDriver, CompleteSlot, Claimed
    <3> QED
      BY <2>1, <3>1, PromiseAssumption DEF WorkKnown, Posted
  <2> QED
    BY <2>1, <2>2, <2>3, <2>4 DEF Ledger!Next, Ledger!Settle
<1>3. CASE SessionEnd
  BY <1>3 DEF SessionEnd, Ledger!Next, Ledger!Drop
<1>4. CASE Next /\ ~PromiseArm /\ ~PumpSettles /\ ~SessionEnd
  <2>1. UNCHANGED <<js, result>>
    BY <1>4, SamePromises
  <2>2. CASE outcome' = outcome
    BY <2>1, <2>2
  <2>3. ASSUME NEW r \in Requests, NEW s \in Statuses, drv[r] = "working",
               outcome' = [outcome EXCEPT ![r] = s]
        PROVE  Ledger!Next
    <3>1. outcome[r] = "none"
      BY <2>3 DEF WorkKnown
    <3> QED
      BY <2>1, <2>3, <3>1 DEF Ledger!Next, Ledger!End
  <2>4. CASE PumpStops
    BY <2>2, <2>3, <2>4, StopTable
  <2>5. CASE \E r \in Requests, s \in Statuses :
               Finish(r, s) \/ OwnerCompletes(r, s)
    BY <2>3, <2>5 DEF Finish, OwnerCompletes
  <2>6. CASE ~PumpStops /\ ~(\E r \in Requests, s \in Statuses :
                                 Finish(r, s) \/ OwnerCompletes(r, s))
    <3>1. outcome' = outcome
      BY <1>4, <2>6
         DEF Next, SurfaceCall, Turn, Pump, Posting, PromiseOpen, DriverStart,
             PromiseAbandon, PromiseArmFails, CancelToken, CancelAll, BeginPump,
             PumpSkips, EndTurn, Wake, SessionStart, Elapse, StoreStatus,
             StoreDone, PostWake
    <3> QED
      BY <2>1, <3>1
  <2> QED
    BY <2>4, <2>5, <2>6
<1>5. CASE UNCHANGED vars
  BY <1>5 DEF vars
<1> QED
  BY <1>1, <1>2, <1>3, <1>4, <1>5

(* The table of slots, tasks and wakes implements what pocket_api.h offers *)
(* a surface: every Promise settles at most once, after its own work, with *)
(* that work's status, and what a session leaves is dropped for good.      *)
THEOREM LedgerTheorem ==
  ASSUME ~Overtake
  PROVE  Spec => LedgerSpec
<1>1. Init => Ledger!Init
  BY LedgerInit
<1>2. Inv /\ WakeInv /\ LedgerInv /\ [Next]_vars
        => [Ledger!Next]_<<js, outcome, result>>
  BY LedgerStep
<1> QED
  BY <1>1, <1>2, LedgerInvAlways, PTL
     DEF Spec, LedgerSpec, Ledger!Spec, Ledger!vars
=============================================================================
