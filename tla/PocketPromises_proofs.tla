------------------------ MODULE PocketPromises_proofs ------------------------
(***************************************************************************)
(* Theorems about PocketPromises, for every number of slots, requests and  *)
(* sessions and every set of statuses, and also when drivers are overtaken:*)
(* the types, the installed realm, the exact count of open slots, and that *)
(* the owner never sleeps a frame on a completion another task published.  *)
(***************************************************************************)
EXTENDS PocketPromises, FiniteSetTheorems, TLAPS

(* A request number names its slot, and no slot is named by "none".        *)
LEMMA RequestFacts ==
  /\ NoRequest \notin Requests
  /\ \A r \in Requests : SlotOf(r) \in Slots
  /\ \A c \in 1 .. MaxRequests, i \in Slots :
       <<c, i>> \in Requests /\ SlotOf(<<c, i>>) = i
BY DEF NoRequest, Requests, SlotOf

(* The loop of the pump stays within the table.                            *)
LEMMA NextSlotInSlots ==
  ASSUME pumpAt \in Slots, NextSlot
  PROVE  pumpAt' \in Slots /\ owner' \in {"run", "pump"}
BY PromiseAssumption DEF NextSlot, Slots

(* Freed and claimed slots are well formed.                                *)
LEMMA FreeSlotType == FreeSlot \in SlotRecord
<1>1. 0 \in 0 .. MaxSessions
  BY PromiseAssumption
<1>2. OK \in Statuses
  BY PromiseAssumption
<1> QED
  BY <1>1, <1>2 DEF FreeSlot, SlotRecord, Codes

LEMMA ReleasedType ==
  ASSUME NEW p \in SlotRecord
  PROVE  Released(p) \in SlotRecord
<1>1. 0 \in 0 .. MaxSessions
  BY PromiseAssumption
<1> QED
  BY <1>1 DEF Released, SlotRecord, Codes

LEMMA StoppedType ==
  ASSUME NEW p \in SlotRecord, NEW code \in Codes
  PROVE  Stopped(p, code) \in SlotRecord
BY DEF Stopped, SlotRecord

LEMMA TypeInit == Init => TypeOK
<1> SUFFICES ASSUME Init
             PROVE  TypeOK
  OBVIOUS
<1>1. promises \in [Slots -> SlotRecord]
  BY FreeSlotType DEF Init
<1>2. /\ promise_counter \in 1 .. (MaxRequests + 1)
      /\ promise_open \in Int
      /\ session \in 1 .. MaxSessions
      /\ pumpAt \in Slots
  BY PromiseAssumption DEF Init, Slots
<1>3. /\ alive \in BOOLEAN /\ wake \in BOOLEAN
      /\ owner \in OwnerSteps
      /\ cur \in Requests \cup {NoRequest}
      /\ asked \in SUBSET Requests
  BY DEF Init, OwnerSteps
<1>4. /\ js \in [Requests -> JsStates]
      /\ drv \in [Requests -> DrvSteps]
      /\ outcome \in [Requests -> Statuses \cup {"none"}]
      /\ result \in [Requests -> Statuses \cup {"none"}]
  BY DEF Init, JsStates, DrvSteps
<1> QED
  BY <1>1, <1>2, <1>3, <1>4 DEF TypeOK

-----------------------------------------------------------------------------
(* The table stays well formed: one lemma for the actions of each actor.   *)

LEMMA TableTypeCalls ==
  ASSUME TypeOK, SurfaceCall \/ CancelToken \/ CancelAll
  PROVE  promises' \in [Slots -> SlotRecord]
<1> USE DEF TypeOK
<1>1. CASE PromiseOpen
  <2>1. PICK i \in Slots : promises' = [promises EXCEPT ![i] =
                   [FreeSlot EXCEPT !.request = <<promise_counter, i>>]]
    BY <1>1 DEF PromiseOpen
  <2>2. <<promise_counter, i>> \in Requests
    BY <1>1, RequestFacts DEF PromiseOpen
  <2>3. [FreeSlot EXCEPT !.request = <<promise_counter, i>>] \in SlotRecord
    BY <2>2, FreeSlotType DEF SlotRecord
  <2> QED
    BY <2>1, <2>3
<1>2. CASE DriverStart
  BY <1>2 DEF DriverStart
<1>3. CASE PromiseAbandon
  BY <1>3, ReleasedType DEF PromiseAbandon
<1>4. CASE PromiseArm
  <2>1. PICK t \in {"none", "given"} :
          promises' = [promises EXCEPT ![SlotOf(cur)] =
                        [@ EXCEPT !.armed = TRUE, !.ctx = session, !.token = t]]
    BY <1>4 DEF PromiseArm
  <2>2. session \in 0 .. MaxSessions
    BY PromiseAssumption
  <2>3. \A p \in SlotRecord :
          [p EXCEPT !.armed = TRUE, !.ctx = session, !.token = t] \in SlotRecord
    BY <2>2 DEF SlotRecord
  <2> QED
    BY <2>1, <2>3
<1>5. CASE PromiseArmFails
  BY <1>5, ReleasedType DEF PromiseArmFails
<1>6. CASE CancelToken
  BY <1>6 DEF CancelToken, SlotRecord
<1>7. CASE CancelAll
  <2>1. "CANCELLED" \in Codes
    BY DEF Codes
  <2> QED
    BY <1>7, <2>1, StoppedType DEF CancelAll
<1> QED
  BY <1>1, <1>2, <1>3, <1>4, <1>5, <1>6, <1>7 DEF SurfaceCall

LEMMA StopCodeType ==
  \A p \in SlotRecord : StopCode(p) \in Codes
BY DEF StopCode, Codes

LEMMA TableTypeTurn ==
  ASSUME TypeOK,
         \/ Turn \/ SessionEnd \/ SessionStart
         \/ \E i \in Slots : Elapse(i)
  PROVE  promises' \in [Slots -> SlotRecord]
<1> USE DEF TypeOK
<1>1. CASE PumpSettles
  BY <1>1, ReleasedType DEF PumpSettles
<1>2. CASE PumpStops
  <2>1. /\ promises[pumpAt] \in SlotRecord
        /\ StopCode(promises[pumpAt]) \in Codes
        /\ promises[pumpAt].request \in Requests
    BY <1>2, StopCodeType DEF PumpStops, SlotRecord, Claimed
  <2>2. \A p \in SlotRecord, code \in Codes, s \in Statuses, r \in Requests :
          [p EXCEPT !.stop = code, !.status = s, !.done = r] \in SlotRecord
    BY DEF SlotRecord
  <2>3. CASE promises' = [promises EXCEPT ![pumpAt] =
                Stopped(promises[pumpAt], StopCode(promises[pumpAt]))]
    BY <2>1, <2>3, StoppedType
  <2>4. ASSUME NEW s \in Statuses,
               promises' = [promises EXCEPT ![pumpAt] =
                 [@ EXCEPT !.stop = StopCode(promises[pumpAt]), !.status = s,
                           !.done = promises[pumpAt].request]]
        PROVE  promises' \in [Slots -> SlotRecord]
    BY <2>1, <2>2, <2>4
  <2>5. \/ promises' = [promises EXCEPT ![pumpAt] =
                Stopped(promises[pumpAt], StopCode(promises[pumpAt]))]
        \/ \E s \in Statuses : promises' = [promises EXCEPT ![pumpAt] =
                [@ EXCEPT !.stop = StopCode(promises[pumpAt]), !.status = s,
                          !.done = promises[pumpAt].request]]
    BY <1>2 DEF PumpStops
  <2> QED
    BY <2>3, <2>4, <2>5
<1>3. CASE \E i \in Slots : Elapse(i)
  <2>1. PICK i \in Slots : promises' = [promises EXCEPT ![i] =
                                         [@ EXCEPT !.late = TRUE]]
    BY <1>3 DEF Elapse
  <2>2. \A p \in SlotRecord : [p EXCEPT !.late = TRUE] \in SlotRecord
    BY DEF SlotRecord
  <2> QED
    BY <2>1, <2>2
<1>4. CASE SessionEnd
  BY <1>4, ReleasedType DEF SessionEnd
<1>5. CASE BeginPump \/ PumpSkips \/ EndTurn \/ Wake \/ SessionStart
  BY <1>5 DEF BeginPump, PumpSkips, EndTurn, Wake, SessionStart
<1> QED
  BY <1>1, <1>2, <1>3, <1>4, <1>5 DEF Turn, Pump

(* The status a driver is about to store.                                  *)
Outcomes == \A r \in Requests : drv[r] = "checked" => outcome[r] \in Statuses

LEMMA TableTypeDriver ==
  ASSUME TypeOK, Outcomes,
         \/ \E r \in Requests : Posting(r)
         \/ \E r \in Requests, s \in Statuses :
              Finish(r, s) \/ OwnerCompletes(r, s)
  PROVE  promises' \in [Slots -> SlotRecord]
<1> USE DEF TypeOK
<1>0. /\ \A p \in SlotRecord, s \in Statuses :
           [p EXCEPT !.status = s] \in SlotRecord
      /\ \A p \in SlotRecord, r \in Requests :
           [p EXCEPT !.done = r] \in SlotRecord
      /\ \A p \in SlotRecord, r \in Requests, s \in Statuses :
           [p EXCEPT !.status = s, !.done = r] \in SlotRecord
  BY DEF SlotRecord
<1>a. \A r \in Requests : promises[SlotOf(r)] \in SlotRecord
  BY RequestFacts
<1>1. ASSUME NEW r \in Requests, StoreStatus(r)
      PROVE  promises' \in [Slots -> SlotRecord]
  <2>1. outcome[r] \in Statuses
    BY <1>1 DEF StoreStatus, Outcomes
  <2>2. promises' = [promises EXCEPT ![SlotOf(r)] =
                       [@ EXCEPT !.status = outcome[r]]]
    BY <1>1 DEF StoreStatus
  <2> QED
    BY <1>0, <1>a, <2>1, <2>2
<1>2. ASSUME NEW r \in Requests, StoreDone(r)
      PROVE  promises' \in [Slots -> SlotRecord]
  <2>1. promises' = [promises EXCEPT ![SlotOf(r)] = [@ EXCEPT !.done = r]]
    BY <1>2 DEF StoreDone
  <2> QED
    BY <1>0, <1>a, <2>1
<1>3. ASSUME NEW r \in Requests, PostWake(r)
      PROVE  promises' \in [Slots -> SlotRecord]
  BY <1>3 DEF PostWake
<1>4. ASSUME NEW r \in Requests, NEW s \in Statuses, Finish(r, s)
      PROVE  promises' \in [Slots -> SlotRecord]
  BY <1>4 DEF Finish
<1>5. ASSUME NEW r \in Requests, NEW s \in Statuses, OwnerCompletes(r, s)
      PROVE  promises' \in [Slots -> SlotRecord]
  <2>1. \/ promises' = [promises EXCEPT ![SlotOf(r)] =
                           [@ EXCEPT !.status = s, !.done = r]]
        \/ promises' = promises
    BY <1>5 DEF OwnerCompletes
  <2>2. [promises[SlotOf(r)] EXCEPT !.status = s, !.done = r] \in SlotRecord
    BY <1>0, <1>a
  <2> QED
    BY <2>1, <2>2
<1> QED
  BY <1>1, <1>2, <1>3, <1>4, <1>5 DEF Posting

-----------------------------------------------------------------------------
(* The inductive invariant.  TypeOK needs the status a driver is about to  *)
(* store; RealmSafe needs that a surface call is only ever in progress in  *)
(* a realm that is alive, and for a request.                               *)

CallInProgress ==
  owner \in {"opened", "started"} => alive /\ cur \in Requests

Inv == TypeOK /\ Outcomes /\ CallInProgress /\ RealmSafe

(* The number of claimed slots is a number.                                *)
LEMMA ClaimedCount == Cardinality({i \in Slots : Claimed(i)}) \in Nat
<1>1. IsFiniteSet(Slots)
  BY PromiseAssumption, FS_Interval DEF Slots
<1>2. IsFiniteSet({i \in Slots : Claimed(i)})
  BY <1>1, FS_Subset
<1> QED
  BY <1>2, FS_CardinalityType

LEMMA TypeCalls ==
  ASSUME TypeOK, CallInProgress, SurfaceCall \/ CancelToken \/ CancelAll
  PROVE  TypeOK'
<1>1. promises' \in [Slots -> SlotRecord]
  BY TableTypeCalls
<1> USE <1>1 DEF TypeOK
<1>2. CASE PromiseOpen
  <2>1. promise_counter \in 1 .. MaxRequests
    BY <1>2 DEF PromiseOpen
  <2>2. cur' \in Requests
    BY <1>2, <2>1, RequestFacts DEF PromiseOpen
  <2>3. promise_counter + 1 \in 1 .. (MaxRequests + 1)
    BY <2>1, PromiseAssumption
  <2> QED
    BY <1>2, <2>2, <2>3 DEF PromiseOpen, OwnerSteps
<1>3. CASE DriverStart
  BY <1>3 DEF DriverStart, OwnerSteps, DrvSteps
<1>4. CASE PromiseAbandon
  BY <1>4 DEF PromiseAbandon, OwnerSteps
<1>5. CASE PromiseArm
  BY <1>5 DEF PromiseArm, OwnerSteps, JsStates
<1>6. CASE PromiseArmFails
  <2>1. asked' \in SUBSET Requests
    BY <1>6 DEF PromiseArmFails, CallInProgress
  <2> QED
    BY <1>6, <2>1 DEF PromiseArmFails, OwnerSteps
<1>7. CASE CancelToken
  BY <1>7 DEF CancelToken
<1>8. CASE CancelAll
  <2>1. \A i \in Slots : Claimed(i) => promises[i].request \in Requests
    BY DEF Claimed, SlotRecord
  <2>2. asked' \in SUBSET Requests
    BY <1>8, <2>1 DEF CancelAll
  <2> QED
    BY <1>8, <2>2 DEF CancelAll
<1> QED
  BY <1>2, <1>3, <1>4, <1>5, <1>6, <1>7, <1>8 DEF SurfaceCall

LEMMA TypeTurn ==
  ASSUME TypeOK,
         \/ Turn \/ SessionEnd \/ SessionStart
         \/ \E i \in Slots : Elapse(i)
  PROVE  TypeOK'
<1>1. promises' \in [Slots -> SlotRecord]
  BY TableTypeTurn
<1>2. \A i \in Slots : /\ promises[i] \in SlotRecord
                       /\ promises[i].status \in Statuses
                       /\ Claimed(i) => promises[i].request \in Requests
  BY DEF TypeOK, Claimed, SlotRecord
<1>3. /\ \A c \in {"run", "pump"} : c \in OwnerSteps
      /\ {"settled", "dropped"} \subseteq JsStates
      /\ "self" \in DrvSteps
  BY DEF OwnerSteps, JsStates, DrvSteps
<1> USE <1>1 DEF TypeOK
<1>4. CASE BeginPump
  BY <1>4, <1>3 DEF BeginPump
<1>5. CASE PumpSettles
  <2>1. pumpAt' \in Slots /\ owner' \in OwnerSteps
    BY <1>5, <1>3, NextSlotInSlots DEF PumpSettles
  <2>2. result' \in [Requests -> Statuses \cup {"none"}]
    BY <1>5, <1>2 DEF PumpSettles
  <2>3. js' \in [Requests -> JsStates]
    BY <1>5, <1>3 DEF PumpSettles
  <2> QED
    BY <1>5, <2>1, <2>2, <2>3 DEF PumpSettles
<1>6. CASE PumpStops
  <2>a. NextSlot
    BY ONLY <1>6 DEF PumpStops
  <2>1. pumpAt' \in Slots /\ owner' \in OwnerSteps
    BY <2>a, <1>3, NextSlotInSlots
  <2>d. /\ asked' = asked \cup {promises[pumpAt].request}
        /\ Claimed(pumpAt)
    BY ONLY <1>6 DEF PumpStops
  <2>e. asked \in SUBSET Requests /\ pumpAt \in Slots
    OBVIOUS
  <2>2. asked' \in SUBSET Requests
    BY ONLY <1>2, <2>d, <2>e
  <2>b. \/ drv' = drv /\ outcome' = outcome
        \/ \E s \in Statuses :
             /\ drv' = [drv EXCEPT ![promises[pumpAt].request] = "self"]
             /\ outcome' = [outcome EXCEPT ![promises[pumpAt].request] = s]
    BY ONLY <1>6 DEF PumpStops
  <2>c. /\ drv \in [Requests -> DrvSteps]
        /\ outcome \in [Requests -> Statuses \cup {"none"}]
    OBVIOUS
  <2>3. /\ drv' \in [Requests -> DrvSteps]
        /\ outcome' \in [Requests -> Statuses \cup {"none"}]
    BY ONLY <1>3, <2>b, <2>c
  <2> QED
    BY <1>6, <2>1, <2>2, <2>3 DEF PumpStops
<1>7. CASE PumpSkips
  <2>1. pumpAt' \in Slots /\ owner' \in OwnerSteps
    BY <1>7, <1>3, NextSlotInSlots DEF PumpSkips
  <2> QED
    BY <1>7, <2>1 DEF PumpSkips
<1>8. CASE EndTurn \/ Wake
  BY <1>8 DEF EndTurn, Wake, OwnerSteps
<1>9. CASE SessionEnd
  <2>1. promise_open' \in Int
    BY <1>9, ClaimedCount DEF SessionEnd
  <2>2. asked' \in SUBSET Requests
    BY <1>9, <1>2 DEF SessionEnd
  <2>3. js' \in [Requests -> JsStates]
    BY <1>9, <1>3 DEF SessionEnd
  <2> QED
    BY <1>9, <2>1, <2>2, <2>3 DEF SessionEnd
<1>10. CASE SessionStart
  <2>1. session' \in 1 .. MaxSessions
    BY <1>10, PromiseAssumption DEF SessionStart
  <2> QED
    BY <1>10, <2>1 DEF SessionStart
<1>11. CASE \E i \in Slots : Elapse(i)
  BY <1>11 DEF Elapse
<1> QED
  BY <1>4, <1>5, <1>6, <1>7, <1>8, <1>9, <1>10, <1>11 DEF Turn, Pump

LEMMA TypeDriver ==
  ASSUME TypeOK, Outcomes,
         \/ \E r \in Requests : Posting(r)
         \/ \E r \in Requests, s \in Statuses :
              Finish(r, s) \/ OwnerCompletes(r, s)
  PROVE  TypeOK'
<1>1. promises' \in [Slots -> SlotRecord]
  BY TableTypeDriver
<1>2. \A d \in {"checked", "stored", "published", "self", "over"} :
        d \in DrvSteps
  BY DEF DrvSteps
<1> USE <1>1 DEF TypeOK
<1>3. ASSUME NEW r \in Requests, Posting(r)
      PROVE  TypeOK'
  <2>1. CASE StoreStatus(r)
    BY <1>2, <2>1 DEF StoreStatus
  <2>2. CASE StoreDone(r)
    BY <1>2, <2>2 DEF StoreDone
  <2>3. CASE PostWake(r)
    BY <1>2, <2>3 DEF PostWake
  <2> QED
    BY <1>3, <2>1, <2>2, <2>3 DEF Posting
<1>4. ASSUME NEW r \in Requests, NEW s \in Statuses, Finish(r, s)
      PROVE  TypeOK'
  BY <1>2, <1>4 DEF Finish
<1>5. ASSUME NEW r \in Requests, NEW s \in Statuses, OwnerCompletes(r, s)
      PROVE  TypeOK'
  <2>1. outcome' \in [Requests -> Statuses \cup {"none"}]
    BY <1>5 DEF OwnerCompletes
  <2>2. \/ drv' = [drv EXCEPT ![r] = "self"]
        \/ drv' = [drv EXCEPT ![r] = "over"]
    BY ONLY <1>5 DEF OwnerCompletes
  <2>3. drv \in [Requests -> DrvSteps]
    OBVIOUS
  <2>4. drv' \in [Requests -> DrvSteps]
    BY ONLY <1>2, <2>2, <2>3
  <2> QED
    BY <1>5, <2>1, <2>4 DEF OwnerCompletes
<1> QED
  BY <1>3, <1>4, <1>5

(* A driver's status is known from the moment its work ends.               *)
LEMMA OutcomesStep ==
  ASSUME TypeOK, Outcomes, Next
  PROVE  Outcomes'
<1> SUFFICES ASSUME NEW q \in Requests, drv'[q] = "checked"
             PROVE  outcome'[q] \in Statuses
  BY DEF Outcomes
<1> USE DEF TypeOK, Outcomes
<1>1. CASE SurfaceCall
  BY <1>1 DEF SurfaceCall, PromiseOpen, DriverStart, PromiseAbandon,
              PromiseArm, PromiseArmFails
<1>2. CASE CancelToken \/ CancelAll \/ SessionEnd \/ SessionStart
  BY <1>2 DEF CancelToken, CancelAll, SessionEnd, SessionStart
<1>3. CASE BeginPump \/ PumpSettles \/ PumpSkips \/ EndTurn \/ Wake
  BY <1>3 DEF BeginPump, PumpSettles, PumpSkips, EndTurn, Wake
<1>4. CASE PumpStops
  <2>1. CASE drv' = drv /\ outcome' = outcome
    BY <2>1
  <2>2. CASE \E s \in Statuses :
               /\ drv' = [drv EXCEPT ![promises[pumpAt].request] = "self"]
               /\ outcome' = [outcome EXCEPT ![promises[pumpAt].request] = s]
    BY <2>2
  <2> QED
    BY <1>4, <2>1, <2>2 DEF PumpStops
<1>5. CASE \E i \in Slots : Elapse(i)
  BY <1>5 DEF Elapse
<1>6. ASSUME NEW r \in Requests, Posting(r)
      PROVE  outcome'[q] \in Statuses
  BY <1>6 DEF Posting, StoreStatus, StoreDone, PostWake
<1>7. ASSUME NEW r \in Requests, NEW s \in Statuses, Finish(r, s)
      PROVE  outcome'[q] \in Statuses
  BY <1>7 DEF Finish
<1>8. ASSUME NEW r \in Requests, NEW s \in Statuses, OwnerCompletes(r, s)
      PROVE  outcome'[q] \in Statuses
  BY <1>8 DEF OwnerCompletes
<1> QED
  BY <1>1, <1>2, <1>3, <1>4, <1>5, <1>6, <1>7, <1>8 DEF Next, Turn, Pump

(* A surface call is one uninterrupted piece of the owner's work.          *)
LEMMA CallInProgressStep ==
  ASSUME TypeOK, CallInProgress, Next
  PROVE  CallInProgress'
<1> USE DEF CallInProgress
<1>1. CASE PromiseOpen
  <2>1. promise_counter \in 1 .. MaxRequests
    BY <1>1 DEF PromiseOpen, TypeOK
  <2> QED
    BY <1>1, <2>1, RequestFacts DEF PromiseOpen
<1>2. CASE DriverStart \/ PromiseAbandon \/ PromiseArm \/ PromiseArmFails
  BY <1>2 DEF DriverStart, PromiseAbandon, PromiseArm, PromiseArmFails
<1>3. CASE CancelToken \/ CancelAll \/ SessionEnd \/ SessionStart
  BY <1>3 DEF CancelToken, CancelAll, SessionEnd, SessionStart
<1>4. CASE BeginPump \/ EndTurn \/ Wake
  BY <1>4 DEF BeginPump, EndTurn, Wake
<1>5. CASE Pump
  <2>1. owner' \in {"run", "pump"}
    BY <1>5 DEF Pump, PumpSettles, PumpStops, PumpSkips, NextSlot
  <2> QED
    BY <2>1
<1>6. CASE \E i \in Slots : Elapse(i)
  BY <1>6 DEF Elapse
<1>7. CASE \E r \in Requests : Posting(r)
  BY <1>7 DEF Posting, StoreStatus, StoreDone, PostWake
<1>8. CASE \E r \in Requests, s \in Statuses :
             Finish(r, s) \/ OwnerCompletes(r, s)
  BY <1>8 DEF Finish, OwnerCompletes
<1> QED
  BY <1>1, <1>2, <1>3, <1>4, <1>5, <1>6, <1>7, <1>8
     DEF Next, SurfaceCall, Turn

(* Freeing a slot disarms it; asking its driver to stop, storing a         *)
(* completion, a cancelled token and an elapsed deadline leave its claim   *)
(* as it was.                                                              *)
SameClaim(p, q) == /\ q.request = p.request
                   /\ q.armed = p.armed
                   /\ q.ctx = p.ctx

LEMMA ClaimFacts ==
  ASSUME NEW p \in SlotRecord
  PROVE  /\ ~Released(p).armed
         /\ \A c \in Codes : SameClaim(p, Stopped(p, c))
         /\ \A s \in Statuses : SameClaim(p, [p EXCEPT !.status = s])
         /\ \A r \in Requests : SameClaim(p, [p EXCEPT !.done = r])
         /\ SameClaim(p, [p EXCEPT !.late = TRUE])
         /\ SameClaim(p, [p EXCEPT !.token = "cancelled"])
         /\ \A s \in Statuses, r \in Requests :
              SameClaim(p, [p EXCEPT !.status = s, !.done = r])
         /\ \A c \in Codes, s \in Statuses, r \in Requests :
              SameClaim(p, [p EXCEPT !.stop = c, !.status = s, !.done = r])
BY DEF Released, Stopped, SameClaim, SlotRecord

LEMMA RealmSafeKept ==
  ASSUME RealmSafe, session' = session, alive' = alive,
         \A i \in Slots : \/ SameClaim(promises[i], promises'[i])
                         \/ ~promises'[i].armed
  PROVE  RealmSafe'
BY DEF RealmSafe, Armed, Claimed, SameClaim

LEMMA RealmSafeCalls ==
  ASSUME TypeOK, CallInProgress, RealmSafe,
         SurfaceCall \/ CancelToken \/ CancelAll
  PROVE  RealmSafe'
<1>0. \A i \in Slots : promises[i] \in SlotRecord
  BY DEF TypeOK
<1>s. \A i \in Slots : SameClaim(promises[i], promises[i])
  BY DEF SameClaim
<1> USE DEF TypeOK
<1>1. CASE PromiseOpen
  <2>1. \A i \in Slots : \/ promises'[i] = promises[i]
                         \/ ~promises'[i].armed
    BY <1>1 DEF PromiseOpen, FreeSlot
  <2> QED
    BY <1>1, <1>s, <2>1, RealmSafeKept DEF PromiseOpen
<1>2. CASE DriverStart
  BY <1>2, <1>s, RealmSafeKept DEF DriverStart
<1>3. CASE PromiseAbandon \/ PromiseArmFails
  <2>1. promises' = [promises EXCEPT ![SlotOf(cur)] =
                       Released(promises[SlotOf(cur)])]
    BY <1>3 DEF PromiseAbandon, PromiseArmFails
  <2>2. \A i \in Slots : \/ SameClaim(promises[i], promises'[i])
                         \/ ~promises'[i].armed
    BY <1>0, <1>s, <2>1, ClaimFacts
  <2> QED
    BY <1>3, <2>2, RealmSafeKept DEF PromiseAbandon, PromiseArmFails
<1>4. CASE PromiseArm
  <2>1. PICK t \in {"none", "given"} :
          promises' = [promises EXCEPT ![SlotOf(cur)] =
                        [@ EXCEPT !.armed = TRUE, !.ctx = session, !.token = t]]
    BY <1>4 DEF PromiseArm
  <2>2. \A p \in SlotRecord :
          [p EXCEPT !.armed = TRUE, !.ctx = session, !.token = t].ctx = session
    BY DEF SlotRecord
  <2>3. alive' /\ session' = session
    BY <1>4 DEF PromiseArm, CallInProgress
  <2>4. \A i \in Slots : promises'[i] = promises[i] \/ promises'[i].ctx = session
    BY <1>0, <2>1, <2>2
  <2> QED
    BY <2>3, <2>4 DEF RealmSafe, Armed, Claimed
<1>5. CASE CancelToken
  <2>1. \A i \in Slots : SameClaim(promises[i], promises'[i])
    BY <1>0, <1>5, <1>s, ClaimFacts DEF CancelToken
  <2> QED
    BY <1>5, <2>1, RealmSafeKept DEF CancelToken
<1>6. CASE CancelAll
  <2>1. "CANCELLED" \in Codes
    BY DEF Codes
  <2>2. \A i \in Slots : SameClaim(promises[i], promises'[i])
    BY <1>0, <1>6, <1>s, <2>1, ClaimFacts DEF CancelAll
  <2> QED
    BY <1>6, <2>2, RealmSafeKept DEF CancelAll
<1> QED
  BY <1>1, <1>2, <1>3, <1>4, <1>5, <1>6 DEF SurfaceCall

LEMMA RealmSafeTurn ==
  ASSUME TypeOK, RealmSafe,
         \/ Turn \/ SessionEnd \/ SessionStart
         \/ \E i \in Slots : Elapse(i)
  PROVE  RealmSafe'
<1>0. \A i \in Slots : promises[i] \in SlotRecord
  BY DEF TypeOK
<1>s. \A i \in Slots : SameClaim(promises[i], promises[i])
  BY DEF SameClaim
<1> USE DEF TypeOK
<1>1. CASE PumpSettles
  <2>1. \A i \in Slots : \/ SameClaim(promises[i], promises'[i])
                         \/ ~promises'[i].armed
    BY <1>0, <1>1, <1>s, ClaimFacts DEF PumpSettles
  <2> QED
    BY <1>1, <2>1, RealmSafeKept DEF PumpSettles
<1>2. CASE PumpStops
  <2>1. /\ StopCode(promises[pumpAt]) \in Codes
        /\ promises[pumpAt].request \in Requests
    BY <1>0, <1>2, StopCodeType DEF PumpStops, SlotRecord, Claimed
  <2>2. CASE promises' = [promises EXCEPT ![pumpAt] =
                Stopped(promises[pumpAt], StopCode(promises[pumpAt]))]
    <3>1. \A i \in Slots : SameClaim(promises[i], promises'[i])
      BY <1>0, <1>s, <2>1, <2>2, ClaimFacts
    <3> QED
      BY <1>2, <3>1, RealmSafeKept DEF PumpStops
  <2>3. CASE \E s \in Statuses : promises' = [promises EXCEPT ![pumpAt] =
                [@ EXCEPT !.stop = StopCode(promises[pumpAt]), !.status = s,
                          !.done = promises[pumpAt].request]]
    <3>1. PICK s \in Statuses : promises' = [promises EXCEPT ![pumpAt] =
                [@ EXCEPT !.stop = StopCode(promises[pumpAt]), !.status = s,
                          !.done = promises[pumpAt].request]]
      BY <2>3
    <3>2. \A i \in Slots : SameClaim(promises[i], promises'[i])
      BY <1>0, <1>s, <2>1, <3>1, ClaimFacts
    <3> QED
      BY <1>2, <3>2, RealmSafeKept DEF PumpStops
  <2>4. \/ promises' = [promises EXCEPT ![pumpAt] =
                Stopped(promises[pumpAt], StopCode(promises[pumpAt]))]
        \/ \E s \in Statuses : promises' = [promises EXCEPT ![pumpAt] =
                [@ EXCEPT !.stop = StopCode(promises[pumpAt]), !.status = s,
                          !.done = promises[pumpAt].request]]
    BY <1>2 DEF PumpStops
  <2> QED
    BY <2>2, <2>3, <2>4
<1>3. CASE BeginPump \/ PumpSkips \/ EndTurn \/ Wake
  BY <1>3, <1>s, RealmSafeKept DEF BeginPump, PumpSkips, EndTurn, Wake
<1>4. CASE SessionEnd
  <2>1. \A i \in Slots : ~(Claimed(i)' /\ promises'[i].armed)
    BY <1>0, <1>4, ClaimFacts DEF SessionEnd, Claimed
  <2> QED
    BY <2>1 DEF RealmSafe, Armed
<1>5. CASE SessionStart
  BY <1>5 DEF SessionStart, RealmSafe, Armed, Claimed
<1>6. CASE \E i \in Slots : Elapse(i)
  <2>1. PICK i \in Slots : Elapse(i)
    BY <1>6
  <2>2. promises' = [promises EXCEPT ![i] = [@ EXCEPT !.late = TRUE]]
    BY ONLY <2>1 DEF Elapse
  <2>3. promises \in [Slots -> SlotRecord]
    OBVIOUS
  <2>4. SameClaim(promises[i], [promises[i] EXCEPT !.late = TRUE])
    BY ONLY <1>0, ClaimFacts
  <2>5. \A j \in Slots : SameClaim(promises[j], promises'[j])
    BY ONLY <1>s, <2>2, <2>3, <2>4
  <2> QED
    BY <2>1, <2>5, RealmSafeKept DEF Elapse
<1> QED
  BY <1>1, <1>2, <1>3, <1>4, <1>5, <1>6 DEF Turn, Pump

LEMMA RealmSafeDriver ==
  ASSUME TypeOK, Outcomes, RealmSafe,
         \/ \E r \in Requests : Posting(r)
         \/ \E r \in Requests, s \in Statuses :
              Finish(r, s) \/ OwnerCompletes(r, s)
  PROVE  RealmSafe'
<1>0. \A i \in Slots : promises[i] \in SlotRecord
  BY DEF TypeOK
<1>s. \A i \in Slots : SameClaim(promises[i], promises[i])
  BY DEF SameClaim
<1> USE DEF TypeOK
<1>1. ASSUME NEW r \in Requests, StoreStatus(r)
      PROVE  RealmSafe'
  <2>1. outcome[r] \in Statuses
    BY <1>1 DEF StoreStatus, Outcomes
  <2>2. \A i \in Slots : SameClaim(promises[i], promises'[i])
    BY <1>0, <1>s, <1>1, <2>1, ClaimFacts DEF StoreStatus
  <2> QED
    BY <1>1, <2>2, RealmSafeKept DEF StoreStatus
<1>2. ASSUME NEW r \in Requests, StoreDone(r)
      PROVE  RealmSafe'
  <2>1. \A i \in Slots : SameClaim(promises[i], promises'[i])
    BY <1>0, <1>s, <1>2, ClaimFacts DEF StoreDone
  <2> QED
    BY <1>2, <2>1, RealmSafeKept DEF StoreDone
<1>3. ASSUME NEW r \in Requests, NEW s \in Statuses,
             PostWake(r) \/ Finish(r, s)
      PROVE  RealmSafe'
  BY <1>3, <1>s, RealmSafeKept DEF PostWake, Finish
<1>4. ASSUME NEW r \in Requests, NEW s \in Statuses, OwnerCompletes(r, s)
      PROVE  RealmSafe'
  <2>1. \/ promises' = [promises EXCEPT ![SlotOf(r)] =
                           [@ EXCEPT !.status = s, !.done = r]]
        \/ promises' = promises
    BY <1>4 DEF OwnerCompletes
  <2>a. \A i \in Slots :
          SameClaim(promises[i], [promises[i] EXCEPT !.status = s, !.done = r])
    BY <1>0, ClaimFacts
  <2>2. \A i \in Slots : SameClaim(promises[i], promises'[i])
    BY <1>s, <2>1, <2>a
  <2> QED
    BY <1>4, <2>2, RealmSafeKept DEF OwnerCompletes
<1> QED
  BY <1>1, <1>2, <1>3, <1>4, PromiseAssumption DEF Posting

LEMMA InvInit == Init => Inv
<1> SUFFICES ASSUME Init
             PROVE  Inv
  OBVIOUS
<1>1. TypeOK
  BY TypeInit
<1>2. Outcomes /\ CallInProgress
  BY DEF Init, Outcomes, CallInProgress
<1>3. RealmSafe
  BY DEF Init, RealmSafe, Armed, Claimed, FreeSlot
<1> QED
  BY <1>1, <1>2, <1>3 DEF Inv

LEMMA InvStep == Inv /\ [Next]_vars => Inv'
<1> SUFFICES ASSUME Inv, [Next]_vars
             PROVE  Inv'
  OBVIOUS
<1> USE DEF Inv
<1>1. CASE Next
  <2>1. TypeOK'
    <3>1. \/ SurfaceCall \/ CancelToken \/ CancelAll
          \/ Turn \/ SessionEnd \/ SessionStart \/ \E i \in Slots : Elapse(i)
          \/ \E r \in Requests : Posting(r)
          \/ \E r \in Requests, s \in Statuses :
               Finish(r, s) \/ OwnerCompletes(r, s)
      BY <1>1 DEF Next
    <3> QED
      BY <3>1, TypeCalls, TypeTurn, TypeDriver
  <2>2. Outcomes' /\ CallInProgress'
    BY <1>1, OutcomesStep, CallInProgressStep
  <2>3. RealmSafe'
    BY <1>1, RealmSafeCalls, RealmSafeTurn, RealmSafeDriver DEF Next
  <2> QED
    BY <2>1, <2>2, <2>3
<1>2. CASE UNCHANGED vars
  BY <1>2 DEF vars, TypeOK, Outcomes, CallInProgress, RealmSafe, Armed, Claimed
<1> QED
  BY <1>1, <1>2

LEMMA InvAlways == Spec => []Inv
BY InvInit, InvStep, PTL DEF Spec

(* The table, the counters and every driver's record stay well formed,     *)
(* whatever the drivers post and however often the table is reused: no     *)
(* request number leads outside the table and the pump never runs past it. *)
THEOREM TypeCorrect == Spec => []TypeOK
<1>1. Inv => TypeOK
  BY DEF Inv
<1> QED
  BY <1>1, InvAlways, PTL

(* Every slot the pump may settle belongs to the realm that is installed:  *)
(* after pocket_api_reset() no completion, however late, reaches the       *)
(* resolvers of the session that ended.                                    *)
THEOREM RealmCorrect == Spec => []RealmSafe
<1>1. Inv => RealmSafe
  BY DEF Inv
<1> QED
  BY <1>1, InvAlways, PTL

-----------------------------------------------------------------------------
(* What each action does to the table, slot by slot.                       *)

Same(p, q) == /\ SameClaim(p, q)
              /\ q.done = p.done
              /\ q.status = p.status

(* The slots outside S keep their claim and their completion.              *)
Keeps(S) == \A i \in Slots \ S : Same(promises[i], promises'[i])

Frees(i) == /\ promises'[i].request = NoRequest
            /\ ~promises'[i].armed
            /\ promises'[i].done = promises[i].done
            /\ Keeps({i})

Claims(i, r) == /\ promises'[i].request = r
                /\ promises'[i].done = NoRequest
                /\ ~promises'[i].armed
                /\ Keeps({i})

Arms(i) == /\ promises'[i].request = promises[i].request
           /\ promises'[i].done = promises[i].done
           /\ promises'[i].status = promises[i].status
           /\ promises'[i].armed
           /\ Keeps({i})

(* The slot record q is p with the completion of r and the status s.       *)
Told(p, q, r, s) == /\ SameClaim(p, q)
                    /\ q.done = r
                    /\ q.status = s

Tells(i, r, s) == Told(promises[i], promises'[i], r, s) /\ Keeps({i})

LEMMA SlotFacts ==
  ASSUME NEW p \in SlotRecord
  PROVE  /\ Released(p).request = NoRequest
         /\ ~Released(p).armed
         /\ Released(p).done = p.done
         /\ \A c \in Codes : Same(p, Stopped(p, c))
         /\ Same(p, [p EXCEPT !.late = TRUE])
         /\ Same(p, [p EXCEPT !.token = "cancelled"])
BY DEF Released, Stopped, Same, SameClaim, SlotRecord

LEMMA StoreFacts ==
  ASSUME NEW p \in SlotRecord, NEW c \in Codes, NEW s \in Statuses,
         NEW r \in Requests
  PROVE  /\ Told(p, [p EXCEPT !.status = s], p.done, s)
         /\ Told(p, [p EXCEPT !.done = r], r, p.status)
         /\ Told(p, [p EXCEPT !.status = s, !.done = r], r, s)
         /\ Told(p, [p EXCEPT !.stop = c, !.status = s, !.done = r], r, s)
BY DEF Told, SameClaim, SlotRecord

LEMMA OpenTable ==
  ASSUME TypeOK, PromiseOpen
  PROVE  \E i \in Slots : /\ <<promise_counter, i>> \in Requests
                          /\ ~Claimed(i)
                          /\ cur' = <<promise_counter, i>>
                          /\ Claims(i, <<promise_counter, i>>)
<1>1. PICK i \in Slots :
        /\ ~Claimed(i)
        /\ promises' = [promises EXCEPT ![i] =
                         [FreeSlot EXCEPT !.request = <<promise_counter, i>>]]
        /\ cur' = <<promise_counter, i>>
  BY DEF PromiseOpen
<1>2. <<promise_counter, i>> \in Requests
  BY RequestFacts DEF PromiseOpen, TypeOK
<1>3. LET q == [FreeSlot EXCEPT !.request = <<promise_counter, i>>]
      IN  /\ q.request = <<promise_counter, i>>
          /\ q.done = NoRequest
          /\ ~q.armed
  BY DEF FreeSlot
<1>4. Claims(i, <<promise_counter, i>>)
  BY <1>1, <1>3 DEF TypeOK, Claims, Keeps, Same, SameClaim
<1> QED
  BY <1>1, <1>2, <1>4

LEMMA FreeTable ==
  ASSUME TypeOK, CallInProgress
  PROVE  /\ PromiseAbandon \/ PromiseArmFails => Frees(SlotOf(cur))
         /\ PumpSettles => Frees(pumpAt)
<1>0. \A i \in Slots : promises[i] \in SlotRecord
  BY DEF TypeOK
<1>1. ASSUME NEW i \in Slots,
             promises' = [promises EXCEPT ![i] = Released(promises[i])]
      PROVE  Frees(i)
  <2>1. promises'[i] = Released(promises[i])
    BY <1>1 DEF TypeOK
  <2>2. Keeps({i})
    BY <1>1 DEF TypeOK, Keeps, Same, SameClaim
  <2> QED
    BY <1>0, <2>1, <2>2, SlotFacts DEF Frees
<1>2. CASE PromiseAbandon \/ PromiseArmFails
  <2>1. SlotOf(cur) \in Slots
    BY <1>2, RequestFacts DEF PromiseAbandon, PromiseArmFails, CallInProgress
  <2>2. ~PumpSettles
    BY <1>2 DEF PromiseAbandon, PromiseArmFails, PumpSettles
  <2> QED
    BY <1>1, <1>2, <2>1, <2>2 DEF PromiseAbandon, PromiseArmFails
<1>3. CASE PumpSettles
  <2>1. ~(PromiseAbandon \/ PromiseArmFails)
    BY <1>3 DEF PromiseAbandon, PromiseArmFails, PumpSettles
  <2>2. promises' = [promises EXCEPT ![pumpAt] = Released(promises[pumpAt])]
    BY <1>3 DEF PumpSettles
  <2> QED
    BY <1>1, <2>1, <2>2 DEF TypeOK
<1> QED
  BY <1>2, <1>3

LEMMA ArmTable ==
  ASSUME TypeOK, CallInProgress, PromiseArm
  PROVE  Arms(SlotOf(cur))
<1>1. PICK t \in {"none", "given"} :
        promises' = [promises EXCEPT ![SlotOf(cur)] =
                      [@ EXCEPT !.armed = TRUE, !.ctx = session, !.token = t]]
  BY DEF PromiseArm
<1>2. SlotOf(cur) \in Slots
  BY RequestFacts DEF PromiseArm, CallInProgress
<1>3. \A p \in SlotRecord :
        LET q == [p EXCEPT !.armed = TRUE, !.ctx = session, !.token = t]
        IN  /\ q.request = p.request /\ q.done = p.done
            /\ q.status = p.status /\ q.armed
  BY DEF SlotRecord
<1>4. Keeps({SlotOf(cur)})
  BY <1>1, <1>2 DEF TypeOK, Keeps, Same, SameClaim
<1> QED
  BY <1>1, <1>2, <1>3, <1>4 DEF Arms, TypeOK

LEMMA EndTable ==
  ASSUME TypeOK, SessionEnd
  PROVE  \A i \in Slots : /\ promises'[i].request = NoRequest
                          /\ promises'[i].done = promises[i].done
<1>1. \A i \in Slots : promises'[i] = IF Claimed(i) THEN Released(promises[i])
                                                    ELSE promises[i]
  BY DEF SessionEnd
<1>2. \A i \in Slots : promises[i] \in SlotRecord
  BY DEF TypeOK
<1>3. \A i \in Slots : /\ Released(promises[i]).request = NoRequest
                       /\ Released(promises[i]).done = promises[i].done
  BY <1>2, SlotFacts
<1> QED
  BY ONLY <1>1, <1>3 DEF Claimed

(* Steps that change nothing the pump settles by.                          *)
Unheard == \/ DriverStart \/ CancelToken \/ CancelAll
           \/ BeginPump \/ PumpSkips \/ EndTurn \/ Wake \/ SessionStart
           \/ \E i \in Slots : Elapse(i)
           \/ \E r \in Requests : PostWake(r)
           \/ \E r \in Requests, s \in Statuses : Finish(r, s)

LEMMA UnheardTable ==
  ASSUME TypeOK, Unheard
  PROVE  Keeps({})
<1>0. \A i \in Slots : /\ promises[i] \in SlotRecord
                       /\ Same(promises[i], promises[i])
  BY DEF TypeOK, Same, SameClaim
<1>1. CASE CancelToken
  <2>1. PICK i \in Slots : promises' = [promises EXCEPT ![i] =
                                         [@ EXCEPT !.token = "cancelled"]]
    BY <1>1 DEF CancelToken
  <2>2. Same(promises[i], [promises[i] EXCEPT !.token = "cancelled"])
    BY <1>0, SlotFacts
  <2> QED
    BY <1>0, <2>1, <2>2 DEF Keeps, TypeOK
<1>2. CASE CancelAll
  <2>1. \A i \in Slots : \/ promises'[i] = promises[i]
                         \/ promises'[i] = Stopped(promises[i], "CANCELLED")
    BY <1>2 DEF CancelAll
  <2>2. \A i \in Slots : Same(promises[i], Stopped(promises[i], "CANCELLED"))
    BY <1>0, SlotFacts DEF Codes
  <2> QED
    BY <1>0, <2>1, <2>2 DEF Keeps
<1>3. CASE \E i \in Slots : Elapse(i)
  <2>1. PICK i \in Slots : promises' = [promises EXCEPT ![i] =
                                         [@ EXCEPT !.late = TRUE]]
    BY <1>3 DEF Elapse
  <2>2. Same(promises[i], [promises[i] EXCEPT !.late = TRUE])
    BY <1>0, SlotFacts
  <2> QED
    BY <1>0, <2>1, <2>2 DEF Keeps, TypeOK
<1>4. CASE promises' = promises
  BY <1>0, <1>4 DEF Keeps
<1> QED
  BY <1>1, <1>2, <1>3, <1>4
     DEF Unheard, DriverStart, BeginPump, PumpSkips, EndTurn, Wake,
         SessionStart, PostWake, Finish

(* The two ways of the pump's stop: the driver is only asked, or its stop  *)
(* hook posts.                                                             *)
LEMMA StopTable ==
  ASSUME TypeOK, PumpStops
  PROVE  LET r == promises[pumpAt].request IN
         /\ r \in Requests
         /\ \/ /\ Keeps({})
               /\ UNCHANGED <<drv, outcome>>
            \/ \E s \in Statuses :
                 /\ drv[r] = "working"
                 /\ Tells(pumpAt, r, s)
                 /\ drv' = [drv EXCEPT ![r] = "self"]
                 /\ outcome' = [outcome EXCEPT ![r] = s]
<1> DEFINE p == promises[pumpAt]
           r == p.request
<1>0. /\ \A i \in Slots : /\ promises[i] \in SlotRecord
                          /\ Same(promises[i], promises[i])
      /\ pumpAt \in Slots
      /\ promises \in [Slots -> SlotRecord]
  BY DEF TypeOK, Same, SameClaim
<1>1. StopCode(p) \in Codes /\ r \in Requests
  BY <1>0, StopCodeType DEF PumpStops, SlotRecord, Claimed
<1>2. \/ /\ promises' = [promises EXCEPT ![pumpAt] = Stopped(p, StopCode(p))]
         /\ UNCHANGED <<drv, outcome>>
      \/ \E s \in Statuses :
           /\ drv[r] = "working"
           /\ promises' = [promises EXCEPT ![pumpAt] =
                [@ EXCEPT !.stop = StopCode(p), !.status = s, !.done = r]]
           /\ drv' = [drv EXCEPT ![r] = "self"]
           /\ outcome' = [outcome EXCEPT ![r] = s]
  BY DEF PumpStops
<1>3. CASE /\ promises' = [promises EXCEPT ![pumpAt] = Stopped(p, StopCode(p))]
           /\ UNCHANGED <<drv, outcome>>
  <2>1. Same(p, Stopped(p, StopCode(p)))
    BY <1>0, <1>1, SlotFacts
  <2>2. Keeps({})
    BY ONLY <1>0, <1>3, <2>1 DEF Keeps
  <2> QED
    BY <1>1, <1>3, <2>2
<1>4. ASSUME NEW s \in Statuses,
             drv[r] = "working",
             promises' = [promises EXCEPT ![pumpAt] =
                [@ EXCEPT !.stop = StopCode(p), !.status = s, !.done = r]],
             drv' = [drv EXCEPT ![r] = "self"],
             outcome' = [outcome EXCEPT ![r] = s]
      PROVE  Tells(pumpAt, r, s)
  <2>1. promises'[pumpAt] = [p EXCEPT !.stop = StopCode(p), !.status = s,
                                      !.done = r]
    BY ONLY <1>0, <1>4
  <2>2. Told(p, promises'[pumpAt], r, s)
    <3>1. p \in SlotRecord
      BY <1>0
    <3>2. StopCode(p) \in Codes /\ r \in Requests /\ s \in Statuses
      BY <1>1
    <3> HIDE DEF p, r
    <3>3. Told(p, [p EXCEPT !.stop = StopCode(p), !.status = s, !.done = r],
               r, s)
      BY ONLY <3>1, <3>2, StoreFacts
    <3> QED
      BY ONLY <2>1, <3>3
  <2>3. Keeps({pumpAt})
    BY ONLY <1>0, <1>4 DEF Keeps
  <2> QED
    BY <2>2, <2>3 DEF Tells
<1> HIDE DEF p, r
<1>5. CASE \E s \in Statuses :
           /\ drv[r] = "working"
           /\ promises' = [promises EXCEPT ![pumpAt] =
                [@ EXCEPT !.stop = StopCode(p), !.status = s, !.done = r]]
           /\ drv' = [drv EXCEPT ![r] = "self"]
           /\ outcome' = [outcome EXCEPT ![r] = s]
  BY <1>1, <1>4, <1>5 DEF r, p
<1> QED
  BY <1>2, <1>3, <1>5

LEMMA CompleteTable ==
  ASSUME TypeOK, Outcomes, NEW r \in Requests
  PROVE  /\ StoreStatus(r) =>
              Tells(SlotOf(r), promises[SlotOf(r)].done, outcome[r])
         /\ StoreDone(r) => Tells(SlotOf(r), r, promises[SlotOf(r)].status)
         /\ \A s \in Statuses : OwnerCompletes(r, s) /\ Owns(r) =>
              Tells(SlotOf(r), r, s) /\ drv' = [drv EXCEPT ![r] = "self"]
         /\ \A s \in Statuses : OwnerCompletes(r, s) /\ ~Owns(r) =>
              Keeps({}) /\ drv' = [drv EXCEPT ![r] = "over"]
<1> DEFINE i == SlotOf(r)
           p == promises[i]
<1>0. /\ i \in Slots /\ p \in SlotRecord /\ p.status \in Statuses
      /\ promises \in [Slots -> SlotRecord]
      /\ \A k \in Slots : Same(promises[k], promises[k])
      /\ "none" \in Codes
  BY RequestFacts DEF TypeOK, Same, SameClaim, SlotRecord, Codes
<1>1. ASSUME NEW q, NEW d, NEW s, promises' = [promises EXCEPT ![i] = q],
             Told(p, q, d, s)
      PROVE  Tells(i, d, s)
  <2>1. promises'[i] = q /\ Keeps({i})
    BY ONLY <1>0, <1>1 DEF Keeps
  <2> QED
    BY <1>1, <2>1 DEF Tells, p
<1> HIDE DEF i, p
<1>2. ASSUME StoreStatus(r)
      PROVE  Tells(i, p.done, outcome[r])
  <2>1. outcome[r] \in Statuses
    BY <1>2 DEF StoreStatus, Outcomes
  <2>2. promises' = [promises EXCEPT ![i] = [p EXCEPT !.status = outcome[r]]]
    BY <1>2 DEF StoreStatus, i, p
  <2>3. Told(p, [p EXCEPT !.status = outcome[r]], p.done, outcome[r])
    BY <1>0, <2>1, StoreFacts
  <2> QED
    BY <1>1, <2>2, <2>3
<1>3. ASSUME StoreDone(r)
      PROVE  Tells(i, r, p.status)
  <2>1. promises' = [promises EXCEPT ![i] = [p EXCEPT !.done = r]]
    BY <1>3 DEF StoreDone, i, p
  <2>2. Told(p, [p EXCEPT !.done = r], r, p.status)
    BY <1>0, StoreFacts
  <2> QED
    BY <1>1, <2>1, <2>2
<1>4. ASSUME NEW s \in Statuses, OwnerCompletes(r, s), Owns(r)
      PROVE  Tells(i, r, s) /\ drv' = [drv EXCEPT ![r] = "self"]
  <2>1. /\ promises' = [promises EXCEPT ![i] =
                          [p EXCEPT !.status = s, !.done = r]]
        /\ drv' = [drv EXCEPT ![r] = "self"]
    BY <1>4 DEF OwnerCompletes, i, p
  <2>2. Told(p, [p EXCEPT !.status = s, !.done = r], r, s)
    BY <1>0, StoreFacts
  <2> QED
    BY <1>1, <2>1, <2>2
<1>5. ASSUME NEW s \in Statuses, OwnerCompletes(r, s), ~Owns(r)
      PROVE  Keeps({}) /\ drv' = [drv EXCEPT ![r] = "over"]
  BY <1>0, <1>5 DEF OwnerCompletes, Keeps
<1> QED
  BY <1>2, <1>3, <1>4, <1>5 DEF i, p

-----------------------------------------------------------------------------
(* The surface call in progress owns the one slot that is not armed.       *)

InCall == owner \in {"opened", "started"}

CallSlot ==
  /\ InCall => Owns(cur) /\ ~promises[SlotOf(cur)].armed
  /\ \A i \in Slots : Claimed(i) => SlotOf(promises[i].request) = i
  /\ \A i \in Slots : Claimed(i) /\ ~promises[i].armed =>
       InCall /\ cur = promises[i].request

ClaimsKept == \A i \in Slots : SameClaim(promises[i], promises'[i])

(* Steps that claim no slot, arm none and free none.                       *)
Claimless == \/ Unheard \/ PumpStops
             \/ \E r \in Requests : Posting(r)
             \/ \E r \in Requests, s \in Statuses : OwnerCompletes(r, s)

LEMMA NextCases ==
  Next => \/ PromiseOpen \/ PromiseAbandon \/ PromiseArm \/ PromiseArmFails
          \/ PumpSettles \/ SessionEnd \/ Claimless
BY DEF Next, SurfaceCall, Turn, Pump, Claimless, Unheard

LEMMA ClaimlessTable ==
  ASSUME TypeOK, Outcomes, Claimless
  PROVE  ClaimsKept
<1>1. CASE Unheard
  BY <1>1, UnheardTable DEF Keeps, Same, ClaimsKept
<1>2. ASSUME NEW i, NEW r, NEW s, Tells(i, r, s)
      PROVE  ClaimsKept
  BY <1>2 DEF Tells, Told, Keeps, Same, ClaimsKept
<1>3. ASSUME Keeps({})
      PROVE  ClaimsKept
  BY <1>3 DEF Keeps, Same, ClaimsKept
<1>4. CASE PumpStops
  BY <1>2, <1>3, <1>4, StopTable
<1>5. ASSUME NEW r \in Requests, Posting(r)
      PROVE  ClaimsKept
  <2>1. CASE PostWake(r)
    BY <1>1, <2>1 DEF Unheard
  <2> QED
    BY <1>2, <1>5, <2>1, CompleteTable DEF Posting
<1>6. ASSUME NEW r \in Requests, NEW s \in Statuses, OwnerCompletes(r, s)
      PROVE  ClaimsKept
  BY <1>2, <1>3, <1>6, CompleteTable
<1> QED
  BY <1>1, <1>4, <1>5, <1>6 DEF Claimless

LEMMA ClaimlessCall ==
  ASSUME Claimless
  PROVE  (InCall' <=> InCall) /\ (InCall => cur' = cur)
<1>1. CASE DriverStart \/ CancelToken \/ CancelAll \/ SessionStart
  BY <1>1 DEF DriverStart, CancelToken, CancelAll, SessionStart, InCall
<1>2. CASE BeginPump \/ PumpSkips \/ PumpStops \/ EndTurn \/ Wake
  BY <1>2 DEF BeginPump, PumpSkips, PumpStops, NextSlot, EndTurn, Wake, InCall
<1>3. CASE \E i \in Slots : Elapse(i)
  BY <1>3 DEF Elapse, InCall
<1>4. CASE \E r \in Requests : Posting(r)
  BY <1>4 DEF Posting, StoreStatus, StoreDone, PostWake, InCall
<1>5. CASE \E r \in Requests, s \in Statuses :
             Finish(r, s) \/ OwnerCompletes(r, s)
  BY <1>5 DEF Finish, OwnerCompletes, InCall
<1> QED
  BY <1>1, <1>2, <1>3, <1>4, <1>5 DEF Claimless, Unheard, Posting

LEMMA CallSlotStep ==
  ASSUME TypeOK, Outcomes, CallInProgress, CallSlot, Next
  PROVE  CallSlot'
<1> USE DEF CallSlot, Claimed, Owns
<1>1. CASE PromiseOpen
  <2>1. PICK i \in Slots : /\ <<promise_counter, i>> \in Requests
                           /\ ~Claimed(i)
                           /\ cur' = <<promise_counter, i>>
                           /\ Claims(i, <<promise_counter, i>>)
    BY <1>1, OpenTable
  <2>2. SlotOf(cur') = i
    BY <2>1 DEF SlotOf
  <2>3. InCall' /\ ~InCall
    BY <1>1 DEF PromiseOpen, InCall
  <2> QED
    BY <2>1, <2>2, <2>3 DEF Claims, Keeps, Same, SameClaim
<1>2. CASE PromiseAbandon \/ PromiseArmFails
  <2>1. ~InCall' /\ InCall /\ Frees(SlotOf(cur))
    BY <1>2, FreeTable DEF PromiseAbandon, PromiseArmFails, InCall
  <2>2. \A i \in Slots : Claimed(i) /\ i # SlotOf(cur) => promises[i].armed
    BY <2>1
  <2> QED
    BY <2>1, <2>2 DEF Frees, Keeps, Same, SameClaim
<1>3. CASE PromiseArm
  <2>1. ~InCall' /\ InCall /\ Arms(SlotOf(cur))
    BY <1>3, ArmTable DEF PromiseArm, InCall
  <2>2. \A i \in Slots : Claimed(i) /\ i # SlotOf(cur) => promises[i].armed
    BY <2>1
  <2> QED
    BY <2>1, <2>2 DEF Arms, Keeps, Same, SameClaim
<1>4. CASE PumpSettles
  <2>1. ~InCall' /\ ~InCall /\ Frees(pumpAt)
    BY <1>4, FreeTable DEF PumpSettles, NextSlot, InCall
  <2> QED
    BY <2>1 DEF Frees, Keeps, Same, SameClaim
<1>5. CASE SessionEnd
  <2>1. ~InCall'
    BY <1>5 DEF SessionEnd, InCall
  <2> QED
    BY <1>5, <2>1, EndTable
<1>6. CASE Claimless
  <2>1. (InCall' <=> InCall) /\ (InCall => cur' = cur)
    BY <1>6, ClaimlessCall
  <2>2. ClaimsKept
    BY <1>6, ClaimlessTable
  <2>3. InCall => SlotOf(cur) \in Slots
    BY RequestFacts DEF InCall, CallInProgress
  <2> QED
    BY <2>1, <2>2, <2>3 DEF ClaimsKept, SameClaim
<1> QED
  BY <1>1, <1>2, <1>3, <1>4, <1>5, <1>6, NextCases

-----------------------------------------------------------------------------
(* The count of claimed slots.                                             *)

ClaimedSlots == {i \in Slots : Claimed(i)}

LEMMA ClaimedFinite == IsFiniteSet(ClaimedSlots)
<1>1. IsFiniteSet(Slots)
  BY PromiseAssumption, FS_Interval DEF Slots
<1> QED
  BY <1>1, FS_Subset DEF ClaimedSlots

LEMMA OneLess ==
  ASSUME TypeOK, OpenCountExact, NEW i \in Slots, Claimed(i), Frees(i),
         promise_open' = promise_open - 1
  PROVE  OpenCountExact'
<1>1. ClaimedSlots' = ClaimedSlots \ {i}
  BY DEF ClaimedSlots, Claimed, Frees, Keeps, Same, SameClaim
<1>2. i \in ClaimedSlots
  BY DEF ClaimedSlots
<1>3. Cardinality(ClaimedSlots \ {i}) = Cardinality(ClaimedSlots) - 1
  BY <1>2, ClaimedFinite, FS_RemoveElement
<1> QED
  BY <1>1, <1>3 DEF OpenCountExact, ClaimedSlots

LEMMA OpenCountStep ==
  ASSUME TypeOK, Outcomes, CallInProgress, CallSlot, OpenCountExact, Next
  PROVE  OpenCountExact'
<1>1. CASE PromiseOpen
  <2>1. PICK i \in Slots : /\ ~Claimed(i)
                           /\ <<promise_counter, i>> \in Requests
                           /\ Claims(i, <<promise_counter, i>>)
    BY <1>1, OpenTable
  <2>2. <<promise_counter, i>> # NoRequest
    BY <2>1, RequestFacts
  <2>3. ClaimedSlots' = ClaimedSlots \cup {i}
    BY <2>1, <2>2 DEF ClaimedSlots, Claimed, Claims, Keeps, Same, SameClaim
  <2>4. i \notin ClaimedSlots
    BY <2>1 DEF ClaimedSlots
  <2>5. Cardinality(ClaimedSlots \cup {i}) = Cardinality(ClaimedSlots) + 1
    BY <2>4, ClaimedFinite, FS_AddElement
  <2> QED
    BY <1>1, <2>3, <2>5 DEF PromiseOpen, OpenCountExact, ClaimedSlots
<1>2. CASE PromiseAbandon \/ PromiseArmFails
  <2>1. /\ cur \in Requests /\ SlotOf(cur) \in Slots
        /\ promises[SlotOf(cur)].request = cur
    BY <1>2, RequestFacts
       DEF PromiseAbandon, PromiseArmFails, CallInProgress, CallSlot, InCall,
           Owns
  <2>2. Claimed(SlotOf(cur))
    BY <2>1, RequestFacts DEF Claimed
  <2>3. Frees(SlotOf(cur)) /\ promise_open' = promise_open - 1
    BY <1>2, FreeTable DEF PromiseAbandon, PromiseArmFails
  <2> QED
    BY <2>1, <2>2, <2>3, OneLess
<1>3. CASE PumpSettles
  <2>1. /\ pumpAt \in Slots /\ Claimed(pumpAt)
        /\ promise_open' = promise_open - 1
    BY <1>3 DEF PumpSettles, TypeOK
  <2>2. Frees(pumpAt)
    BY <1>3, FreeTable
  <2> QED
    BY <2>1, <2>2, OneLess
<1>4. CASE SessionEnd
  <2>1. promise_open' = 0
    BY <1>4, ClaimedCount DEF SessionEnd, OpenCountExact
  <2>2. ClaimedSlots' = {}
    BY <1>4, EndTable DEF ClaimedSlots, Claimed
  <2> QED
    BY <2>1, <2>2, FS_EmptySet DEF OpenCountExact, ClaimedSlots
<1>5. CASE PromiseArm
  <2>1. /\ SlotOf(cur) \in Slots
        /\ promise_open' = promise_open
    BY <1>5, RequestFacts DEF PromiseArm, CallInProgress
  <2>2. Arms(SlotOf(cur))
    BY <1>5, ArmTable
  <2>3. ClaimedSlots' = ClaimedSlots
    BY <2>2 DEF ClaimedSlots, Claimed, Arms, Keeps, Same, SameClaim
  <2> QED
    BY <2>1, <2>3 DEF OpenCountExact, ClaimedSlots
<1>6. CASE Claimless
  <2>1. ClaimedSlots' = ClaimedSlots
    BY <1>6, ClaimlessTable DEF ClaimedSlots, Claimed, ClaimsKept, SameClaim
  <2>2. promise_open' = promise_open
    BY <1>6
       DEF Claimless, Unheard, Posting, DriverStart, CancelToken, CancelAll,
           BeginPump, PumpSkips, EndTurn, Wake, SessionStart, Elapse, PostWake,
           Finish, PumpStops, StoreStatus, StoreDone, OwnerCompletes
  <2> QED
    BY <2>1, <2>2 DEF OpenCountExact, ClaimedSlots
<1> QED
  BY <1>1, <1>2, <1>3, <1>4, <1>5, <1>6, NextCases

-----------------------------------------------------------------------------
(* A number that was not handed out has no driver, nor has the number of a *)
(* call that has not come to start it.                                     *)

NoEarlyDriver ==
  /\ InCall => cur[1] < promise_counter
  /\ owner = "opened" => drv[cur] = "none"
  /\ \A r \in Requests : r[1] >= promise_counter => drv[r] = "none"

LEMMA DriverMoves ==
  ASSUME TypeOK, Next, ~DriverStart
  PROVE  \A r \in Requests :
           /\ drv[r] = "none" => drv'[r] = "none"
           /\ Posted(r) => Posted(r)'
<1> USE DEF Posted
<1>d. drv \in [Requests -> DrvSteps]
  BY DEF TypeOK
<1>1. CASE drv' = drv
  BY <1>1
<1>2. ASSUME NEW q \in Requests, NEW d \in {"self", "over", "published"},
             ~(drv[q] = "none"), drv' = [drv EXCEPT ![q] = d]
      PROVE  \A r \in Requests : /\ drv[r] = "none" => drv'[r] = "none"
                                 /\ Posted(r) => Posted(r)'
  BY ONLY <1>d, <1>2 DEF Posted
<1>3. ASSUME NEW q \in Requests, NEW d \in DrvSteps,
             drv[q] \in {"working", "checked"}, drv' = [drv EXCEPT ![q] = d]
      PROVE  \A r \in Requests : /\ drv[r] = "none" => drv'[r] = "none"
                                 /\ Posted(r) => Posted(r)'
  BY ONLY <1>d, <1>3 DEF Posted
<1>4. CASE SurfaceCall \/ CancelToken \/ CancelAll \/ SessionEnd \/ SessionStart
  BY <1>1, <1>4 DEF SurfaceCall, PromiseOpen, PromiseAbandon, PromiseArm,
                    PromiseArmFails, CancelToken, CancelAll, SessionEnd,
                    SessionStart
<1>5. CASE BeginPump \/ PumpSettles \/ PumpSkips \/ EndTurn \/ Wake
  BY <1>1, <1>5 DEF BeginPump, PumpSettles, PumpSkips, EndTurn, Wake
<1>6. CASE PumpStops
  BY <1>1, <1>2, <1>6, StopTable
<1>7. CASE \E i \in Slots : Elapse(i)
  BY <1>1, <1>7 DEF Elapse
<1>8. ASSUME NEW r \in Requests, Posting(r)
      PROVE  \A q \in Requests : /\ drv[q] = "none" => drv'[q] = "none"
                                 /\ Posted(q) => Posted(q)'
  <2>1. CASE StoreStatus(r)
    BY <1>3, <2>1 DEF StoreStatus, DrvSteps
  <2>2. CASE StoreDone(r)
    BY <1>2, <2>2 DEF StoreDone
  <2>3. CASE PostWake(r)
    BY <1>2, <2>3 DEF PostWake
  <2> QED
    BY <1>8, <2>1, <2>2, <2>3 DEF Posting
<1>9. ASSUME NEW r \in Requests, NEW s \in Statuses,
             Finish(r, s) \/ OwnerCompletes(r, s)
      PROVE  \A q \in Requests : /\ drv[q] = "none" => drv'[q] = "none"
                                 /\ Posted(q) => Posted(q)'
  <2>1. /\ drv[r] = "working"
        /\ \E d \in DrvSteps : drv' = [drv EXCEPT ![r] = d]
    BY <1>9 DEF Finish, OwnerCompletes, DrvSteps
  <2> QED
    BY <1>3, <2>1
<1> QED
  BY <1>4, <1>5, <1>6, <1>7, <1>8, <1>9 DEF Next, Turn, Pump

(* Once its driver has posted, a request stays posted.                     *)
LEMMA PostedStays ==
  ASSUME TypeOK, CallInProgress, NoEarlyDriver, Next,
         NEW r \in Requests, Posted(r)
  PROVE  Posted(r)'
<1>1. CASE DriverStart
  <2>1. r # cur /\ drv' = [drv EXCEPT ![cur] = "working"]
    BY <1>1 DEF DriverStart, NoEarlyDriver, Posted
  <2> QED
    BY <2>1 DEF TypeOK, Posted
<1> QED
  BY <1>1, DriverMoves

LEMMA NoEarlyDriverStep ==
  ASSUME TypeOK, CallInProgress, NoEarlyDriver, Next
  PROVE  NoEarlyDriver'
<1>r. /\ \A r \in Requests : r[1] \in Nat
      /\ promise_counter \in Nat
  BY PromiseAssumption DEF Requests, TypeOK
<1> USE DEF NoEarlyDriver
<1>1. CASE DriverStart
  <2>1. /\ cur \in Requests /\ cur[1] < promise_counter
        /\ owner' = "started" /\ UNCHANGED <<cur, promise_counter>>
        /\ drv' = [drv EXCEPT ![cur] = "working"]
    BY <1>1 DEF DriverStart, CallInProgress, InCall
  <2>2. \A r \in Requests : r[1] >= promise_counter => r # cur
    BY <1>r, <2>1
  <2> QED
    BY <2>1, <2>2 DEF InCall, TypeOK
<1>2. CASE PromiseOpen
  <2>1. PICK i \in Slots : /\ <<promise_counter, i>> \in Requests
                           /\ cur' = <<promise_counter, i>>
    BY <1>2, OpenTable
  <2>2. drv' = drv /\ promise_counter' = promise_counter + 1
    BY <1>2 DEF PromiseOpen
  <2>3. <<promise_counter, i>>[1] = promise_counter
    OBVIOUS
  <2>4. \A r \in Requests : r[1] >= promise_counter' => drv'[r] = "none"
    BY <1>r, <2>2
  <2>5. drv'[cur'] = "none" /\ cur'[1] < promise_counter'
    BY <1>r, <2>1, <2>2, <2>3
  <2> QED
    BY <2>4, <2>5
<1>3. CASE ~DriverStart /\ ~PromiseOpen
  <2>1. \A r \in Requests : drv[r] = "none" => drv'[r] = "none"
    BY <1>3, DriverMoves
  <2>2. promise_counter' = promise_counter
    BY <1>3
       DEF Next, SurfaceCall, Turn, Pump, Posting, PromiseAbandon, PromiseArm,
           PromiseArmFails, CancelToken, CancelAll, BeginPump, PumpSettles,
           PumpStops, PumpSkips, EndTurn, Wake, SessionEnd, SessionStart,
           Elapse, StoreStatus, StoreDone, PostWake, Finish, OwnerCompletes
  <2>3. /\ InCall' => InCall /\ cur' = cur
        /\ owner' = "opened" => owner = "opened"
    <3>1. CASE PromiseAbandon \/ PromiseArm \/ PromiseArmFails \/ SessionEnd
               \/ PumpSettles
      BY <3>1 DEF PromiseAbandon, PromiseArm, PromiseArmFails, SessionEnd,
                  PumpSettles, NextSlot, InCall
    <3>2. CASE Claimless
      <4>1. owner' = owner \/ owner' # "opened"
        BY <1>3, <3>2
           DEF Claimless, Unheard, Posting, CancelToken, CancelAll, BeginPump,
               PumpSkips, EndTurn, Wake, SessionStart, Elapse, PostWake, Finish,
               PumpStops, NextSlot, StoreStatus, StoreDone, OwnerCompletes
      <4> QED
        BY <3>2, <4>1, ClaimlessCall
    <3> QED
      BY <1>3, <3>1, <3>2, NextCases
  <2>4. owner = "opened" => cur \in Requests
    BY DEF CallInProgress
  <2> QED
    BY <2>1, <2>2, <2>3, <2>4 DEF InCall
<1> QED
  BY <1>1, <1>2, <1>3

-----------------------------------------------------------------------------
AfterPost == {"published", "self", "over"}

(* What is in a slot's done was put there by the driver it names.          *)

DoneByDriver ==
  \A i \in Slots : promises[i].done # NoRequest => Posted(promises[i].done)

LEMMA DoneByDriverStep ==
  ASSUME TypeOK, Outcomes, CallInProgress, NoEarlyDriver, DoneByDriver, Next
  PROVE  DoneByDriver'
<1> USE DEF DoneByDriver
<1>r. \A i \in Slots : promises[i].done \in Requests \cup {NoRequest}
  BY DEF TypeOK, SlotRecord
<1>q. \A r \in Requests : Posted(r) => drv'[r] \in AfterPost
  BY PostedStays DEF Posted, AfterPost
<1>p. \A i \in Slots : promises[i].done # NoRequest =>
                         drv'[promises[i].done] \in AfterPost
  BY <1>q, <1>r
<1>1. ASSUME \A i \in Slots : promises'[i].done = promises[i].done
      PROVE  DoneByDriver'
  BY <1>1, <1>p DEF Posted, AfterPost
<1>2. ASSUME NEW k \in Slots, NEW r \in Requests, NEW s, Tells(k, r, s),
             drv'[r] \in AfterPost
      PROVE  DoneByDriver'
  <2>1. \A i \in Slots : promises'[i].done \in {promises[i].done, r}
    BY <1>2 DEF Tells, Told, Keeps, Same
  <2> QED
    BY <1>2, <1>p, <2>1 DEF Posted, AfterPost
<1>3. CASE PromiseOpen
  <2>1. \A i \in Slots : promises'[i].done \in {promises[i].done, NoRequest}
    BY <1>3, OpenTable DEF Claims, Keeps, Same
  <2> QED
    BY <1>p, <2>1 DEF Posted, AfterPost
<1>4. CASE PromiseAbandon \/ PromiseArmFails \/ PumpSettles
  <2>1. \A i \in Slots : promises'[i].done = promises[i].done
    BY <1>4, FreeTable DEF Frees, Keeps, Same
  <2> QED
    BY <1>1, <2>1
<1>5. CASE PromiseArm
  <2>1. \A i \in Slots : promises'[i].done = promises[i].done
    BY <1>5, ArmTable DEF Arms, Keeps, Same
  <2> QED
    BY <1>1, <2>1
<1>6. CASE SessionEnd
  BY <1>1, <1>6, EndTable
<1>7. ASSUME Keeps({})
      PROVE  DoneByDriver'
  BY <1>1, <1>7 DEF Keeps, Same
<1>8. CASE PumpStops
  <2> DEFINE r == promises[pumpAt].request
  <2>1. r \in Requests /\ pumpAt \in Slots
    BY <1>8, StopTable DEF TypeOK
  <2>2. ASSUME NEW s \in Statuses, Tells(pumpAt, r, s),
               drv' = [drv EXCEPT ![r] = "self"]
        PROVE  DoneByDriver'
    <3>1. drv'[r] \in AfterPost
      BY <2>1, <2>2 DEF AfterPost, TypeOK
    <3> QED
      BY <1>2, <2>1, <2>2, <3>1
  <2> QED
    BY <1>7, <1>8, <2>2, StopTable
<1>9. ASSUME NEW r \in Requests, StoreStatus(r)
      PROVE  DoneByDriver'
  <2>1. Tells(SlotOf(r), promises[SlotOf(r)].done, outcome[r])
    BY <1>9, CompleteTable
  <2>2. \A i \in Slots : promises'[i].done = promises[i].done
    BY <2>1 DEF Tells, Told, Keeps, Same
  <2> QED
    BY <1>1, <2>2
<1>10. ASSUME NEW r \in Requests, StoreDone(r)
       PROVE  DoneByDriver'
  <2>1. Tells(SlotOf(r), r, promises[SlotOf(r)].status) /\ SlotOf(r) \in Slots
    BY <1>10, CompleteTable, RequestFacts
  <2>2. drv'[r] \in AfterPost
    BY <1>10 DEF StoreDone, AfterPost, TypeOK
  <2> QED
    BY <1>2, <2>1, <2>2
<1>11. ASSUME NEW r \in Requests, NEW s \in Statuses, OwnerCompletes(r, s)
       PROVE  DoneByDriver'
  <2>1. CASE Owns(r)
    <3>1. /\ Tells(SlotOf(r), r, s) /\ SlotOf(r) \in Slots
          /\ drv' = [drv EXCEPT ![r] = "self"]
      BY <1>11, <2>1, CompleteTable, RequestFacts
    <3>2. drv'[r] \in AfterPost
      BY <3>1 DEF AfterPost, TypeOK
    <3> QED
      BY <1>2, <3>1, <3>2
  <2>2. CASE ~Owns(r)
    BY <1>7, <1>11, <2>2, CompleteTable
  <2> QED
    BY <2>1, <2>2
<1>12. CASE Unheard
  BY <1>7, <1>12, UnheardTable
<1>13. ASSUME NEW r \in Requests, Posting(r)
       PROVE  DoneByDriver'
  BY <1>9, <1>10, <1>12, <1>13 DEF Posting, Unheard
<1> QED
  BY <1>3, <1>4, <1>5, <1>6, <1>8, <1>11, <1>12, <1>13, NextCases DEF Claimless

-----------------------------------------------------------------------------
(* A completion whose driver has nothing more to do has a wake pending, or *)
(* the pump is still to come to it.                                        *)

PumpAtRest == owner # "pump" => pumpAt = 0

Heard(i) == \/ wake
            \/ owner = "surfaces"
            \/ owner = "pump" /\ i >= pumpAt

WakeComes ==
  \A i \in Slots :
    /\ Claimed(i)
    /\ promises[i].done = promises[i].request
    /\ drv[promises[i].request] = "over"
    => Heard(i)

LEMMA PumpAtRestStep ==
  ASSUME TypeOK, PumpAtRest, Next
  PROVE  PumpAtRest'
<1> USE DEF PumpAtRest
<1>1. CASE PumpSettles \/ PumpStops \/ PumpSkips
  <2>1. NextSlot
    BY <1>1 DEF PumpSettles, PumpStops, PumpSkips
  <2> QED
    BY <2>1, PromiseAssumption DEF NextSlot
<1>2. CASE SurfaceCall \/ CancelToken \/ CancelAll \/ SessionEnd
           \/ SessionStart \/ BeginPump \/ EndTurn \/ Wake
  BY <1>2 DEF SurfaceCall, PromiseOpen, DriverStart, PromiseAbandon,
              PromiseArm, PromiseArmFails, CancelToken, CancelAll, SessionEnd,
              SessionStart, BeginPump, EndTurn, Wake
<1>3. CASE \/ \E i \in Slots : Elapse(i)
           \/ \E r \in Requests : Posting(r)
           \/ \E r \in Requests, s \in Statuses :
                Finish(r, s) \/ OwnerCompletes(r, s)
  BY <1>3 DEF Elapse, Posting, StoreStatus, StoreDone, PostWake, Finish,
              OwnerCompletes
<1> QED
  BY <1>1, <1>2, <1>3 DEF Next, Turn, Pump

(* Outside a turn's beginning what was heard of stays so: only the take    *)
(* clears a wake, and the pump leaves behind only the slot it is at.       *)
LEMMA HeardStays ==
  ASSUME TypeOK, Next, ~BeginPump, NEW i \in Slots, Heard(i),
         ~(Pump /\ i = pumpAt)
  PROVE  Heard(i)'
<1> USE DEF Heard
<1>1. CASE Pump
  <2>1. NextSlot /\ owner = "pump" /\ wake' = wake
    BY <1>1 DEF Pump, PumpSettles, PumpStops, PumpSkips
  <2>2. pumpAt \in 0 .. NSlots - 1 /\ i \in 0 .. NSlots - 1
    BY DEF TypeOK, Slots
  <2>3. NSlots \in Nat \ {0}
    BY PromiseAssumption
  <2>4. CASE pumpAt = NSlots - 1
    BY <1>1, <2>1, <2>2, <2>3, <2>4 DEF NextSlot
  <2>5. CASE pumpAt # NSlots - 1
    <3>1. pumpAt' = pumpAt + 1 /\ owner' = "pump"
      BY <2>1, <2>2, <2>3, <2>5 DEF NextSlot
    <3> QED
      BY <1>1, <2>1, <2>2, <3>1
  <2> QED
    BY <2>4, <2>5
<1>2. CASE SurfaceCall \/ CancelToken \/ CancelAll \/ SessionEnd
           \/ SessionStart \/ EndTurn \/ Wake
  BY <1>2 DEF SurfaceCall, PromiseOpen, DriverStart, PromiseAbandon,
              PromiseArm, PromiseArmFails, CancelToken, CancelAll, SessionEnd,
              SessionStart, EndTurn, Wake
<1>3. CASE \/ \E k \in Slots : Elapse(k)
           \/ \E r \in Requests : Posting(r)
           \/ \E r \in Requests, s \in Statuses :
                Finish(r, s) \/ OwnerCompletes(r, s)
  BY <1>3 DEF Elapse, Posting, StoreStatus, StoreDone, PostWake, Finish,
              OwnerCompletes
<1> QED
  BY <1>1, <1>2, <1>3 DEF Next, Turn

(* A driver that is over without having posted never owned the slot again. *)
LEMMA OverWasOver ==
  ASSUME TypeOK, CallInProgress, NoEarlyDriver, CallSlot, DoneByDriver, Next,
         NEW i \in Slots, Claimed(i), ~(\E r \in Requests : PostWake(r)),
         drv'[promises[i].request] = "over"
  PROVE  drv[promises[i].request] = "over"
<1> DEFINE r == promises[i].request
<1>1. r \in Requests /\ SlotOf(r) = i /\ Owns(r)
  BY DEF TypeOK, SlotRecord, Claimed, CallSlot, Owns
<1> HIDE DEF r
<1>d. drv \in [Requests -> DrvSteps]
  BY DEF TypeOK
<1>2. ASSUME NEW q \in Requests, NEW d, drv' = [drv EXCEPT ![q] = d],
             d # "over" \/ q # r, drv'[r] = "over"
      PROVE  drv[r] = "over"
  BY ONLY <1>d, <1>1, <1>2
<1>3. CASE drv' = drv
  BY <1>3 DEF r
<1>4. CASE DriverStart
  BY <1>2, <1>4 DEF DriverStart, CallInProgress, r
<1>5. CASE PumpStops
  BY <1>2, <1>3, <1>5, StopTable DEF r
<1>6. ASSUME NEW q \in Requests, StoreStatus(q) \/ StoreDone(q)
      PROVE  drv[r] = "over"
  BY <1>2, <1>6 DEF StoreStatus, StoreDone, r
<1>7. ASSUME NEW q \in Requests, NEW s \in Statuses,
             Finish(q, s) \/ OwnerCompletes(q, s)
      PROVE  drv[r] = "over"
  <2>1. \E d : /\ drv' = [drv EXCEPT ![q] = d]
               /\ d # "over" \/ ~Owns(q)
    BY <1>7 DEF Finish, OwnerCompletes
  <2> QED
    BY <1>1, <1>2, <2>1 DEF r
<1>8. CASE drv' # drv
  BY <1>4, <1>5, <1>6, <1>7, <1>8
     DEF Next, SurfaceCall, Turn, Pump, Posting, PromiseOpen, PromiseAbandon,
         PromiseArm, PromiseArmFails, CancelToken, CancelAll, BeginPump,
         PumpSettles, PumpSkips, EndTurn, Wake, SessionEnd, SessionStart,
         Elapse, r
<1> QED
  BY <1>3, <1>8 DEF r

(* A slot that is complete after a step, with its driver over, was so      *)
(* before it, or the step sent the wake.                                   *)
CompleteSlot(i) == Claimed(i) /\ promises[i].done = promises[i].request

LEMMA CompleteWasComplete ==
  ASSUME TypeOK, Outcomes, CallInProgress, CallSlot, Next,
         NEW i \in Slots, CompleteSlot(i)', drv'[promises'[i].request] = "over"
  PROVE  CompleteSlot(i) /\ promises'[i].request = promises[i].request
<1> USE DEF CompleteSlot, Claimed
<1>d. drv \in [Requests -> DrvSteps]
  BY DEF TypeOK
<1>1. ASSUME Same(promises[i], promises'[i])
      PROVE  CompleteSlot(i) /\ promises'[i].request = promises[i].request
  BY <1>1 DEF Same, SameClaim
<1>2. ASSUME NEW k, NEW r, NEW s, Tells(k, r, s), k = i => drv'[r] # "over"
      PROVE  CompleteSlot(i) /\ promises'[i].request = promises[i].request
  BY <1>1, <1>2 DEF Tells, Told, Keeps
<1>3. CASE PromiseOpen
  <2>1. PICK k \in Slots : Claims(k, <<promise_counter, k>>)
    BY <1>3, OpenTable
  <2> QED
    BY <1>1, <2>1 DEF Claims, Keeps
<1>4. CASE PromiseAbandon \/ PromiseArmFails \/ PumpSettles
  BY <1>1, <1>4, FreeTable DEF Frees, Keeps
<1>5. CASE PromiseArm
  BY <1>1, <1>5, ArmTable DEF Arms, Keeps
<1>6. CASE SessionEnd
  BY <1>6, EndTable
<1>7. ASSUME Keeps({})
      PROVE  CompleteSlot(i) /\ promises'[i].request = promises[i].request
  BY <1>1, <1>7 DEF Keeps
<1>8. CASE PumpStops
  <2>1. ASSUME NEW s, Tells(pumpAt, promises[pumpAt].request, s),
               drv' = [drv EXCEPT ![promises[pumpAt].request] = "self"],
               promises[pumpAt].request \in Requests
        PROVE  CompleteSlot(i) /\ promises'[i].request = promises[i].request
    <3>1. drv'[promises[pumpAt].request] # "over"
      BY ONLY <1>d, <2>1
    <3> QED
      BY <1>2, <2>1, <3>1
  <2> QED
    BY <1>7, <1>8, <2>1, StopTable
<1>9. ASSUME NEW r \in Requests, StoreStatus(r)
      PROVE  CompleteSlot(i) /\ promises'[i].request = promises[i].request
  <2>1. Tells(SlotOf(r), promises[SlotOf(r)].done, outcome[r])
    BY <1>9, CompleteTable
  <2> QED
    BY <1>1, <2>1 DEF Tells, Told, Keeps, SameClaim
<1>10. ASSUME NEW r \in Requests, StoreDone(r)
       PROVE  CompleteSlot(i) /\ promises'[i].request = promises[i].request
  <2>1. Tells(SlotOf(r), r, promises[SlotOf(r)].status)
    BY <1>10, CompleteTable
  <2>2. drv'[r] = "published"
    BY <1>10 DEF StoreDone, TypeOK
  <2> QED
    BY <1>2, <2>1, <2>2
<1>11. ASSUME NEW r \in Requests, NEW s \in Statuses, OwnerCompletes(r, s)
       PROVE  CompleteSlot(i) /\ promises'[i].request = promises[i].request
  <2>1. CASE Owns(r)
    <3>1. Tells(SlotOf(r), r, s) /\ drv' = [drv EXCEPT ![r] = "self"]
      BY <1>11, <2>1, CompleteTable
    <3>2. drv'[r] # "over"
      BY <1>d, <3>1
    <3> QED
      BY <1>2, <3>1, <3>2
  <2>2. CASE ~Owns(r)
    BY <1>7, <1>11, <2>2, CompleteTable
  <2> QED
    BY <2>1, <2>2
<1>12. CASE Unheard
  BY <1>7, <1>12, UnheardTable
<1> QED
  BY <1>3, <1>4, <1>5, <1>6, <1>8, <1>9, <1>10, <1>11, <1>12, NextCases
     DEF Claimless, Posting, Unheard

LEMMA WakeComesStep ==
  ASSUME Inv, CallSlot, OpenCountExact, NoEarlyDriver, DoneByDriver,
         PumpAtRest, WakeComes, Next
  PROVE  WakeComes'
<1> USE DEF Inv
<1> SUFFICES ASSUME NEW i \in Slots, CompleteSlot(i)',
                    drv'[promises'[i].request] = "over"
             PROVE  Heard(i)'
  BY DEF WakeComes, CompleteSlot, Claimed, Heard
<1>1. CompleteSlot(i) /\ promises'[i].request = promises[i].request
  BY CompleteWasComplete
<1>2. Claimed(i) /\ promises[i].done = promises[i].request
  BY <1>1 DEF CompleteSlot
<1>3. CASE \E r \in Requests : PostWake(r)
  <2>1. wake' = TRUE
    BY ONLY <1>3 DEF PostWake
  <2> QED
    BY ONLY <2>1 DEF Heard
<1>4. CASE ~(\E r \in Requests : PostWake(r))
  <2>1. drv[promises[i].request] = "over"
    BY <1>1, <1>2, <1>4, OverWasOver
  <2>2. Heard(i)
    BY <1>2, <2>1 DEF WakeComes
  <2>3. CASE BeginPump
    <3>1. promises[i].armed
      BY <1>2, <2>3 DEF CallSlot, BeginPump, InCall
    <3>2. alive
      BY <1>2, <3>1 DEF RealmSafe, Armed
    <3>3. promise_open # 0
      <4>1. i \in ClaimedSlots
        BY <1>2 DEF ClaimedSlots
      <4>2. Cardinality(ClaimedSlots) # 0
        BY <4>1, ClaimedFinite, FS_EmptySet
      <4> QED
        BY <4>2 DEF OpenCountExact, ClaimedSlots
    <3>4. owner' = "pump" /\ pumpAt' = 0
      BY <2>3, <3>2, <3>3 DEF BeginPump, PumpAtRest
    <3>5. i >= 0
      BY PromiseAssumption DEF Slots
    <3> QED
      BY <3>4, <3>5 DEF Heard
  <2>4. CASE Pump /\ i = pumpAt
    <3>1. promises[i].armed
      BY <1>2, <2>4
         DEF CallSlot, InCall, Pump, PumpSettles, PumpStops, PumpSkips
    <3>2. PumpSettles
      BY <1>2, <2>4, <3>1 DEF Pump, PumpStops, PumpSkips
    <3>3. promises'[i].request = NoRequest
      BY <2>4, <3>2, FreeTable DEF Frees
    <3> QED
      BY <3>3 DEF CompleteSlot, Claimed
  <2> QED
    BY <2>2, <2>3, <2>4, HeardStays
<1> QED
  BY <1>3, <1>4

-----------------------------------------------------------------------------
(* The inductive invariant and the two theorems.                           *)

WakeInv == /\ CallSlot /\ OpenCountExact
           /\ NoEarlyDriver /\ DoneByDriver
           /\ PumpAtRest /\ WakeComes

LEMMA WakeInvInit == Init => WakeInv
<1> SUFFICES ASSUME Init
             PROVE  WakeInv
  OBVIOUS
<1>1. \A i \in Slots : /\ promises[i].request = NoRequest
                       /\ promises[i].done = NoRequest
  BY DEF Init, FreeSlot
<1>2. ~InCall /\ owner = "run" /\ pumpAt = 0
  BY DEF Init, InCall
<1>4. \A r \in Requests : drv[r] = "none"
  BY DEF Init
<1>3. OpenCountExact
  <2>1. {i \in Slots : Claimed(i)} = {}
    BY <1>1 DEF Claimed
  <2> QED
    BY <2>1, FS_EmptySet DEF Init, OpenCountExact
<1> QED
  BY <1>1, <1>2, <1>3, <1>4
     DEF WakeInv, CallSlot, Claimed, NoEarlyDriver, DoneByDriver, PumpAtRest,
         WakeComes

LEMMA WakeInvStep == Inv /\ WakeInv /\ [Next]_vars => WakeInv'
<1> SUFFICES ASSUME Inv, WakeInv, [Next]_vars
             PROVE  WakeInv'
  OBVIOUS
<1>1. CASE Next
  <2>1. CallSlot' /\ OpenCountExact'
    BY <1>1, CallSlotStep, OpenCountStep DEF Inv, WakeInv
  <2>2. NoEarlyDriver' /\ DoneByDriver'
    BY <1>1, NoEarlyDriverStep, DoneByDriverStep DEF Inv, WakeInv
  <2>3. PumpAtRest'
    BY <1>1, PumpAtRestStep DEF Inv, WakeInv
  <2>4. WakeComes'
    BY <1>1, WakeComesStep DEF WakeInv
  <2> QED
    BY <2>1, <2>2, <2>3, <2>4 DEF WakeInv
<1>2. CASE UNCHANGED vars
  BY <1>2 DEF vars, WakeInv, CallSlot, InCall, Owns, Claimed, OpenCountExact,
              NoEarlyDriver, DoneByDriver, Posted, PumpAtRest, WakeComes, Heard
<1> QED
  BY <1>1, <1>2

LEMMA WakeInvAlways == Spec => [](Inv /\ WakeInv)
<1>1. Init => Inv /\ WakeInv
  BY InvInit, WakeInvInit
<1>2. Inv /\ WakeInv /\ [Next]_vars => (Inv /\ WakeInv)'
  BY InvStep, WakeInvStep
<1> QED
  BY <1>1, <1>2, PTL DEF Spec

(* promise_open counts exactly the slots in flight, so that the pump and   *)
(* the suspension may skip the table when it is zero: pocket_api_pump()    *)
(* never passes over a completion for it.                                  *)
THEOREM OpenCountCorrect == Spec => []OpenCountExact
<1>1. WakeInv => OpenCountExact
  BY DEF WakeInv
<1> QED
  BY <1>1, WakeInvAlways, PTL

(* The owner never sleeps a frame on a completion another task published:  *)
(* vm_wake_post() after the record, one take per turn and a pump over the  *)
(* whole table after it are enough, in every interleaving with drivers.    *)
THEOREM NoLostWakeTheorem == Spec => []NoLostWake
<1>1. Inv /\ WakeInv => NoLostWake
  <2> SUFFICES ASSUME Inv, WakeInv, owner = "wait", ~wake,
                      NEW i \in Slots, Armed(i),
                      promises[i].done = promises[i].request
               PROVE  drv[promises[i].request] \in {"published", "self"}
    BY DEF NoLostWake
  <2>1. Claimed(i) /\ promises[i].done # NoRequest
    BY DEF Armed, Claimed
  <2>2. Posted(promises[i].request)
    BY <2>1 DEF WakeInv, DoneByDriver
  <2>3. drv[promises[i].request] # "over"
    BY <2>1 DEF WakeInv, WakeComes, Heard
  <2> QED
    BY <2>2, <2>3 DEF Posted
<1> QED
  BY <1>1, WakeInvAlways, PTL
=============================================================================
