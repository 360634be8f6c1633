--------------------------- MODULE PocketPromises ---------------------------
(***************************************************************************)
(* The asynchronous completion table of pocket_api.c and the wake of       *)
(* vm_wake.c.  A surface (audio.tone, net.http, io.ir ...) running on the  *)
(* owner task claims a slot, starts a driver on another task or ISR, and   *)
(* arms a Promise; the driver posts a status without a lock; the owner's   *)
(* pump turns the post into a settlement.                                  *)
(*                                                                         *)
(* Interleaving: the owner task is sequential, so one of its handlers is   *)
(* one action, but the pump visits the slots one by one and a driver's     *)
(* pocket_api_complete() is four steps (look the slot up, store the        *)
(* status, store the number, post the wake), because drivers run on the    *)
(* other core and in interrupts.                                           *)
(***************************************************************************)
EXTENDS Integers, FiniteSets

CONSTANTS
  NSlots,        \* POCKET_MAX_PROMISES
  MaxRequests,   \* bound: how many requests promise_counter hands out
  MaxSessions,   \* bound: how many guest sessions a run contains
  Statuses,      \* what a driver may post; POCKET_STATUS_OK is one of them
  OK,            \* POCKET_STATUS_OK
  Overtake       \* may a slot be released and reused while a driver sits
                 \* between its slot lookup and its last store?

ASSUME PromiseAssumption ==
  /\ NSlots \in Nat \ {0}
  /\ MaxRequests \in Nat
  /\ MaxSessions \in Nat \ {0}
  /\ OK \in Statuses
  /\ "none" \notin Statuses
  /\ Overtake \in BOOLEAN

Slots == 0 .. NSlots - 1

(* A request number is the slot index in the low bits and the counter      *)
(* above; 0 marks a free slot and "no completion".                         *)
Requests  == (1 .. MaxRequests) \X Slots
NoRequest == <<0, 0>>
SlotOf(r) == r[2]

Codes == {"none", "CANCELLED", "TIMEOUT", "CLOSED"}

VARIABLES
  promises,         \* the table, one record per slot
  promise_counter,  \* the next counter value, never reset
  promise_open,     \* number of claimed slots
  session,          \* the realm now installed (the identity of ctx)
  alive,            \* does that realm still exist?
  js,               \* the Promise object the guest holds for a request
  owner,            \* where the owner task is in its turn
  cur,              \* the request of the surface call being executed
  pumpAt,           \* the slot pocket_api_pump() visits next
  wake,             \* is a task notification pending? (a take clears all)
  drv,              \* where the driver of a request is
  outcome,          \* the status that driver's work ended with
  result,           \* the status a settled Promise was settled with
  asked             \* requests whose driver was asked to stop

vars == <<promises, promise_counter, promise_open, session, alive, js, owner,
          cur, pumpAt, wake, drv, outcome, result, asked>>

FreeSlot == [request |-> NoRequest, done |-> NoRequest, status |-> OK,
             armed |-> FALSE, ctx |-> 0, stop |-> "none",
             token |-> "none", late |-> FALSE]

SlotRecord == [request : Requests \cup {NoRequest},
               done    : Requests \cup {NoRequest},
               status  : Statuses,
               armed   : BOOLEAN,
               ctx     : 0 .. MaxSessions,
               stop    : Codes,
               token   : {"none", "given", "cancelled"},
               late    : BOOLEAN]

JsStates   == {"none", "pending", "settled", "dropped"}
OwnerSteps == {"surfaces", "pump", "run", "opened", "started", "wait"}
DrvSteps   == {"none", "working", "checked", "stored", "published", "self",
               "over"}

TypeOK ==
  /\ promises \in [Slots -> SlotRecord]
  /\ promise_counter \in 1 .. (MaxRequests + 1)
  /\ promise_open \in Int
  /\ session \in 1 .. MaxSessions
  /\ alive \in BOOLEAN
  /\ js \in [Requests -> JsStates]
  /\ owner \in OwnerSteps
  /\ cur \in Requests \cup {NoRequest}
  /\ pumpAt \in Slots
  /\ wake \in BOOLEAN
  /\ drv \in [Requests -> DrvSteps]
  /\ outcome \in [Requests -> Statuses \cup {"none"}]
  /\ result \in [Requests -> Statuses \cup {"none"}]
  /\ asked \in SUBSET Requests

Init ==
  /\ promises = [i \in Slots |-> FreeSlot]
  /\ promise_counter = 1
  /\ promise_open = 0
  /\ session = 1
  /\ alive = TRUE
  /\ js = [r \in Requests |-> "none"]
  /\ owner = "run"
  /\ cur = NoRequest
  /\ pumpAt = 0
  /\ wake = FALSE
  /\ drv = [r \in Requests |-> "none"]
  /\ outcome = [r \in Requests |-> "none"]
  /\ result = [r \in Requests |-> "none"]
  /\ asked = {}

-----------------------------------------------------------------------------
(* Helpers.                                                                *)

Claimed(i) == promises[i].request # NoRequest

(* promise_of(): the slot a request number owns, if it still owns it.      *)
Owns(r) == promises[SlotOf(r)].request = r

(* promise_release() of one slot: the resolvers go and the number is       *)
(* cleared.  done and status keep what was last stored in them.            *)
Released(p) == [p EXCEPT !.request = NoRequest, !.armed = FALSE, !.ctx = 0,
                         !.stop = "none", !.token = "none"]

(* promise_stop(): remember the code once.                                 *)
Stopped(p, code) == IF p.stop = "none" THEN [p EXCEPT !.stop = code] ELSE p

(* A driver that has looked its slot up and has a store still to make.     *)
MidComplete(r) == drv[r] \in {"checked", "stored"}

(* The slots of a set may be given back: either overtaking a driver in the *)
(* middle of its stores is possible, or no driver is there.                *)
MayRelease(S) ==
  Overtake \/ \A i \in S : Claimed(i) => ~MidComplete(promises[i].request)

-----------------------------------------------------------------------------
(* The owner task: surface calls made by the guest.                        *)

(* pocket_api_promise_open(): the first free slot, a fresh number.         *)
PromiseOpen ==
  /\ owner = "run" /\ alive
  /\ promise_counter <= MaxRequests
  /\ \E i \in Slots :
       /\ ~Claimed(i)
       /\ \A k \in Slots : k < i => Claimed(k)
       /\ promises' = [promises EXCEPT ![i] =
                         [FreeSlot EXCEPT !.request = <<promise_counter, i>>]]
       /\ cur' = <<promise_counter, i>>
  /\ promise_counter' = promise_counter + 1
  /\ promise_open' = promise_open + 1
  /\ owner' = "opened"
  /\ UNCHANGED <<session, alive, js, pumpAt, wake, drv, outcome, result, asked>>

(* The surface starts its driver with the number in hand (sound_tone(),    *)
(* wifi_time_link_start(), rmt_transmit() ...).                            *)
DriverStart ==
  /\ owner = "opened"
  /\ drv' = [drv EXCEPT ![cur] = "working"]
  /\ owner' = "started"
  /\ UNCHANGED <<promises, promise_counter, promise_open, session, alive, js,
                 cur, pumpAt, wake, outcome, result, asked>>

(* Mutant: the slot is freed by hand and promise_open forgotten.           *)
AbandonKeepsCount ==
  /\ owner = "opened"
  /\ MayRelease({SlotOf(cur)})
  /\ promises' = [promises EXCEPT ![SlotOf(cur)] = Released(@)]
  /\ owner' = "run"
  /\ cur' = NoRequest
  /\ UNCHANGED <<promise_counter, promise_open, session, alive, js, pumpAt,
                 wake, drv, outcome, result, asked>>

(* The driver refused to start: pocket_api_promise_abandon().              *)
PromiseAbandon ==
  /\ owner = "opened"
  /\ MayRelease({SlotOf(cur)})
  /\ promises' = [promises EXCEPT ![SlotOf(cur)] = Released(@)]
  /\ promise_open' = promise_open - 1
  /\ owner' = "run"
  /\ cur' = NoRequest
  /\ UNCHANGED <<promise_counter, session, alive, js, pumpAt, wake, drv,
                 outcome, result, asked>>

(* pocket_api_promise_arm(), with or without a cancel token.               *)
PromiseArm ==
  /\ owner = "started"
  /\ \E t \in {"none", "given"} :
       promises' = [promises EXCEPT ![SlotOf(cur)] =
                      [@ EXCEPT !.armed = TRUE, !.ctx = session, !.token = t]]
  /\ js' = [js EXCEPT ![cur] = "pending"]
  /\ owner' = "run"
  /\ cur' = NoRequest
  /\ UNCHANGED <<promise_counter, promise_open, session, alive, pumpAt, wake,
                 drv, outcome, result, asked>>

(* The guest heap ran out while the Promise was built: the slot goes back, *)
(* the caller stops the driver it started.                                 *)
PromiseArmFails ==
  /\ owner = "started"
  /\ MayRelease({SlotOf(cur)})
  /\ promises' = [promises EXCEPT ![SlotOf(cur)] = Released(@)]
  /\ promise_open' = promise_open - 1
  /\ asked' = asked \cup {cur}
  /\ owner' = "run"
  /\ cur' = NoRequest
  /\ UNCHANGED <<promise_counter, session, alive, js, pumpAt, wake, drv,
                 outcome, result>>

(* source.cancel() of the token an armed call was given.                   *)
CancelToken ==
  /\ owner = "run" /\ alive
  /\ \E i \in Slots :
       /\ promises[i].token = "given"
       /\ promises' = [promises EXCEPT ![i] =
                         [@ EXCEPT !.token = "cancelled"]]
  /\ UNCHANGED <<promise_counter, promise_open, session, alive, js, owner, cur,
                 pumpAt, wake, drv, outcome, result, asked>>

(* pocket_api_cancel_all(): a resident app is being suspended.             *)
CancelAll ==
  /\ owner = "run" /\ alive
  /\ promises' = [i \in Slots |->
                    IF Claimed(i) /\ promises[i].armed
                    THEN Stopped(promises[i], "CANCELLED") ELSE promises[i]]
  /\ asked' = asked \cup {promises[i].request : i \in
                 {k \in Slots : /\ Claimed(k) /\ promises[k].armed
                                /\ promises[k].stop = "none"}}
  /\ UNCHANGED <<promise_counter, promise_open, session, alive, js, owner, cur,
                 pumpAt, wake, drv, outcome, result>>

(* A surface whose work is done on the owner task itself (elapsed sleeps,  *)
(* UART bytes, link and scan results, a picker) calls pocket_api_complete()*)
(* between two pumps; vm_wake_post() sends nothing from this task.         *)
OwnerCompletes(r, s) ==
  /\ owner \in {"surfaces", "run"} /\ alive
  /\ drv[r] = "working"
  /\ outcome' = [outcome EXCEPT ![r] = s]
  /\ IF Owns(r)
     THEN /\ promises' = [promises EXCEPT ![SlotOf(r)] =
                            [@ EXCEPT !.status = s, !.done = r]]
          /\ drv' = [drv EXCEPT ![r] = "self"]
     ELSE /\ drv' = [drv EXCEPT ![r] = "over"]
          /\ UNCHANGED promises
  /\ UNCHANGED <<promise_counter, promise_open, session, alive, js, owner, cur,
                 pumpAt, wake, result, asked>>

-----------------------------------------------------------------------------
(* The owner task: its turn.                                               *)

(* esp_timer_get_time() passes an armed slot's deadline.                   *)
Elapse(i) ==
  /\ Claimed(i) /\ promises[i].armed /\ ~promises[i].late
  /\ promises' = [promises EXCEPT ![i] = [@ EXCEPT !.late = TRUE]]
  /\ UNCHANGED <<promise_counter, promise_open, session, alive, js, owner, cur,
                 pumpAt, wake, drv, outcome, result, asked>>

(* run_pumps() reaches pocket_api_pump(), which does not look at the table *)
(* when nothing is open.                                                   *)
BeginPump ==
  /\ owner = "surfaces"
  /\ owner' = IF alive /\ promise_open # 0 THEN "pump" ELSE "run"
  /\ UNCHANGED <<promises, promise_counter, promise_open, session, alive, js,
                 cur, pumpAt, wake, drv, outcome, result, asked>>

(* Mutant: the loop runs one slot too far.                                 *)
NextSlotOffByOne ==
  /\ pumpAt' = IF pumpAt = NSlots THEN 0 ELSE pumpAt + 1
  /\ owner' = IF pumpAt = NSlots THEN "run" ELSE "pump"

(* The loop of pocket_api_pump() goes on to the next slot.                 *)
NextSlot ==
  /\ pumpAt' = (pumpAt + 1) % NSlots
  /\ owner' = IF pumpAt = NSlots - 1 THEN "run" ELSE "pump"

(* An armed slot whose driver has posted is settled and freed.             *)
PumpSettles ==
  LET p == promises[pumpAt] IN
  /\ owner = "pump"
  /\ Claimed(pumpAt) /\ p.armed /\ p.done = p.request
  /\ MayRelease({pumpAt})
  /\ js' = [js EXCEPT ![p.request] = "settled"]
  /\ result' = [result EXCEPT ![p.request] = p.status]
  /\ promises' = [promises EXCEPT ![pumpAt] = Released(@)]
  /\ promise_open' = promise_open - 1
  /\ NextSlot
  /\ UNCHANGED <<promise_counter, session, alive, cur, wake, drv, outcome,
                 asked>>

(* Mutant: deadlines are left to the drivers.                              *)
StopCodeNoDeadline(p) == IF p.token = "cancelled" THEN "CANCELLED" ELSE "none"

(* Why the pump stops an operation it finds unfinished, if it does.        *)
StopCode(p) == IF p.token = "cancelled" THEN "CANCELLED"
               ELSE IF p.late THEN "TIMEOUT" ELSE "none"

(* An armed slot that has not finished: its driver is asked to stop, once. *)
(* A stop hook may itself be the one that posts (sleep_stop).              *)
PumpStops ==
  LET p == promises[pumpAt]  r == p.request IN
  /\ owner = "pump"
  /\ Claimed(pumpAt) /\ p.armed /\ p.done # r
  /\ p.stop = "none" /\ StopCode(p) # "none"
  /\ asked' = asked \cup {r}
  /\ \/ /\ promises' = [promises EXCEPT ![pumpAt] = Stopped(p, StopCode(p))]
        /\ UNCHANGED <<drv, outcome>>
     \/ \E s \in Statuses :
          /\ drv[r] = "working"
          /\ promises' = [promises EXCEPT ![pumpAt] =
               [@ EXCEPT !.stop = StopCode(p), !.status = s, !.done = r]]
          /\ drv' = [drv EXCEPT ![r] = "self"]
          /\ outcome' = [outcome EXCEPT ![r] = s]
  /\ NextSlot
  /\ UNCHANGED <<promise_counter, promise_open, session, alive, js, cur, wake,
                 result>>

(* A free or unarmed slot, one already stopping, one with time left.       *)
PumpSkips ==
  LET p == promises[pumpAt] IN
  /\ owner = "pump"
  /\ Claimed(pumpAt) /\ p.armed
       => p.done # p.request /\ (p.stop # "none" \/ StopCode(p) = "none")
  /\ NextSlot
  /\ UNCHANGED <<promises, promise_counter, promise_open, session, alive, js,
                 cur, wake, drv, outcome, result, asked>>

(* The turn is over: vm_wake_wait().                                       *)
EndTurn ==
  /\ owner = "run"
  /\ owner' = "wait"
  /\ UNCHANGED <<promises, promise_counter, promise_open, session, alive, js,
                 cur, pumpAt, wake, drv, outcome, result, asked>>

(* ulTaskNotifyTake(pdTRUE, frame period): a wake or the frame's end.      *)
Wake ==
  /\ owner = "wait"
  /\ wake' = FALSE
  /\ owner' = "surfaces"
  /\ UNCHANGED <<promises, promise_counter, promise_open, session, alive, js,
                 cur, pumpAt, drv, outcome, result, asked>>

(* Mutant: the end of a session asks the drivers to stop and waits for     *)
(* them, instead of freeing the slots.                                     *)
SessionEndOnlyAsks ==
  /\ owner = "run" /\ alive
  /\ asked' = asked \cup {promises[i].request : i \in
                            {k \in Slots : Claimed(k) /\ promises[k].armed}}
  /\ js' = [r \in Requests |-> IF js[r] = "pending" THEN "dropped" ELSE js[r]]
  /\ alive' = FALSE
  /\ UNCHANGED <<promises, promise_counter, promise_open, session, owner, cur,
                 pumpAt, wake, drv, outcome, result>>

(* pocket_api_reset(), called by app_stop() with the guest still alive:    *)
(* every driver is asked to stop and every slot is freed unsettled.        *)
SessionEnd ==
  /\ owner = "run" /\ alive
  /\ MayRelease(Slots)
  /\ asked' = asked \cup {promises[i].request : i \in
                            {k \in Slots : Claimed(k) /\ promises[k].armed}}
  /\ promises' = [i \in Slots |-> IF Claimed(i) THEN Released(promises[i])
                                                ELSE promises[i]]
  /\ promise_open' = promise_open - Cardinality({i \in Slots : Claimed(i)})
  /\ js' = [r \in Requests |-> IF js[r] = "pending" THEN "dropped" ELSE js[r]]
  /\ alive' = FALSE
  /\ UNCHANGED <<promise_counter, session, owner, cur, pumpAt, wake, drv,
                 outcome, result>>

(* Mutant: the counter is "tidied" into being reset per session.           *)
SessionStartResetsCounter ==
  /\ owner = "run" /\ ~alive /\ session < MaxSessions
  /\ session' = session + 1
  /\ alive' = TRUE
  /\ promise_counter' = 1
  /\ UNCHANGED <<promises, promise_open, js, owner, cur, pumpAt, wake, drv,
                 outcome, result, asked>>

(* pocket_api_install(): the next guest, in a new realm.                   *)
SessionStart ==
  /\ owner = "run" /\ ~alive /\ session < MaxSessions
  /\ session' = session + 1
  /\ alive' = TRUE
  /\ UNCHANGED <<promises, promise_counter, promise_open, js, owner, cur,
                 pumpAt, wake, drv, outcome, result, asked>>

-----------------------------------------------------------------------------
(* A driver on another task or in an interrupt: pocket_api_complete().     *)

(* Mutant: the slot index is trusted without comparing the number.         *)
FinishUnchecked(r, s) ==
  /\ drv[r] = "working"
  /\ outcome' = [outcome EXCEPT ![r] = s]
  /\ drv' = [drv EXCEPT ![r] = "checked"]
  /\ UNCHANGED <<promises, promise_counter, promise_open, session, alive, js,
                 owner, cur, pumpAt, wake, result, asked>>

(* The work ends with status s and promise_of() looks the number up.       *)
Finish(r, s) ==
  /\ drv[r] = "working"
  /\ outcome' = [outcome EXCEPT ![r] = s]
  /\ drv' = [drv EXCEPT ![r] = IF Owns(r) THEN "checked" ELSE "over"]
  /\ UNCHANGED <<promises, promise_counter, promise_open, session, alive, js,
                 owner, cur, pumpAt, wake, result, asked>>

(* Mutant: the number is stored before the status it vouches for.          *)
StoreDoneFirst(r) ==
  /\ drv[r] = "checked"
  /\ promises' = [promises EXCEPT ![SlotOf(r)] = [@ EXCEPT !.done = r]]
  /\ drv' = [drv EXCEPT ![r] = "stored"]
  /\ UNCHANGED <<promise_counter, promise_open, session, alive, js, owner, cur,
                 pumpAt, wake, outcome, result, asked>>

StoreStatus(r) ==
  /\ drv[r] = "checked"
  /\ promises' = [promises EXCEPT ![SlotOf(r)] =
                   [@ EXCEPT !.status = outcome[r]]]
  /\ drv' = [drv EXCEPT ![r] = "stored"]
  /\ UNCHANGED <<promise_counter, promise_open, session, alive, js, owner, cur,
                 pumpAt, wake, outcome, result, asked>>

(* Mutant: the wake is sent ahead of the record and not repeated after it. *)
StoreDoneAfterWake(r) ==
  /\ drv[r] = "stored"
  /\ promises' = [promises EXCEPT ![SlotOf(r)] = [@ EXCEPT !.done = r]]
  /\ drv' = [drv EXCEPT ![r] = "over"]
  /\ UNCHANGED <<promise_counter, promise_open, session, alive, js, owner, cur,
                 pumpAt, wake, outcome, result, asked>>

StoreDone(r) ==
  /\ drv[r] = "stored"
  /\ promises' = [promises EXCEPT ![SlotOf(r)] = [@ EXCEPT !.done = r]]
  /\ drv' = [drv EXCEPT ![r] = "published"]
  /\ UNCHANGED <<promise_counter, promise_open, session, alive, js, owner, cur,
                 pumpAt, wake, outcome, result, asked>>

(* vm_wake_post() from another task or an ISR: after the record.           *)
PostWake(r) ==
  /\ drv[r] = "published"
  /\ wake' = TRUE
  /\ drv' = [drv EXCEPT ![r] = "over"]
  /\ UNCHANGED <<promises, promise_counter, promise_open, session, alive, js,
                 owner, cur, pumpAt, outcome, result, asked>>

SurfaceCall == PromiseOpen \/ DriverStart \/ PromiseAbandon \/ PromiseArm
               \/ PromiseArmFails

Pump == PumpSettles \/ PumpStops \/ PumpSkips

Turn == BeginPump \/ Pump \/ EndTurn \/ Wake

Posting(r) == StoreStatus(r) \/ StoreDone(r) \/ PostWake(r)

Next ==
  \/ SurfaceCall \/ CancelToken \/ CancelAll
  \/ Turn \/ SessionEnd \/ SessionStart
  \/ \E i \in Slots : Elapse(i)
  \/ \E r \in Requests : Posting(r)
  \/ \E r \in Requests, s \in Statuses : Finish(r, s) \/ OwnerCompletes(r, s)

Spec == Init /\ [][Next]_vars

(* The loop of main.c takes a turn every frame period at the latest and no *)
(* surface call waits for a driver; time passes; a driver that was asked   *)
(* to stop ends its work, and one that has begun to post goes on.  A       *)
(* driver that is not asked may work for ever.                             *)
AskedFinishes(r) ==
  /\ r \in asked
  /\ \E s \in Statuses : Finish(r, s)

Fairness ==
  /\ WF_vars(Turn)
  /\ WF_vars(SurfaceCall /\ owner # "run")
  /\ \A i \in Slots : WF_vars(Elapse(i))
  /\ \A r \in Requests : WF_vars(Posting(r)) /\ WF_vars(AskedFinishes(r))

FairSpec == Spec /\ Fairness

-----------------------------------------------------------------------------
(* Properties.                                                             *)

Armed(i) == Claimed(i) /\ promises[i].armed

(* A driver of r will not touch the table again.                           *)
Posted(r) == drv[r] \in {"published", "self", "over"}

(* What the pump would settle belongs to the realm that is installed now:  *)
(* the resolvers of an ended session are never called, however its drivers *)
(* and its reset interleave (pocket_api_reset, promise_settle).            *)
RealmSafe == \A i \in Slots : Armed(i) => alive /\ promises[i].ctx = session

(* The owner never sleeps a frame on a completion another task published:  *)
(* a record that is complete while the owner waits has its wake pending or *)
(* about to be sent (the ordering contract of vm_wake_post).               *)
NoLostWake ==
  owner = "wait" /\ ~wake =>
    \A i \in Slots : Armed(i) /\ promises[i].done = promises[i].request =>
      drv[promises[i].request] \in {"published", "self"}

(* promise_open, which lets pocket_api_pump() and the suspension skip the  *)
(* table, counts exactly the slots in flight on every path that claims or  *)
(* frees one.                                                              *)
OpenCountExact == promise_open = Cardinality({i \in Slots : Claimed(i)})

(* A Promise settles only after its own driver stopped working, and with   *)
(* the status that driver posted, never one left in the slot or posted by  *)
(* another request (pocket_api_complete against pocket_api_pump).          *)
HonestSettle ==
  \A r \in Requests : js[r] = "settled" => Posted(r) /\ result[r] = outcome[r]

(* "No queue to overflow and nothing to drop": once the driver of an armed *)
(* request has posted, its slot says so.                                   *)
NothingDropped ==
  \A i \in Slots : Armed(i) /\ Posted(promises[i].request) =>
    promises[i].done = promises[i].request

(* A Promise handed to the app settles, or its session ends: the deadline  *)
(* stops a driver that would never finish.                                 *)
EveryPromiseEnds ==
  \A r \in Requests : (js[r] = "pending") ~> (js[r] # "pending")

(* The table implements the ledger of promises it offers to the surfaces.  *)
Ledger == INSTANCE PromiseLedger WITH ledger <- js, work <- outcome,
                                      told <- result
LedgerSpec == Ledger!Spec
=============================================================================
