------------------------------ MODULE TimeSync ------------------------------
(***************************************************************************)
(* Who uses the radio of RadioLink when: net_service.c's counted holds,    *)
(* net_autosync.c's attempt, its policy and its task, and the UI task that *)
(* starts attempts from the home screen and the Wi-Fi screen and makes     *)
(* them yield to an app.                                                   *)
(*                                                                         *)
(* Three tasks interleave: the UI task, the "timesync" task and the Wi-Fi  *)
(* worker; `Others` are further holders of net_service, which its          *)
(* interface allows and no code uses yet.  Time is not a number: a         *)
(* deadline may pass at any moment, a wait the policy asks for may have    *)
(* passed or not.                                                          *)
(***************************************************************************)
EXTENDS RadioLink

CONSTANTS
  Others,       \* holders of net_service besides the clock
  MaxAttempts,  \* AUTOSYNC_MAX_ATTEMPTS
  MaxFailures   \* AUTOSYNC_MAX_FAILURES

ASSUME SyncAssumption ==
  /\ IsFiniteSet(Others) /\ {"time", "app"} \cap Others = {}
  /\ MaxAttempts \in Nat \ {0}
  /\ MaxFailures \in Nat \ {0}

VARIABLES
  holds,      \* reasons[].count, by name
  sync,       \* where the timesync task is
  job,        \* the attempt it has been notified of, if any
  manual,     \* is the attempt in hand the Wi-Fi screen's?
  sawOurs,    \* the owner an attempt's net_service_state() has read is ours
  err,        \* what its last SNTP wait returned
  out,        \* its outcome so far
  waitedOut,  \* an attempt stopped waiting for a radio that is still up
  active,     \* an attempt exists
  abort_req,
  posted,     \* the outcome left for the policy
  policy,     \* attempts, failures, running, gave_up
  enabled,    \* the AUTO TIME SYNC setting
  screen,     \* "home", "wifi" or "app"
  goal,       \* where net_autosync_yield() was called to go, or "none"
  late,       \* did the last yield run out?
  polled      \* is net_autosync_poll() past the outcome it collects?

syncVars == <<sync, job, manual, sawOurs, err, out, waitedOut, active, posted>>
uiVars   == <<policy, enabled, screen, goal, late, polled>>
vars     == <<radioVars, syncVars, uiVars, holds, abort_req>>

Holders  == Others \cup {"time"}
Outcomes == {"ok", "failed", "aborted", "busy"}
SyncSteps == {"idle", "acquire", "owner", "state", "sntpStart", "sntpWait",
              "slice", "lostOwner", "lostState", "sntpStop", "release",
              "releasing", "down", "post", "clear"}

TypeOK ==
  /\ RadioTypeOK(Holders \cup {"app"})
  /\ holds \in [Holders -> 0 .. 1]
  /\ sync \in SyncSteps
  /\ job \in {"none", "auto", "manual"}
  /\ manual \in BOOLEAN /\ sawOurs \in BOOLEAN
  /\ err \in {"ok", "timeout", "final"}
  /\ out \in Outcomes
  /\ waitedOut \in BOOLEAN
  /\ active \in BOOLEAN /\ abort_req \in BOOLEAN
  /\ posted \in Outcomes \cup {"none"}
  /\ policy \in [attempts : 0 .. MaxAttempts, failures : 0 .. MaxFailures,
                 running : BOOLEAN, gave_up : BOOLEAN]
  /\ enabled \in BOOLEAN
  /\ screen \in {"home", "wifi", "app"}
  /\ goal \in {"none", "wifi", "app"}
  /\ late \in BOOLEAN /\ polled \in BOOLEAN

FreshPolicy ==
  [attempts |-> 0, failures |-> 0, running |-> FALSE, gave_up |-> FALSE]

Init ==
  /\ RadioInit
  /\ holds = [h \in Holders |-> 0]
  /\ sync = "idle" /\ job = "none" /\ manual = FALSE /\ sawOurs = FALSE
  /\ err = "ok" /\ out = "failed" /\ waitedOut = FALSE
  /\ active = FALSE /\ abort_req = FALSE /\ posted = "none"
  /\ policy = FreshPolicy
  /\ enabled = TRUE
  /\ screen = "home" /\ goal = "none" /\ late = FALSE /\ polled = FALSE

-----------------------------------------------------------------------------
(* net_service.c.  Its mutex makes an acquire or a release one step of the *)
(* holders; a release preempted in its stop keeps the mutex.               *)

Held == \E h \in Holders : holds[h] > 0

ServiceFree == stopping \cap Holders = {}

(* Mutant: a hold is counted on a link that is on its way down.            *)
AcquireLeaving(h) ==
  /\ ServiceFree
  /\ IF link_owner # "service"
       THEN LinkStart("service")
       ELSE UNCHANGED radioVars
  /\ holds' = [holds EXCEPT ![h] = @ + 1]

(* net_service_acquire(): start a link unless it is already ours, in which *)
(* case a hold only counts while the last one has not been given back.     *)
AcquireOK(h) ==
  /\ ServiceFree
  /\ IF link_owner # "service"
       THEN LinkStart("service")
       ELSE Held /\ UNCHANGED radioVars
  /\ holds' = [holds EXCEPT ![h] = @ + 1]

AcquireBusy ==
  /\ ServiceFree
  /\ IF link_owner # "service" THEN running ELSE ~Held
  /\ UNCHANGED <<radioVars, holds>>

(* Mutant: the last release stops only a link that is up.                  *)
ReleaseIfUp(h) ==
  /\ ServiceFree
  /\ holds[h] > 0
  /\ holds' = [holds EXCEPT ![h] = @ - 1]
  /\ IF link_state # "up" \/ \E k \in Holders : holds'[k] > 0
       THEN UNCHANGED radioVars
       ELSE LinkStop("service", h)

(* net_service_release(): the last hold stops the link.                    *)
Release(h) ==
  /\ ServiceFree
  /\ holds[h] > 0
  /\ holds' = [holds EXCEPT ![h] = @ - 1]
  /\ IF \E k \in Holders : holds'[k] > 0
       THEN UNCHANGED radioVars
       ELSE LinkStop("service", h)

(* The other holders.                                                      *)
OtherAcquires(h) ==
  /\ holds[h] = 0
  /\ AcquireOK(h)
  /\ UNCHANGED <<syncVars, uiVars, abort_req>>

OtherReleases(h) ==
  /\ Release(h)
  /\ UNCHANGED <<syncVars, uiVars, abort_req>>

OtherStops(h) ==
  /\ LinkStopStore(h)
  /\ UNCHANGED <<syncVars, uiVars, holds, abort_req>>

-----------------------------------------------------------------------------
(* net_autosync.c: autosync_attempt() and the task that runs it.           *)

Goes(from, to) == sync = from /\ sync' = to

attemptVars == <<job, manual, sawOurs, err, out, waitedOut, active, posted>>

(* sync_worker_task(): the notification, then the flag of the starter.     *)
SyncTake ==
  /\ job # "none"
  /\ Goes("idle", "acquire")
  /\ manual' = (job = "manual")
  /\ job' = "none"
  /\ UNCHANGED <<radioVars, uiVars, holds, sawOurs, err, out, waitedOut,
                 active, posted, abort_req>>

(* The acquire, counted or refused as busy.                                *)
AttemptAcquires ==
  /\ \/ AcquireOK("time") /\ Goes("acquire", "owner") /\ UNCHANGED out
     \/ AcquireBusy /\ Goes("acquire", "post") /\ out' = "busy"
  /\ UNCHANGED <<uiVars, job, manual, sawOurs, err, waitedOut, active, posted,
                 abort_req>>

(* net_service_state() reads the owner, then the state.                    *)
LooksAtOwner ==
  /\ Goes("owner", "state") \/ Goes("lostOwner", "lostState")
  /\ sawOurs' = (link_owner = "service")
  /\ UNCHANGED <<radioVars, uiVars, holds, job, manual, err, out, waitedOut,
                 active, posted, abort_req>>

SeesConnecting == sawOurs /\ link_state = "connecting"
SeesUp         == sawOurs /\ link_state = "up"

(* The wait for the link: an abort is looked for on every round and once   *)
(* the link is up; anything but CONNECTING or UP is a link that failed.    *)
ConnectWait ==
  /\ IF abort_req /\ (SeesConnecting \/ SeesUp)
       THEN Goes("state", "release") /\ out' = "aborted"
       ELSE /\ UNCHANGED out
            /\ Goes("state", IF SeesUp THEN "sntpStart"
                             ELSE IF SeesConnecting THEN "owner"
                             ELSE "release")
  /\ sawOurs' = FALSE
  /\ UNCHANGED <<radioVars, uiVars, holds, job, manual, err, waitedOut,
                 active, posted, abort_req>>

(* AUTOSYNC_CONNECT_WAIT_MS and, below, AUTOSYNC_SNTP_WAIT_MS: looked at   *)
(* after the abort.                                                        *)
ConnectTimeout ==
  /\ SeesConnecting /\ ~abort_req
  /\ Goes("state", "release")
  /\ sawOurs' = FALSE
  /\ UNCHANGED <<radioVars, uiVars, holds, job, manual, err, out, waitedOut,
                 active, posted, abort_req>>

AttemptSntpStart ==
  /\ \/ SntpStart(TRUE) /\ Goes("sntpStart", "sntpWait")
     \/ SntpStart(FALSE) /\ Goes("sntpStart", "release")
  /\ UNCHANGED <<uiVars, holds, attemptVars, abort_req>>

(* A slice of the wait, or its refusal once the link is not up.            *)
AttemptWaits ==
  /\ \/ SntpWaitBegin /\ Goes("sntpWait", "slice") /\ UNCHANGED err
     \/ /\ ~sntp_lock /\ link_state # "up" /\ UNCHANGED radioVars
        /\ Goes("sntpWait", "lostOwner") /\ err' = "final"
  /\ UNCHANGED <<uiVars, holds, job, manual, sawOurs, out, waitedOut, active,
                 posted, abort_req>>

(* The clock was stepped, or was not within the slice; without SNTP (the   *)
(* link is another owner's by now) the wait is refused for good.           *)
SliceEnds ==
  /\ SntpWaitEnd
  /\ \/ sntp /\ Goes("slice", "sntpStop") /\ err' = "ok"
     \/ sntp /\ Goes("slice", "lostOwner") /\ err' = "timeout"
     \/ ~sntp /\ Goes("slice", "lostOwner") /\ err' = "final"
  /\ UNCHANGED <<uiVars, holds, job, manual, sawOurs, out, waitedOut, active,
                 posted, abort_req>>

(* Mutant: the abort is not looked for between slices.                     *)
AfterSliceNoAbort ==
  /\ IF SeesUp /\ err = "timeout"
       THEN Goes("lostState", "sntpWait") /\ err' = "ok"
       ELSE Goes("lostState", "sntpStop") /\ UNCHANGED err
  /\ sawOurs' = FALSE
  /\ UNCHANGED <<radioVars, uiVars, holds, job, manual, out, waitedOut, active,
                 posted, abort_req>>

(* After a slice: lost, a final error, an abort, or another slice.         *)
AfterSlice ==
  /\ IF SeesUp /\ err = "timeout" /\ ~abort_req
       THEN Goes("lostState", "sntpWait") /\ err' = "ok"
       ELSE Goes("lostState", "sntpStop") /\ UNCHANGED err
  /\ out' = IF SeesUp /\ err = "timeout" /\ abort_req THEN "aborted" ELSE out
  /\ sawOurs' = FALSE
  /\ UNCHANGED <<radioVars, uiVars, holds, job, manual, waitedOut, active,
                 posted, abort_req>>

(* Mutant: the wait is counted from the last slice and never ends.         *)
SntpTimeoutPerSlice == FALSE /\ UNCHANGED vars

SntpTimeout ==
  /\ SeesUp /\ err = "timeout" /\ ~abort_req
  /\ Goes("lostState", "sntpStop")
  /\ sawOurs' = FALSE
  /\ UNCHANGED <<radioVars, uiVars, holds, job, manual, err, out, waitedOut,
                 active, posted, abort_req>>

(* SNTP is stopped before the release; a stepped clock is marked.          *)
AttemptSntpStop ==
  /\ SntpStop
  /\ Goes("sntpStop", "release")
  /\ out' = IF err = "ok" THEN "ok" ELSE out
  /\ err' = "ok"
  /\ UNCHANGED <<uiVars, holds, job, manual, sawOurs, waitedOut, active,
                 posted, abort_req>>

AttemptReleases ==
  /\ \/ /\ Release("time")
        /\ Goes("release", IF "time" \in stopping' THEN "releasing"
                           ELSE "down")
     \/ LinkStopStore("time") /\ Goes("releasing", "down") /\ UNCHANGED holds
  /\ UNCHANGED <<uiVars, attemptVars, abort_req>>

(* Mutant: the attempt does not wait for the radio to come down.           *)
NoDownWait ==
  /\ Goes("down", "post")
  /\ UNCHANGED <<radioVars, uiVars, holds, attemptVars, abort_req>>

(* The attempt is not over until the radio's memory is back, or            *)
(* AUTOSYNC_DOWN_WAIT_MS has passed.                                       *)
RadioIsDown ==
  /\ ~Busy
  /\ Goes("down", "post")
  /\ UNCHANGED <<radioVars, uiVars, holds, attemptVars, abort_req>>

DownTimeout ==
  /\ Busy
  /\ Goes("down", "post")
  /\ waitedOut' = TRUE
  /\ UNCHANGED <<radioVars, uiVars, holds, job, manual, sawOurs, err, out,
                 active, posted, abort_req>>

(* run_auto() leaves the outcome for the policy, run_manual() does not.    *)
(* (Locals of the attempt are reset where they are last read.)             *)
PostOutcome ==
  /\ Goes("post", "clear")
  /\ posted' = IF manual THEN posted ELSE out
  /\ out' = "failed"
  /\ UNCHANGED <<radioVars, uiVars, holds, job, manual, sawOurs, err,
                 waitedOut, active, abort_req>>

ClearActive ==
  /\ Goes("clear", "idle")
  /\ active' = FALSE
  /\ manual' = FALSE
  /\ UNCHANGED <<radioVars, uiVars, holds, job, sawOurs, err, out, waitedOut,
                 posted, abort_req>>

Attempt ==
  \/ SyncTake \/ AttemptAcquires \/ LooksAtOwner \/ ConnectWait
  \/ AttemptSntpStart \/ AttemptWaits \/ SliceEnds \/ AfterSlice
  \/ AttemptSntpStop \/ AttemptReleases \/ RadioIsDown \/ PostOutcome
  \/ ClearActive

Deadline == ConnectTimeout \/ SntpTimeout \/ DownTimeout

-----------------------------------------------------------------------------
(* The UI task.                                                            *)

uiIdle == goal = "none" /\ ~polled

(* Mutant: an abort always gives an attempt back.                          *)
RecordedUnderflow(p, outcome) ==
  LET q == [p EXCEPT !.running = FALSE] IN
  CASE outcome = "ok"      -> [q EXCEPT !.failures = 0]
    [] outcome = "failed"  -> [q EXCEPT !.failures = @ + 1,
                          !.gave_up = @ \/ p.failures + 1 >= MaxFailures]
    [] outcome = "aborted" -> [q EXCEPT !.attempts = @ - 1]
    [] outcome = "busy"    -> q

(* autosync_policy_record().                                               *)
Recorded(p, outcome) ==
  LET q == [p EXCEPT !.running = FALSE] IN
  CASE outcome = "ok"      -> [q EXCEPT !.failures = 0]
    [] outcome = "failed"  -> [q EXCEPT !.failures = @ + 1,
                          !.gave_up = @ \/ p.failures + 1 >= MaxFailures]
    [] outcome = "aborted" -> [q EXCEPT !.attempts = IF @ = 0 THEN 0
                                                ELSE @ - 1]
    [] outcome = "busy"    -> q

(* net_autosync_poll(), once a frame on every screen: first the outcome.   *)
PollCollects ==
  /\ uiIdle
  /\ posted' = "none"
  /\ policy' = IF posted = "none" THEN policy ELSE Recorded(policy, posted)
  /\ polled' = (screen = "home")
  /\ UNCHANGED <<radioVars, holds, sync, job, manual, sawOurs, err, out,
                 waitedOut, active, abort_req, enabled, screen, goal, late>>

(* Then autosync_policy_decide(): an attempt is due, or one of the waits   *)
(* (idle time, backoff, credentials, memory, an app asleep, a clock that   *)
(* is already set) says not yet.                                           *)
MayStart == enabled /\ ~policy.running /\ ~policy.gave_up /\ ~active

PollStarts ==
  /\ polled /\ MayStart
  /\ polled' = FALSE
  /\ IF policy.attempts >= MaxAttempts
       THEN /\ policy' = [policy EXCEPT !.gave_up = TRUE]
            /\ UNCHANGED <<abort_req, active, job>>
       ELSE /\ policy' = [policy EXCEPT !.attempts = @ + 1, !.running = TRUE]
            /\ abort_req' = FALSE
            /\ active' = TRUE
            /\ job' = "auto"
  /\ UNCHANGED <<radioVars, holds, sync, manual, sawOurs, err, out, waitedOut,
                 posted, enabled, screen, goal, late>>

PollWaits ==
  /\ polled
  /\ polled' = FALSE
  /\ UNCHANGED <<radioVars, syncVars, holds, abort_req, policy, enabled,
                 screen, goal, late>>

(* Mutant: turning the setting on forgets the attempt in flight.           *)
SetEnabledAfresh ==
  /\ uiIdle /\ screen = "home"
  /\ enabled' = ~enabled
  /\ IF enabled
       THEN abort_req' = (abort_req \/ active) /\ UNCHANGED policy
       ELSE policy' = FreshPolicy /\ UNCHANGED abort_req
  /\ UNCHANGED <<radioVars, syncVars, holds, screen, goal, late, polled>>

(* net_autosync_set_enabled(): off asks the attempt to stop; on starts     *)
(* afresh, but an outcome still to come keeps the policy running.          *)
SetEnabled ==
  /\ uiIdle /\ screen = "home"
  /\ enabled' = ~enabled
  /\ IF enabled
       THEN abort_req' = (abort_req \/ active) /\ UNCHANGED policy
       ELSE /\ policy' = [FreshPolicy EXCEPT !.running = policy.running]
            /\ UNCHANGED abort_req
  /\ UNCHANGED <<radioVars, syncVars, holds, screen, goal, late, polled>>

(* enter() and begin_run() yield before the screen or the app: at once     *)
(* when there is no attempt.                                               *)
Yield(to) ==
  /\ uiIdle /\ screen = "home"
  /\ IF active
       THEN /\ goal' = to /\ abort_req' = TRUE
            /\ UNCHANGED <<screen, late>>
       ELSE /\ screen' = to /\ late' = FALSE
            /\ UNCHANGED <<goal, abort_req>>
  /\ UNCHANGED <<radioVars, syncVars, holds, policy, enabled, polled>>

YieldReturns ==
  /\ goal # "none" /\ ~active
  /\ screen' = goal /\ goal' = "none" /\ late' = FALSE
  /\ UNCHANGED <<radioVars, syncVars, holds, abort_req, policy, enabled,
                 polled>>

(* AUTOSYNC_YIELD_WAIT_MS: the caller goes ahead, LATE.                    *)
YieldTimeout ==
  /\ goal # "none" /\ active
  /\ screen' = goal /\ goal' = "none" /\ late' = TRUE
  /\ UNCHANGED <<radioVars, syncVars, holds, abort_req, policy, enabled,
                 polled>>

(* net_autosync_sync_now(), from the Wi-Fi screen.                         *)
SyncNow ==
  /\ uiIdle /\ screen = "wifi"
  /\ ~Busy /\ ~active
  /\ active' = TRUE
  /\ abort_req' = FALSE
  /\ job' = "manual"
  /\ UNCHANGED <<radioVars, uiVars, holds, sync, manual, sawOurs, err, out,
                 waitedOut, posted>>

(* begin_scan() of that screen, and pocket.net.wifi.scan() of an app.      *)
Scan ==
  /\ uiIdle /\ screen \in {"wifi", "app"}
  /\ ScanStart
  /\ UNCHANGED <<syncVars, uiVars, holds, abort_req>>

(* An app's lease: wifi_time_link_start(), and the stop, which its request *)
(* worker may still make after the app has ended.                          *)
AppLink ==
  /\ uiIdle /\ screen = "app"
  /\ LinkStart("app")
  /\ UNCHANGED <<syncVars, uiVars, holds, abort_req>>

AppStop ==
  /\ link_owner = "app"
  /\ LinkStop("app", "app")
  /\ UNCHANGED <<syncVars, uiVars, holds, abort_req>>

AppStopStores ==
  /\ LinkStopStore("app")
  /\ UNCHANGED <<syncVars, uiVars, holds, abort_req>>

GoHome ==
  /\ uiIdle /\ screen # "home"
  /\ screen' = "home" /\ late' = FALSE
  /\ UNCHANGED <<radioVars, syncVars, holds, abort_req, policy, enabled, goal,
                 polled>>

Ui ==
  \/ PollCollects \/ PollStarts \/ PollWaits \/ SetEnabled \/ Yield("wifi")
  \/ Yield("app") \/ YieldReturns \/ YieldTimeout \/ SyncNow \/ Scan
  \/ AppLink \/ AppStop \/ AppStopStores \/ GoHome

RadioWorker ==
  /\ Worker
  /\ waitedOut' = (waitedOut /\ running')
  /\ UNCHANGED <<uiVars, holds, sync, job, manual, sawOurs, err, out, active,
                 posted, abort_req>>

ApLost == LinkLost /\ UNCHANGED <<syncVars, uiVars, holds, abort_req>>

Next ==
  \/ RadioWorker \/ ApLost \/ Attempt \/ Deadline \/ Ui
  \/ \E h \in Others : OtherAcquires(h) \/ OtherReleases(h) \/ OtherStops(h)

Spec == Init /\ [][Next]_vars

(* The worker and the timesync task are never starved; every frame ends    *)
(* with a poll, whatever else the UI task did in it (hence SF: what it did *)
(* may be another yield); a yield looks every 10 ms.  Nothing is relied on *)
(* to end a link that is up, and of the deadlines only the one on the      *)
(* radio coming down.                                                      *)
FairSpec ==
  /\ Spec
  /\ WF_vars(RadioWorker) /\ WF_vars(Attempt)
  /\ WF_vars(RadioIsDown \/ DownTimeout)
  /\ SF_vars(PollCollects) /\ WF_vars(PollStarts \/ PollWaits)
  /\ WF_vars(YieldReturns)

-----------------------------------------------------------------------------
(* net_service.c's comment on its mutex: no link of the service is left up *)
(* with nobody holding it and nobody having asked for it back.             *)
NoOrphanLink ==
  /\ link_owner = "service" /\ ~Held /\ ServiceFree
  /\ wifi_job = "link" \/ wifi \in {"connecting", "up"}
  => link_stop_req

(* wifi_time.c, on wifi_time_link_stop_for(): only the holder can give the *)
(* link back.  While somebody holds the service's link, nobody has asked   *)
(* for it.                                                                 *)
OnlyHoldersStop == link_owner = "service" /\ link_stop_req => ~Held

(* wifi_time.c, on SNTP on a link: SNTP is only ever running on a link     *)
(* that is up or whose teardown is still to come, and only while the       *)
(* attempt that started it is there to stop it.                            *)
SntpEndsWithLink ==
  sntp => /\ link_state = "up" \/ wifi \in {"leaving", "deinit"}
          /\ sync \in {"sntpWait", "slice", "lostOwner", "lostState",
                       "sntpStop"}

(* wifi_time.c, on sntp_lock: no deinit deletes the semaphore a task is    *)
(* waiting on.                                                             *)
NoDeinitUnderWait ==
  [][sync = "slice" /\ sync' = "slice" => sntp' = sntp]_vars

(* An automatic attempt that has not left its outcome.                     *)
AutoInFlight ==
  job = "auto" \/ (~manual /\ sync \notin {"idle", "clear"})

(* net_autosync.c: the two kinds of attempt never overlap, and `running`   *)
(* keeps a second one from starting before the first one's outcome is      *)
(* collected: exactly one outcome is due or posted while it is set.        *)
AttemptsAccounted ==
  /\ active <=> (job # "none" \/ sync # "idle")
  /\ job # "none" => sync = "idle"
  /\ policy.running <=> (AutoInFlight \/ posted # "none")
  /\ ~(AutoInFlight /\ posted # "none")

(* net_autosync.h, APPS FIRST: an app whose yield did not run out meets no *)
(* attempt, and no radio of the service unless the attempt itself stopped  *)
(* waiting for it.                                                         *)
AppsFirst ==
  screen = "app" /\ ~late =>
    /\ ~active /\ holds["time"] = 0
    /\ ~Held /\ ~waitedOut => link_owner # "service"

(* A yield is answered by the attempt looking for it, not by a timeout of  *)
(* its own or of the wait for the network.                                 *)
YieldIsHonoured == goal # "none" ~> goal = "none"

(* With AUTOSYNC_SNTP_WAIT_MS every attempt ends and its outcome reaches   *)
(* the policy, whatever the network, the radio's other users and the       *)
(* setting do.                                                             *)
OutcomesCollected ==
  SF_vars(SntpTimeout) => (policy.running ~> ~policy.running)
=============================================================================
