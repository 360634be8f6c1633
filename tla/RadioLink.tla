----------------------------- MODULE RadioLink -----------------------------
(***************************************************************************)
(* The radio of wifi_time.c: the `running` lock that links and scans       *)
(* share, the permanent worker that runs both, the link's state, owner and *)
(* stop request, and SNTP on a link with the mutex that keeps its deinit   *)
(* away from a task that waits on it.                                      *)
(*                                                                         *)
(* The worker's accesses that another task can see between are separate    *)
(* steps.  What the air does (no such network, a refused key, an address,  *)
(* a lost association) is a choice.  Status texts, a scan's answer and the *)
(* radio's bring-up calls are left out.                                    *)
(***************************************************************************)
EXTENDS Integers, FiniteSets

CONSTANT PreemptedStop  \* may the caller of wifi_time_link_stop_for() be
                        \* preempted between its load and its store?

ASSUME StopAssumption == PreemptedStop \in BOOLEAN

VARIABLES
  running,        \* the radio lock
  link_stop_req,  \* the link has been asked back
  link_owner,     \* "none", "app" or "service"
  link_state,     \* wifi_time_link_t
  wifi_job,       \* the job the worker has been notified of, if any
  wifi,           \* where the worker is
  sntp,           \* has esp_netif_sntp_init() run without its deinit?
  sntp_lock,      \* is the SNTP mutex held across a wait?
  stopping        \* callers of stop_for() between the load and the store

linkVars  == <<link_stop_req, link_owner, link_state>>
jobVars   == <<running, wifi_job>>
sntpVars  == <<sntp, sntp_lock>>
radioVars == <<linkVars, jobVars, sntpVars, wifi, stopping>>

LinkOwners == {"app", "service"}
LinkStates == {"down", "connecting", "up", "failed"}
WorkerSteps == {"idle", "connecting", "up", "leaving", "deinit", "request",
                "owner", "running", "scanning", "scanned"}

RadioTypeOK(Callers) ==
  /\ running \in BOOLEAN
  /\ link_stop_req \in BOOLEAN
  /\ link_owner \in LinkOwners \cup {"none"}
  /\ link_state \in LinkStates
  /\ wifi_job \in {"none", "link", "scan"}
  /\ wifi \in WorkerSteps
  /\ sntp \in BOOLEAN
  /\ sntp_lock \in BOOLEAN
  /\ stopping \subseteq Callers

RadioInit ==
  /\ running = FALSE
  /\ link_stop_req = FALSE
  /\ link_owner = "none"
  /\ link_state = "down"
  /\ wifi_job = "none"
  /\ wifi = "idle"
  /\ sntp = FALSE
  /\ sntp_lock = FALSE
  /\ stopping = {}

-----------------------------------------------------------------------------
(* What callers do.                                                        *)

(* wifi_time_busy().                                                       *)
Busy == running

(* wifi_time_link_start_for(), when it wins the lock.  The stores before   *)
(* the notification are one step: until the worker has been notified       *)
(* nobody but a preempted stop_for() writes any of them, and it finds      *)
(* either nothing to stop or the new owner's link.                         *)
LinkStart(o) ==
  /\ ~running
  /\ running' = TRUE
  /\ link_stop_req' = FALSE
  /\ link_owner' = o
  /\ link_state' = "connecting"
  /\ wifi_job' = "link"
  /\ UNCHANGED <<wifi, sntpVars, stopping>>

(* wifi_time_link_stop_for(): only the owner's request counts.             *)
LinkStop(o, caller) ==
  /\ IF link_owner # o
       THEN UNCHANGED <<link_stop_req, stopping>>
       ELSE IF PreemptedStop
         THEN stopping' = stopping \cup {caller} /\ UNCHANGED link_stop_req
         ELSE link_stop_req' = TRUE /\ UNCHANGED stopping
  /\ UNCHANGED <<jobVars, link_owner, link_state, wifi, sntpVars>>

(* The store of a stop_for() that was preempted after its load.            *)
LinkStopStore(caller) ==
  /\ caller \in stopping
  /\ stopping' = stopping \ {caller}
  /\ link_stop_req' = TRUE
  /\ UNCHANGED <<jobVars, link_owner, link_state, wifi, sntpVars>>

(* wifi_time_scan_start().                                                 *)
ScanStart ==
  /\ ~running
  /\ running' = TRUE
  /\ wifi_job' = "scan"
  /\ UNCHANGED <<linkVars, wifi, sntpVars, stopping>>

-----------------------------------------------------------------------------
(* SNTP on a link, called by its holder's task.  Each takes sntp_lock.     *)

(* Mutant: the state of the link is not looked at.                         *)
SntpStartUnchecked(started) ==
  /\ ~sntp_lock
  /\ sntp' = (sntp \/ started)
  /\ UNCHANGED <<linkVars, jobVars, wifi, sntp_lock, stopping>>

(* wifi_time_link_sntp_start(): only on a link that is up, seen under the  *)
(* lock; esp_netif_sntp_init() may still fail.                             *)
SntpStart(started) ==
  /\ ~sntp_lock
  /\ started => link_state = "up"
  /\ sntp' = (sntp \/ started)
  /\ UNCHANGED <<jobVars, linkVars, wifi, sntp_lock, stopping>>

(* wifi_time_link_sntp_wait(): a slice is waited with the lock held, and   *)
(* only on a link that is up.                                              *)
SntpWaitBegin ==
  /\ ~sntp_lock
  /\ link_state = "up"
  /\ sntp_lock' = TRUE
  /\ UNCHANGED <<jobVars, linkVars, wifi, sntp, stopping>>

SntpWaitEnd ==
  /\ sntp_lock
  /\ sntp_lock' = FALSE
  /\ UNCHANGED <<jobVars, linkVars, wifi, sntp, stopping>>

(* wifi_time_link_sntp_stop(): nothing to do once the teardown has run.    *)
SntpStop ==
  /\ ~sntp_lock
  /\ sntp' = FALSE
  /\ UNCHANGED <<jobVars, linkVars, wifi, sntp_lock, stopping>>

-----------------------------------------------------------------------------
(* The worker.                                                             *)

(* wifi_worker_task(): the notification, then the job.                     *)
WorkerTake ==
  /\ wifi = "idle" /\ wifi_job # "none"
  /\ wifi' = IF wifi_job = "link" THEN "connecting" ELSE "scanning"
  /\ wifi_job' = "none"
  /\ UNCHANGED <<running, linkVars, sntpVars, stopping>>

(* do_link() got an address.                                               *)
LinkUp ==
  /\ wifi = "connecting"
  /\ link_state' = "up"
  /\ wifi' = "up"
  /\ UNCHANGED <<jobVars, link_stop_req, link_owner, sntpVars, stopping>>

(* No credentials, no memory, no network, a refused key, the connect       *)
(* timeout: the worker goes to `done`.                                     *)
LinkNotUp ==
  /\ wifi = "connecting"
  /\ wifi' = "leaving"
  /\ UNCHANGED <<jobVars, linkVars, sntpVars, stopping>>

(* Either wait sees the stop request.                                      *)
LinkStopSeen ==
  /\ wifi \in {"connecting", "up"} /\ link_stop_req
  /\ wifi' = "leaving"
  /\ UNCHANGED <<jobVars, linkVars, sntpVars, stopping>>

(* BIT_LINK_LOST.                                                          *)
LinkLost ==
  /\ wifi = "up"
  /\ link_state' = "failed"
  /\ wifi' = "leaving"
  /\ UNCHANGED <<jobVars, link_stop_req, link_owner, sntpVars, stopping>>

(* The `done` label: the state is out of UP before tear_down() takes       *)
(* sntp_lock.                                                              *)
LinkLeave ==
  /\ wifi = "leaving"
  /\ link_state' = IF link_state = "failed" THEN "failed" ELSE "down"
  /\ wifi' = "deinit"
  /\ UNCHANGED <<jobVars, link_stop_req, link_owner, sntpVars, stopping>>

(* Mutant: SNTP's deinit without its lock.                                 *)
TearDownUnlocked ==
  /\ wifi \in {"deinit", "scanned"}
  /\ sntp' = FALSE
  /\ wifi' = IF wifi = "deinit" THEN "request" ELSE "running"
  /\ UNCHANGED <<linkVars, jobVars, sntp_lock, stopping>>

(* tear_down() of a link or a scan: SNTP's deinit under its lock, then the *)
(* radio itself.                                                           *)
TearDown ==
  /\ wifi \in {"deinit", "scanned"} /\ ~sntp_lock
  /\ sntp' = FALSE
  /\ wifi' = IF wifi = "deinit" THEN "request" ELSE "running"
  /\ UNCHANGED <<jobVars, linkVars, sntp_lock, stopping>>

(* The link's last three stores, and a scan's last one.                    *)
ClearRequest ==
  /\ wifi = "request"
  /\ link_stop_req' = FALSE
  /\ wifi' = "owner"
  /\ UNCHANGED <<jobVars, link_owner, link_state, sntpVars, stopping>>

ClearOwner ==
  /\ wifi = "owner"
  /\ link_owner' = "none"
  /\ wifi' = "running"
  /\ UNCHANGED <<jobVars, link_stop_req, link_state, sntpVars, stopping>>

ClearRunning ==
  /\ wifi = "running"
  /\ running' = FALSE
  /\ wifi' = "idle"
  /\ UNCHANGED <<linkVars, wifi_job, sntpVars, stopping>>

(* do_scan() up to its answer.                                             *)
ScanDone ==
  /\ wifi = "scanning"
  /\ wifi' = "scanned"
  /\ UNCHANGED <<running, linkVars, wifi_job, sntpVars, stopping>>

Worker ==
  \/ WorkerTake \/ LinkUp \/ LinkNotUp \/ LinkStopSeen \/ LinkLeave
  \/ TearDown \/ ClearRequest \/ ClearOwner \/ ClearRunning \/ ScanDone
============================================================================
