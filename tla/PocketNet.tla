------------------------------ MODULE PocketNet ------------------------------
(***************************************************************************)
(* pocket.net of pocket_net.c: the one Wi-Fi lease an app can hold, the    *)
(* one HTTP worker task that runs on it, and the reads of its response.    *)
(*                                                                         *)
(* The JS owner task and the worker share the record http without a lock;  *)
(* the worker's steps between its atomic loads and stores are separate     *)
(* actions here, and so are the load and the store of lease_release().     *)
(* The completion table is used at the level PromiseLedger describes it: a *)
(* status posted for a request that is not armed any more is not read.     *)
(* The link is wifi_time.c's, whose only user here is the app.             *)
(***************************************************************************)
EXTENDS Integers, FiniteSets

CONSTANTS
  MaxPromises,  \* bound: promises opened by acquire, request and read
  MaxSessions,  \* bound: guest sessions
  LinkLoss      \* may the access point take the link away?

ASSUME NetAssumption ==
  /\ MaxPromises \in Nat
  /\ MaxSessions \in Nat \ {0}
  /\ LinkLoss \in BOOLEAN

Promises == 1 .. MaxPromises
NoPromise == 0

VARIABLES
  session,     \* the guest session running
  owner,       \* the JS task: "app", "giving" back a lease, at the end
  next,        \* the next request number
  prom,        \* the Promise of a request number
  post,        \* what was posted for it
  reads,       \* the request numbers that were given to reads
  http,        \* the record the JS task and the worker share
  objects,     \* generations of response objects the app has not closed
  failed,      \* history: did a read of the current response fail?
  worker,      \* where the worker task is
  reading,     \* the read the worker is serving and what it will post
  leaving,     \* workers between alive=false and their deletion
  wake,        \* the binary semaphore
  lease,       \* the lease record
  link         \* wifi_time.c: link_state_v, running and link_stop_req

vars == <<session, owner, next, prom, post, reads, http, objects, failed,
          worker, reading, leaving, wake, lease, link>>

Got == {"data", "eof", "fail"}

HttpRecord == [alive : BOOLEAN, abort : BOOLEAN,
               command : {"NONE", "READ", "CLOSE"},
               read_request : Promises \cup {NoPromise},
               open : Promises \cup {NoPromise},
               generation : 0 .. MaxPromises,
               open_response : BOOLEAN,
               chunk : BOOLEAN,             \* are chunk and rsp_headers held?
               eof : BOOLEAN,
               full : BOOLEAN]              \* received >= NET_RESPONSE_MAX

LeaseRecord == [handle : BOOLEAN, acquire : Promises \cup {NoPromise},
                stop_when_idle : BOOLEAN]

LinkRecord == [state : {"DOWN", "CONNECTING", "UP", "FAILED"},
               running : BOOLEAN, stop : BOOLEAN]

TypeOK ==
  /\ session \in 1 .. MaxSessions
  /\ owner \in {"app", "giving", "ending", "over", "home"}
  /\ next \in 1 .. (MaxPromises + 1)
  /\ prom \in [Promises -> {"free", "armed", "stopping", "settled", "dropped"}]
  /\ post \in [Promises -> Got \cup {"none", "ok"}]
  /\ reads \in SUBSET Promises
  /\ http \in HttpRecord
  /\ objects \in SUBSET (1 .. MaxPromises)
  /\ failed \in BOOLEAN
  /\ worker \in {"none", "connect", "answer", "refused", "take", "exchange",
                 "read", "deliver", "cleanup"}
  /\ reading \in [request : Promises \cup {NoPromise}, got : Got]
  /\ leaving \in 0 .. MaxPromises
  /\ wake \in BOOLEAN
  /\ lease \in LeaseRecord
  /\ link \in LinkRecord

Init ==
  /\ session = 1
  /\ owner = "app"
  /\ next = 1
  /\ prom = [r \in Promises |-> "free"]
  /\ post = [r \in Promises |-> "none"]
  /\ reads = {}
  /\ http = [alive |-> FALSE, abort |-> FALSE, command |-> "NONE",
             read_request |-> NoPromise, open |-> NoPromise, generation |-> 0,
             open_response |-> FALSE, chunk |-> FALSE, eof |-> FALSE,
             full |-> FALSE]
  /\ objects = {}
  /\ failed = FALSE
  /\ worker = "none"
  /\ reading = [request |-> NoPromise, got |-> "data"]
  /\ leaving = 0
  /\ wake = FALSE
  /\ lease = [handle |-> FALSE, acquire |-> NoPromise, stop_when_idle |-> FALSE]
  /\ link = [state |-> "DOWN", running |-> FALSE, stop |-> FALSE]

-----------------------------------------------------------------------------
(* Helpers.                                                                *)

(* pocket_api_complete(): a request number that owns no slot is ignored.   *)
Completed(r, status) ==
  IF r # NoPromise /\ prom[r] \in {"armed", "stopping"}
  THEN [post EXCEPT ![r] = status] ELSE post

Pending(r) == r # NoPromise /\ prom[r] \in {"armed", "stopping"}

(* http_ask_stop(), as seen in the record; it also gives the semaphore.    *)
AskedToStop(h) == [h EXCEPT !.abort = TRUE, !.command = "CLOSE"]

(* response_free()                                                         *)
ResponseFreed(h) == [h EXCEPT !.chunk = FALSE, !.open_response = FALSE]

(* wifi_time_link_stop(): only a link an owner still holds is asked.       *)
LinkStopped == IF link.running THEN [link EXCEPT !.stop = TRUE] ELSE link

(* response_live() of an object of the current generation.                 *)
ResponseLive == http.generation \in objects /\ http.open_response

-----------------------------------------------------------------------------
(* The link task, wifi_time.c do_link(): only what pocket_net.c can see.   *)

LinkComesUp ==
  /\ link.state = "CONNECTING" /\ link.running
  /\ link' = [link EXCEPT !.state = "UP"]
  /\ UNCHANGED <<reads, session, owner, next, prom, post, http, objects,
                 failed, worker, reading, leaving, wake, lease>>

(* Association failed, or a stop was seen while connecting or while up; it *)
(* is not seen between the last look and the link's coming up.             *)
LinkGoesDown ==
  /\ link.running
  /\ \/ link.state = "CONNECTING"
     \/ link.state = "UP" /\ link.stop
  /\ link' = [link EXCEPT !.state = "DOWN"]
  /\ UNCHANGED <<reads, session, owner, next, prom, post, http, objects,
                 failed, worker, reading, leaving, wake, lease>>

LinkIsLost ==
  /\ LinkLoss
  /\ link.state = "UP"
  /\ link' = [link EXCEPT !.state = "FAILED"]
  /\ UNCHANGED <<reads, session, owner, next, prom, post, http, objects,
                 failed, worker, reading, leaving, wake, lease>>

(* tear_down(), then the stop request, the owner and the lock are cleared. *)
LinkEnds ==
  /\ link.running /\ link.state \in {"DOWN", "FAILED"}
  /\ link' = [link EXCEPT !.running = FALSE, !.stop = FALSE]
  /\ UNCHANGED <<reads, session, owner, next, prom, post, http, objects,
                 failed, worker, reading, leaving, wake, lease>>

-----------------------------------------------------------------------------
(* The JS task: the lease.                                                 *)

(* Mutant: a full completion table is not noticed.                         *)
AcquireUnchecked ==
  /\ owner = "app" /\ next <= MaxPromises + 1
  /\ ~(lease.handle /\ link.state = "UP")
  /\ lease.acquire = NoPromise
  /\ ~link.running
  /\ link' = [state |-> "CONNECTING", running |-> TRUE, stop |-> FALSE]
  /\ lease' = [lease EXCEPT !.acquire = next]
  /\ prom' = [prom EXCEPT ![next] = "armed"]
  /\ next' = next + 1
  /\ UNCHANGED <<reads, session, owner, post, http, objects, failed, worker,
                 reading, leaving, wake>>

(* js_acquire(), when no lease is up to be shared: wifi_time_link_start()  *)
(* takes the link's lock, and is BUSY while a link is still held.          *)
Acquire ==
  /\ owner = "app" /\ next <= MaxPromises
  /\ ~(lease.handle /\ link.state = "UP")
  /\ lease.acquire = NoPromise
  /\ ~link.running
  /\ link' = [state |-> "CONNECTING", running |-> TRUE, stop |-> FALSE]
  /\ lease' = [lease EXCEPT !.acquire = next]
  /\ prom' = [prom EXCEPT ![next] = "armed"]
  /\ next' = next + 1
  /\ UNCHANGED <<reads, session, owner, post, http, objects, failed, worker,
                 reading, leaving, wake>>

(* A cancelled token or the deadline: acquire_stop().                      *)
AcquireStops ==
  /\ owner = "app" /\ lease.acquire # NoPromise
  /\ prom[lease.acquire] = "armed"
  /\ prom' = [prom EXCEPT ![lease.acquire] = "stopping"]
  /\ link' = LinkStopped
  /\ UNCHANGED <<reads, session, owner, next, post, http, objects, failed,
                 worker, reading, leaving, wake, lease>>

(* Mutant: a link that stopped before it came up is not an answer.         *)
AcquireSettlesIfUpOrFailed ==
  LET r == lease.acquire
      up == link.state = "UP" IN
  /\ owner = "app" /\ r # NoPromise
  /\ link.state \in {"UP", "FAILED"}
  /\ prom' = [prom EXCEPT ![r] = "settled"]
  /\ lease' = [lease EXCEPT !.acquire = NoPromise,
                            !.handle = @ \/ (up /\ prom[r] = "armed")]
  /\ link' = IF up /\ prom[r] = "stopping" THEN LinkStopped ELSE link
  /\ UNCHANGED <<reads, session, owner, next, post, http, objects, failed,
                 worker, reading, leaving, wake>>

(* pocket_net_pump() posts what the link came to; acquire_finish() settles *)
(* it in the same turn.                                                    *)
AcquireSettles ==
  LET r == lease.acquire
      up == link.state = "UP" IN
  /\ owner = "app" /\ r # NoPromise
  /\ link.state # "CONNECTING"
  /\ prom' = [prom EXCEPT ![r] = "settled"]
  /\ lease' = [lease EXCEPT !.acquire = NoPromise,
                            !.handle = @ \/ (up /\ prom[r] = "armed")]
  /\ link' = IF up /\ prom[r] = "stopping" THEN LinkStopped ELSE link
  /\ UNCHANGED <<reads, session, owner, next, post, http, objects, failed,
                 worker, reading, leaving, wake>>

(* lease_release(), up to its load of http.alive.                          *)
LeaseClose ==
  /\ owner = "app" /\ lease.handle
  /\ lease' = [lease EXCEPT !.handle = FALSE]
  /\ IF http.alive
     THEN owner' = "giving" /\ UNCHANGED link
     ELSE link' = LinkStopped /\ UNCHANGED owner
  /\ UNCHANGED <<reads, session, next, prom, post, http, objects, failed,
                 worker, reading, leaving, wake>>

(* The rest of lease_release() when a worker was alive.                    *)
LeaveLinkToWorker ==
  /\ owner \in {"giving", "ending"}
  /\ http' = AskedToStop(http)
  /\ wake' = TRUE
  /\ lease' = [lease EXCEPT !.stop_when_idle = TRUE]
  /\ owner' = IF owner = "giving" THEN "app" ELSE "over"
  /\ UNCHANGED <<reads, session, next, prom, post, objects, failed, worker,
                 reading, leaving, link>>

-----------------------------------------------------------------------------
(* The JS task: a request.                                                 *)

(* js_request(): one at a time, over a live lease, and not while the app   *)
(* still holds a response.  The worker starts within the call.             *)
Request ==
  /\ owner = "app" /\ next <= MaxPromises
  /\ lease.handle /\ link.state = "UP"
  /\ ~http.alive /\ ~http.open_response /\ http.open = NoPromise
  /\ http' = [alive |-> TRUE, abort |-> FALSE, command |-> "NONE",
              read_request |-> NoPromise, open |-> next,
              generation |-> http.generation + 1, open_response |-> FALSE,
              chunk |-> TRUE, eof |-> FALSE, full |-> FALSE]
  /\ wake' = FALSE
  /\ worker' = "connect"
  /\ prom' = [prom EXCEPT ![next] = "armed"]
  /\ next' = next + 1
  /\ failed' = FALSE
  /\ UNCHANGED <<reads, session, owner, post, objects, reading, leaving, lease,
                 link>>

(* request_stop(): cancelled, or the deadline, before the headers.         *)
RequestStops ==
  /\ owner = "app" /\ http.open # NoPromise
  /\ prom[http.open] = "armed" /\ post[http.open] = "none"
  /\ prom' = [prom EXCEPT ![http.open] = "stopping"]
  /\ http' = AskedToStop(http)
  /\ wake' = TRUE
  /\ UNCHANGED <<reads, session, owner, next, post, objects, failed, worker,
                 reading, leaving, lease, link>>

(* request_finish() of a request that was answered: the response object,   *)
(* unless the guest heap cannot hold it.                                   *)
RequestResolves ==
  /\ owner = "app" /\ Pending(http.open)
  /\ post[http.open] = "ok" /\ prom[http.open] = "armed"
  /\ prom' = [prom EXCEPT ![http.open] = "settled"]
  /\ \/ /\ http' = [http EXCEPT !.open = NoPromise, !.open_response = TRUE]
        /\ objects' = objects \cup {http.generation}
        /\ UNCHANGED wake
     \/ /\ http' = ResponseFreed(AskedToStop([http EXCEPT !.open = NoPromise]))
        /\ wake' = TRUE
        /\ UNCHANGED objects
  /\ UNCHANGED <<reads, session, owner, next, post, failed, worker, reading,
                 leaving, lease, link>>

(* request_finish() of one that failed or was stopped.                     *)
RequestRejects ==
  /\ owner = "app" /\ Pending(http.open)
  /\ \/ post[http.open] = "fail"
     \/ post[http.open] = "ok" /\ prom[http.open] = "stopping"
  /\ prom' = [prom EXCEPT ![http.open] = "settled"]
  /\ http' = [http EXCEPT !.open = NoPromise]
  /\ UNCHANGED <<reads, session, owner, next, post, objects, failed, worker,
                 reading, leaving, wake, lease, link>>

-----------------------------------------------------------------------------
(* The JS task: reads of the response.                                     *)

(* js_response_read(), past its refusals: one read at a time, while the    *)
(* worker exists, short of the end of the body and of the total.           *)
Read ==
  /\ owner = "app" /\ next <= MaxPromises
  /\ ResponseLive
  /\ ~http.eof /\ http.read_request = NoPromise /\ http.alive /\ ~http.full
  /\ http' = [http EXCEPT !.read_request = next, !.command = "READ"]
  /\ wake' = TRUE
  /\ prom' = [prom EXCEPT ![next] = "armed"]
  /\ next' = next + 1
  /\ reads' = reads \cup {next}
  /\ UNCHANGED <<session, owner, post, objects, failed, worker, reading,
                 leaving, lease, link>>

(* The refusal that also hangs up: the total has been read.                *)
ReadPastLimit ==
  /\ owner = "app" /\ ResponseLive
  /\ ~http.eof /\ http.read_request = NoPromise /\ http.alive /\ http.full
  /\ http' = AskedToStop(http)
  /\ wake' = TRUE
  /\ UNCHANGED <<reads, session, owner, next, prom, post, objects, failed,
                 worker, reading, leaving, lease, link>>

IsRead(r) == Pending(r) /\ r \in reads

(* read_stop(): cancelled, or the deadline.                                *)
ReadStops(r) ==
  /\ owner = "app" /\ IsRead(r) /\ prom[r] = "armed" /\ post[r] = "none"
  /\ prom' = [prom EXCEPT ![r] = "stopping"]
  /\ http' = [http EXCEPT !.abort = TRUE]
  /\ wake' = TRUE
  /\ UNCHANGED <<reads, session, owner, next, post, objects, failed, worker,
                 reading, leaving, lease, link>>

(* read_finish(): bytes count against the total unless it was stopped.     *)
ReadSettles(r) ==
  /\ owner = "app" /\ IsRead(r) /\ post[r] # "none"
  /\ prom' = [prom EXCEPT ![r] = "settled"]
  /\ failed' = (failed \/ post[r] = "fail")
  /\ \E full \in IF post[r] = "data" /\ prom[r] = "armed" THEN BOOLEAN
                                                        ELSE {http.full} :
       http' = [http EXCEPT !.read_request = NoPromise, !.full = @ \/ full]
  /\ UNCHANGED <<reads, session, owner, next, post, objects, worker, reading,
                 leaving, wake, lease, link>>

(* js_response_close()                                                     *)
ResponseClose ==
  /\ owner = "app" /\ ResponseLive
  /\ objects' = objects \ {http.generation}
  /\ http' = ResponseFreed(AskedToStop(http))
  /\ wake' = TRUE
  /\ UNCHANGED <<reads, session, owner, next, prom, post, failed, worker,
                 reading, leaving, lease, link>>

-----------------------------------------------------------------------------
(* The JS task: the session ends, and another begins.                      *)

(* Mutant: only a worker is a reason to give the response back.            *)
SessionEndsIfWorking ==
  LET busy == http.alive IN
  /\ owner = "app"
  /\ http' = IF busy THEN ResponseFreed(AskedToStop(http)) ELSE http
  /\ wake' = (wake \/ busy)
  /\ lease' = [lease EXCEPT !.acquire = NoPromise, !.handle = FALSE]
  /\ IF lease.handle /\ http.alive
     THEN owner' = "ending" /\ UNCHANGED link
     ELSE /\ owner' = "over"
          /\ link' = IF lease.handle \/ link.state = "CONNECTING"
                     THEN LinkStopped ELSE link
  /\ UNCHANGED <<reads, session, next, prom, post, objects, failed, worker,
                 reading, leaving>>

(* pocket_net_reset(), up to lease_release()'s load of http.alive.         *)
SessionEnds ==
  LET busy == http.open_response \/ http.alive IN
  /\ owner = "app"
  /\ http' = IF busy THEN ResponseFreed(AskedToStop(http)) ELSE http
  /\ wake' = (wake \/ busy)
  /\ lease' = [lease EXCEPT !.acquire = NoPromise, !.handle = FALSE]
  /\ IF lease.handle /\ http.alive
     THEN owner' = "ending" /\ UNCHANGED link
     ELSE /\ owner' = "over"
          /\ link' = IF lease.handle \/ link.state = "CONNECTING"
                     THEN LinkStopped ELSE link
  /\ UNCHANGED <<reads, session, next, prom, post, objects, failed, worker,
                 reading, leaving>>

(* pocket_api_reset() drops what is still pending; the guest is destroyed. *)
GuestIsGone ==
  /\ owner = "over"
  /\ prom' = [r \in Promises |-> IF Pending(r) THEN "dropped" ELSE prom[r]]
  /\ objects' = {}
  /\ owner' = "home"
  /\ UNCHANGED <<reads, session, next, post, http, failed, worker, reading,
                 leaving, wake, lease, link>>

(* pocket_net_install() of the next guest.                                 *)
SessionStarts ==
  /\ owner = "home" /\ session < MaxSessions
  /\ session' = session + 1
  /\ lease' = [lease EXCEPT !.handle = FALSE, !.acquire = NoPromise]
  /\ owner' = "app"
  /\ UNCHANGED <<reads, next, prom, post, http, objects, failed, worker,
                 reading, leaving, wake, link>>

-----------------------------------------------------------------------------
(* The worker: http_task().                                                *)

(* Mutant: an abort noticed while sending ends the worker unanswered.      *)
ConnectAbortsUnheard ==
  /\ worker = "connect"
  /\ \/ ~http.abort /\ worker' = "answer"
     \/ worker' = IF http.abort THEN "cleanup" ELSE "refused"
  /\ UNCHANGED <<reads, session, owner, next, prom, post, http, objects,
                 failed, reading, leaving, wake, lease, link>>

(* The connection, the body and the headers; an abort noticed by the last  *)
(* check, and any transport failure, is a failed request.                  *)
Connect ==
  /\ worker = "connect"
  /\ \/ ~http.abort /\ worker' = "answer"
     \/ worker' = "refused"
  /\ UNCHANGED <<reads, session, owner, next, prom, post, http, objects,
                 failed, reading, leaving, wake, lease, link>>

(* Mutant: both halves of the buffers are freed when the headers are in.   *)
AnswerFreesBuffers ==
  /\ worker \in {"answer", "refused"}
  /\ post' = Completed(http.open, IF worker = "answer" THEN "ok" ELSE "fail")
  /\ worker' = IF worker = "answer" THEN "take" ELSE "cleanup"
  /\ http' = [http EXCEPT !.chunk = FALSE]
  /\ UNCHANGED <<reads, session, owner, next, prom, objects, failed,
                 reading, leaving, wake, lease, link>>

(* pocket_api_complete(http.open, status)                                  *)
Answer ==
  /\ worker \in {"answer", "refused"}
  /\ post' = Completed(http.open, IF worker = "answer" THEN "ok" ELSE "fail")
  /\ worker' = IF worker = "answer" THEN "take" ELSE "cleanup"
  /\ UNCHANGED <<reads, session, owner, next, prom, http, objects, failed,
                 reading, leaving, wake, lease, link>>

(* Mutant: only the command word ends the loop.                            *)
TakeIgnoresAbort ==
  /\ worker = "take"
  /\ wake' = FALSE
  /\ worker' = "exchange"
  /\ UNCHANGED <<reads, session, owner, next, prom, post, http, objects,
                 failed, reading, leaving, lease, link>>

(* The semaphore is given or 200 ms pass; then http.abort is looked at.    *)
Take ==
  /\ worker = "take"
  /\ wake' = FALSE
  /\ worker' = IF http.abort THEN "cleanup" ELSE "exchange"
  /\ UNCHANGED <<reads, session, owner, next, prom, post, http, objects,
                 failed, reading, leaving, lease, link>>

(* The command is taken, and with READ the number of the pending read.     *)
Exchange ==
  /\ worker = "exchange"
  /\ http' = [http EXCEPT !.command = "NONE"]
  /\ worker' = CASE http.command = "READ"  -> "read"
                 [] http.command = "CLOSE" -> "cleanup"
                 [] http.command = "NONE"  -> "take"
  /\ reading' = IF http.command = "READ"
                THEN [request |-> http.read_request, got |-> "data"]
                ELSE reading
  /\ UNCHANGED <<reads, session, owner, next, prom, post, objects, failed,
                 leaving, wake, lease, link>>

(* esp_http_client_read() into http.chunk, if the link is still up.        *)
ReadBody ==
  /\ worker = "read"
  /\ \E got \in IF link.state = "UP" THEN Got ELSE {"fail"} :
       /\ reading' = [reading EXCEPT !.got = got]
       /\ http' = [http EXCEPT !.eof = @ \/ got = "eof"]
  /\ worker' = "deliver"
  /\ UNCHANGED <<reads, session, owner, next, prom, post, objects, failed,
                 leaving, wake, lease, link>>

(* Mutant: a read that failed only hangs up.                               *)
DeliverUnlessFailed ==
  /\ worker = "deliver"
  /\ post' = IF reading.got = "fail" THEN post
           ELSE Completed(reading.request, reading.got)
  /\ worker' = IF reading.got = "fail" THEN "cleanup" ELSE "take"
  /\ UNCHANGED <<reads, session, owner, next, prom, http, objects, failed,
                 reading, leaving, wake, lease, link>>

Deliver ==
  /\ worker = "deliver"
  /\ post' = Completed(reading.request, reading.got)
  /\ worker' = IF reading.got = "fail" THEN "cleanup" ELSE "take"
  /\ UNCHANGED <<reads, session, owner, next, prom, http, objects, failed,
                 reading, leaving, wake, lease, link>>

(* The client is closed and its buffers freed; alive is the last store.    *)
Cleanup ==
  /\ worker = "cleanup"
  /\ http' = [http EXCEPT !.alive = FALSE]
  /\ worker' = "none"
  /\ leaving' = leaving + 1
  /\ UNCHANGED <<reads, session, owner, next, prom, post, objects, failed,
                 reading, wake, lease, link>>

(* The radio a closed lease left behind is taken down on the way out.      *)
Leave ==
  /\ leaving > 0
  /\ leaving' = leaving - 1
  /\ lease' = [lease EXCEPT !.stop_when_idle = FALSE]
  /\ link' = IF lease.stop_when_idle THEN LinkStopped ELSE link
  /\ UNCHANGED <<reads, session, owner, next, prom, post, http, objects,
                 failed, worker, reading, wake>>

-----------------------------------------------------------------------------
LinkTask == LinkComesUp \/ LinkGoesDown \/ LinkIsLost \/ LinkEnds

Settle ==
  \/ AcquireSettles \/ RequestResolves \/ RequestRejects
  \/ \E r \in Promises : ReadSettles(r)

App ==
  \/ Acquire \/ AcquireStops \/ LeaseClose \/ LeaveLinkToWorker
  \/ Request \/ RequestStops
  \/ Read \/ ReadPastLimit \/ ResponseClose
  \/ \E r \in Promises : ReadStops(r)
  \/ SessionEnds \/ GuestIsGone \/ SessionStarts

Worker == Connect \/ Answer \/ Take \/ Exchange \/ ReadBody \/ Deliver
          \/ Cleanup

Next == LinkTask \/ Settle \/ App \/ Worker \/ Leave

Spec == Init /\ [][Next]_vars

(* The owner loop pumps every frame, the worker's socket calls carry       *)
(* timeouts, and the link task's waits are bounded.  What the app does,    *)
(* deadlines included, is not fair: it may await for ever.                 *)
Fairness ==
  /\ WF_vars(Settle) /\ WF_vars(LeaveLinkToWorker) /\ WF_vars(GuestIsGone)
  /\ WF_vars(Worker) /\ WF_vars(Leave)
  /\ WF_vars(LinkComesUp \/ LinkGoesDown) /\ WF_vars(LinkEnds)

FairSpec == Spec /\ Fairness

-----------------------------------------------------------------------------
(* Properties.                                                             *)

(* A response that keeps other requests out is one the app can close: no   *)
(* end of a worker, a request or a session leaves it open without its      *)
(* object.                                                                 *)
ResponseCanBeClosed ==
  owner = "app" /\ http.open_response => http.generation \in objects

(* A request the app was handed a Promise for settles, or its session      *)
(* ends: whatever stops it, the worker answers http.open.                  *)
EveryRequestEnds ==
  \A r \in Promises : (r = http.open /\ Pending(r)) ~> ~Pending(r)

(* So does an acquire, however the link ends.                              *)
EveryAcquireEnds ==
  \A r \in Promises : (r = lease.acquire /\ Pending(r)) ~> ~Pending(r)

(* A worker told to stop goes away and lets the next request in.           *)
WorkerEnds == (http.alive /\ http.abort) ~> ~http.alive

InSession == owner \in {"app", "giving"}

(* A read is not left behind by its worker: once the worker has gone, each *)
(* pending read has been posted, so the pump will settle it.               *)
ReadsAreAnswered ==
  InSession => \A r \in Promises : IsRead(r) /\ worker = "none"
                                     => post[r] # "none"

(* The chunk exists while the worker reads into it and until the bytes it  *)
(* brought are copied for the app.                                         *)
ChunkHeld ==
  /\ InSession
  /\ \/ worker = "read"
     \/ \E r \in Promises : IsRead(r) /\ prom[r] = "armed" /\ post[r] = "data"
  => http.chunk

(* A read() ends, whatever the link, the pump and the worker do, unless    *)
(* the worker is told to stop in the meantime or had given up at a read    *)
(* before: its answer is posted to the read that asked, the body's end and *)
(* a failure included.                                                     *)
Awaited(r) == IsRead(r) /\ r = http.read_request
EveryReadEnds ==
  \A r \in Promises : Awaited(r) ~> ~IsRead(r) \/ http.abort \/ failed

(* Nothing survives a session: a request waiting for its headers, which    *)
(* makes every other one BUSY, is one of the session that runs.            *)
NothingSurvives ==
  owner = "app" /\ http.open # NoPromise => Pending(http.open)
=============================================================================
