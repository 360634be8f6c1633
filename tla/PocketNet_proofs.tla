--------------------------- MODULE PocketNet_proofs ---------------------------
(***************************************************************************)
(* Theorems about PocketNet, for every number of promises and sessions,    *)
(* with and without the loss of a link.                                    *)
(***************************************************************************)
EXTENDS PocketNet, TLAPS

(* The record http is held by alive, and numbers are taken in order: each  *)
(* worker was started for a request number of its own.                     *)
NetShape ==
  /\ http.alive <=> worker # "none"
  /\ http.generation < next
  /\ leaving + (IF worker = "none" THEN 0 ELSE 1) <= http.generation
  /\ http.open # NoPromise => http.generation > 0

(* An open response has its object while the app can call, and is freed    *)
(* before the guest goes.                                                  *)
ResponseShape ==
  /\ owner \in {"app", "giving"} /\ http.open_response
       => http.generation \in objects
  /\ owner \in {"ending", "over", "home"} => ~http.open_response

NetInv == TypeOK /\ NetShape /\ ResponseShape

-----------------------------------------------------------------------------
(* The helpers.                                                            *)

LEMMA LinkStoppedType ==
  ASSUME TypeOK PROVE LinkStopped \in LinkRecord
BY DEF TypeOK, LinkStopped, LinkRecord

LEMMA CompletedType ==
  ASSUME TypeOK, NEW r, NEW status \in Got \cup {"none", "ok"}
  PROVE  Completed(r, status) \in [Promises -> Got \cup {"none", "ok"}]
BY DEF TypeOK, Completed, Promises, NoPromise

(* A request to stop, and freeing the response, leave the rest alone.      *)
LEMMA StopFacts ==
  ASSUME NEW h \in HttpRecord
  PROVE  /\ AskedToStop(h) \in HttpRecord
         /\ AskedToStop(h).alive = h.alive
         /\ AskedToStop(h).open = h.open
         /\ AskedToStop(h).read_request = h.read_request
         /\ AskedToStop(h).generation = h.generation
         /\ AskedToStop(h).open_response = h.open_response
         /\ AskedToStop(h).chunk = h.chunk
         /\ AskedToStop(h).full = h.full
         /\ AskedToStop(h).abort
         /\ AskedToStop(h).command = "CLOSE"
BY DEF AskedToStop, HttpRecord

LEMMA FreedFacts ==
  ASSUME NEW h \in HttpRecord
  PROVE  /\ ResponseFreed(h) \in HttpRecord
         /\ ResponseFreed(h).alive = h.alive
         /\ ResponseFreed(h).open = h.open
         /\ ResponseFreed(h).read_request = h.read_request
         /\ ResponseFreed(h).generation = h.generation
         /\ ~ResponseFreed(h).open_response
         /\ ~ResponseFreed(h).chunk
         /\ ResponseFreed(h).full = h.full
         /\ ResponseFreed(h).abort = h.abort
         /\ ResponseFreed(h).command = h.command
BY DEF ResponseFreed, HttpRecord

-----------------------------------------------------------------------------
(* The link's task.                                                        *)
LEMMA LinkInv ==
  ASSUME NetInv, LinkTask PROVE NetInv'
<1> USE DEF NetInv, TypeOK, NetShape, ResponseShape, LinkRecord
<1>1. CASE LinkComesUp
  BY <1>1 DEF LinkComesUp
<1>2. CASE LinkGoesDown
  BY <1>2 DEF LinkGoesDown
<1>3. CASE LinkIsLost
  BY <1>3 DEF LinkIsLost
<1>4. CASE LinkEnds
  BY <1>4 DEF LinkEnds
<1> QED
  BY <1>1, <1>2, <1>3, <1>4 DEF LinkTask

(* What the pump settles.                                                  *)
LEMMA SettleInv ==
  ASSUME NetInv, Settle PROVE NetInv'
<1> USE NetAssumption DEF NetInv, TypeOK, NetShape, ResponseShape, Promises,
                          NoPromise
<1>1. CASE AcquireSettles
  <2>1. link' \in LinkRecord /\ lease' \in LeaseRecord
    BY <1>1, LinkStoppedType DEF AcquireSettles, LeaseRecord
  <2> QED
    BY <1>1, <2>1 DEF AcquireSettles
<1>2. CASE RequestResolves
  <2>1. http.generation \in 1 .. MaxPromises
    BY <1>2 DEF RequestResolves, Pending, HttpRecord
  <2>2. /\ http' \in HttpRecord /\ http'.alive = http.alive
        /\ http'.open = NoPromise /\ http'.generation = http.generation
        /\ http'.open_response => objects' = objects \cup {http.generation}
        /\ objects' \in SUBSET (1 .. MaxPromises)
    <3>1. [http EXCEPT !.open = NoPromise] \in HttpRecord
      BY DEF HttpRecord
    <3>2. CASE /\ http' = [http EXCEPT !.open = NoPromise,
                                       !.open_response = TRUE]
               /\ objects' = objects \cup {http.generation}
      BY <2>1, <3>2 DEF HttpRecord
    <3>3. CASE /\ http' = ResponseFreed(AskedToStop([http EXCEPT
                                                       !.open = NoPromise]))
               /\ UNCHANGED objects
      <4> DEFINE h == [http EXCEPT !.open = NoPromise]
      <4>1. h.alive = http.alive /\ h.open = NoPromise
            /\ h.generation = http.generation
        BY DEF HttpRecord
      <4>2. h \in HttpRecord /\ http' = ResponseFreed(AskedToStop(h))
        BY <3>1, <3>3
      <4> HIDE DEF h
      <4> DEFINE a == AskedToStop(h)
      <4>3. a \in HttpRecord /\ a.alive = h.alive /\ a.open = h.open
            /\ a.generation = h.generation
        BY <4>2, StopFacts
      <4>4. http' = ResponseFreed(a)
        BY <4>2
      <4> HIDE DEF a
      <4> QED
        BY <3>3, <4>1, <4>3, <4>4, FreedFacts
    <3> QED
      BY <1>2, <3>2, <3>3 DEF RequestResolves
  <2> QED
    BY <1>2, <2>1, <2>2 DEF RequestResolves
<1>3. CASE RequestRejects
  BY <1>3 DEF RequestRejects, HttpRecord
<1>4. ASSUME NEW r \in Promises, ReadSettles(r) PROVE NetInv'
  <2>1. /\ http' \in HttpRecord
        /\ http'.alive = http.alive /\ http'.open = http.open
        /\ http'.generation = http.generation
        /\ http'.open_response = http.open_response
    <3>1. PICK full \in BOOLEAN :
            http' = [http EXCEPT !.read_request = NoPromise,
                                 !.full = @ \/ full]
      <4>1. http.full \in BOOLEAN
        BY DEF HttpRecord
      <4> QED
        BY <1>4, <4>1 DEF ReadSettles
    <3>2. 0 \in Promises \cup {NoPromise}
      OBVIOUS
    <3> QED
      BY <3>1, <3>2 DEF HttpRecord
  <2> QED
    BY <1>4, <2>1 DEF ReadSettles
<1> QED
  BY <1>1, <1>2, <1>3, <1>4 DEF Settle

(* What the app calls, and the ends and beginnings of its sessions.        *)
LEMMA AppInv ==
  ASSUME NetInv, App PROVE NetInv'
<1> USE NetAssumption DEF NetInv, TypeOK, NetShape, ResponseShape, Promises,
                          NoPromise
<1>1. CASE Acquire
  <2>1. link' \in LinkRecord /\ lease' \in LeaseRecord
    <3>1. next \in Promises
      BY <1>1 DEF Acquire
    <3>2. lease' \in LeaseRecord
      BY <1>1, <3>1 DEF Acquire, LeaseRecord
    <3> QED
      BY <1>1, <3>2 DEF Acquire, LinkRecord
  <2>2. next' \in 1 .. (MaxPromises + 1) /\ next' = next + 1
    BY <1>1 DEF Acquire
  <2>3. http.generation \in Nat
    BY DEF HttpRecord
  <2>4. TypeOK'
    BY <1>1, <2>1, <2>2 DEF Acquire
  <2> QED
    BY <1>1, <2>2, <2>3, <2>4 DEF Acquire
<1>2. CASE AcquireStops
  BY <1>2, LinkStoppedType DEF AcquireStops
<1>3. CASE LeaseClose
  BY <1>3, LinkStoppedType DEF LeaseClose, LeaseRecord
<1>4. CASE LeaveLinkToWorker
  BY <1>4, StopFacts DEF LeaveLinkToWorker, LeaseRecord
<1>5. CASE Request
  <2>1. http.generation \in Nat /\ http.generation + 1 \in 1 .. MaxPromises
    BY <1>5 DEF Request, HttpRecord
  <2>2. /\ http' \in HttpRecord
        /\ http'.alive /\ http'.generation = http.generation + 1
        /\ http'.open = next /\ ~http'.open_response
    BY <1>5, <2>1 DEF Request, HttpRecord
  <2>3. next' \in 1 .. (MaxPromises + 1) /\ next' = next + 1
    BY <1>5 DEF Request
  <2>4. TypeOK'
    BY <1>5, <2>2, <2>3 DEF Request
  <2>5. NetShape'
    BY <1>5, <2>1, <2>2, <2>3 DEF Request
  <2> QED
    BY <1>5, <2>2, <2>4, <2>5 DEF Request
<1>6. CASE RequestStops
  BY <1>6, StopFacts DEF RequestStops
<1>7. CASE Read
  <2>1. /\ http' \in HttpRecord
        /\ http'.alive = http.alive /\ http'.open = http.open
        /\ http'.generation = http.generation
        /\ http'.open_response = http.open_response
    <3>1. next \in Promises
      BY <1>7 DEF Read
    <3> QED
      BY <1>7, <3>1 DEF Read, HttpRecord
  <2>2. http.generation \in Nat
    BY DEF HttpRecord
  <2> QED
    BY <1>7, <2>1, <2>2 DEF Read
<1>8. CASE ReadPastLimit
  BY <1>8, StopFacts DEF ReadPastLimit
<1>9. CASE ResponseClose
  BY <1>9, StopFacts, FreedFacts DEF ResponseClose
<1>10. ASSUME NEW r \in Promises, ReadStops(r) PROVE NetInv'
  BY <1>10 DEF ReadStops, HttpRecord
<1>11. CASE SessionEnds
  <2>1. http' \in HttpRecord /\ ~http'.open_response
        /\ http'.alive = http.alive /\ http'.open = http.open
        /\ http'.generation = http.generation
    BY <1>11, StopFacts, FreedFacts DEF SessionEnds, HttpRecord
  <2>2. link' \in LinkRecord /\ lease' \in LeaseRecord
    BY <1>11, LinkStoppedType DEF SessionEnds, LeaseRecord
  <2> QED
    BY <1>11, <2>1, <2>2 DEF SessionEnds
<1>12. CASE GuestIsGone
  BY <1>12 DEF GuestIsGone
<1>13. CASE SessionStarts
  <2>1. lease' \in LeaseRecord
    BY <1>13 DEF SessionStarts, LeaseRecord
  <2> QED
    BY <1>13, <2>1 DEF SessionStarts
<1> QED
  BY <1>1, <1>2, <1>3, <1>4, <1>5, <1>6, <1>7, <1>8, <1>9, <1>10, <1>11,
     <1>12, <1>13 DEF App

(* The worker.                                                             *)
LEMMA WorkerInv ==
  ASSUME NetInv, Worker \/ Leave PROVE NetInv'
<1> USE NetAssumption DEF NetInv, TypeOK, NetShape, ResponseShape
<1>1. CASE Connect
  BY <1>1 DEF Connect
<1>2. CASE Answer
  BY <1>2, CompletedType DEF Answer, Got
<1>3. CASE Take
  BY <1>3 DEF Take
<1>4. CASE Exchange
  BY <1>4 DEF Exchange, HttpRecord, Got
<1>5. CASE ReadBody
  BY <1>5 DEF ReadBody, HttpRecord, Got
<1>6. CASE Deliver
  BY <1>6, CompletedType DEF Deliver
<1>7. CASE Cleanup
  <2>1. /\ http' \in HttpRecord
        /\ ~http'.alive /\ http'.open = http.open
        /\ http'.generation = http.generation
        /\ http'.open_response = http.open_response
    BY <1>7 DEF Cleanup, HttpRecord
  <2>2. http.generation \in 0 .. MaxPromises
    BY DEF HttpRecord
  <2> QED
    BY <1>7, <2>1, <2>2 DEF Cleanup
<1>8. CASE Leave
  <2>1. link' \in LinkRecord /\ lease' \in LeaseRecord
    BY <1>8, LinkStoppedType DEF Leave, LeaseRecord
  <2>2. leaving' \in 0 .. MaxPromises /\ leaving' < leaving
    BY <1>8 DEF Leave
  <2>3. http.generation \in 0 .. MaxPromises
    BY DEF HttpRecord
  <2>4. TypeOK'
    BY <1>8, <2>1, <2>2 DEF Leave
  <2>5. NetShape'
    BY <1>8, <2>2, <2>3 DEF Leave
  <2> QED
    BY <1>8, <2>4, <2>5 DEF Leave
<1> QED
  BY <1>1, <1>2, <1>3, <1>4, <1>5, <1>6, <1>7, <1>8 DEF Worker

LEMMA NetInvInit == Init => NetInv
<1> SUFFICES ASSUME Init PROVE NetInv
  OBVIOUS
<1>1. http \in HttpRecord /\ lease \in LeaseRecord /\ link \in LinkRecord
  BY NetAssumption DEF Init, HttpRecord, LeaseRecord, LinkRecord, NoPromise
<1>2. 1 \in 1 .. MaxSessions /\ 1 \in 1 .. (MaxPromises + 1)
      /\ 0 \in 0 .. MaxPromises
  BY NetAssumption
<1>3. TypeOK
  BY <1>1, <1>2 DEF Init, TypeOK, Got
<1> QED
  BY <1>3, NetAssumption DEF Init, NetInv, NetShape, ResponseShape, NoPromise

LEMMA NetInvNext == NetInv /\ [Next]_vars => NetInv'
<1>1. ASSUME NetInv, UNCHANGED vars PROVE NetInv'
  BY <1>1 DEF NetInv, TypeOK, NetShape, ResponseShape, vars
<1> QED
  BY <1>1, LinkInv, SettleInv, AppInv, WorkerInv DEF Next

LEMMA NetAlways == Spec => []NetInv
BY NetInvInit, NetInvNext, PTL DEF Spec

(* Every record has its type: in particular no generation of a response    *)
(* and no count of leaving workers passes the promises that were opened.   *)
THEOREM NetTypes == Spec => []TypeOK
<1>1. NetInv => TypeOK
  BY DEF NetInv
<1> QED
  BY <1>1, NetAlways, PTL

(* A response that keeps other requests out has the object the app closes  *)
(* it with (pocket_net.c request_finish(), js_response_close(),            *)
(* pocket_net_reset()).                                                    *)
THEOREM ResponseTheorem == Spec => []ResponseCanBeClosed
<1>1. NetInv => ResponseCanBeClosed
  BY DEF NetInv, ResponseShape, ResponseCanBeClosed
<1> QED
  BY <1>1, NetAlways, PTL
=============================================================================
