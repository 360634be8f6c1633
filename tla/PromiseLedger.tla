---------------------------- MODULE PromiseLedger ----------------------------
(***************************************************************************)
(* What pocket_api.h promises a surface, without slots, tasks or wakes: a  *)
(* Promise is handed out once for each request; the work of that request   *)
(* ends once, with one status; the Promise settles at most once, only      *)
(* after its own work has ended and with that status; when the session     *)
(* ends, what is still pending is dropped for good.                        *)
(***************************************************************************)
CONSTANTS Requests, Statuses

VARIABLES
  ledger,   \* what the guest holds for a request
  work,     \* the status a request's work ended with, or "none"
  told      \* the status the Promise settled with, or "none"

vars == <<ledger, work, told>>

Init ==
  /\ ledger = [r \in Requests |-> "none"]
  /\ work = [r \in Requests |-> "none"]
  /\ told = [r \in Requests |-> "none"]

(* The Promise is handed to the guest, whether or not the work is over.    *)
Hand(r) ==
  /\ ledger[r] = "none"
  /\ ledger' = [ledger EXCEPT ![r] = "pending"]
  /\ UNCHANGED <<work, told>>

(* The work of a request ends, heard or not.                               *)
End(r) ==
  /\ work[r] = "none"
  /\ \E s \in Statuses : work' = [work EXCEPT ![r] = s]
  /\ UNCHANGED <<ledger, told>>

Settle(r) ==
  /\ ledger[r] = "pending" /\ work[r] # "none"
  /\ ledger' = [ledger EXCEPT ![r] = "settled"]
  /\ told' = [told EXCEPT ![r] = work[r]]
  /\ UNCHANGED work

(* The session ends with everything that is still pending.                 *)
Drop ==
  /\ ledger' = [r \in Requests |->
                  IF ledger[r] = "pending" THEN "dropped" ELSE ledger[r]]
  /\ UNCHANGED <<work, told>>

Next == Drop \/ \E r \in Requests : Hand(r) \/ End(r) \/ Settle(r)

Spec == Init /\ [][Next]_vars
=============================================================================
