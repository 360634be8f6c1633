--------------------------- MODULE SourceHistory ---------------------------
(***************************************************************************)
(* What src/main/text/srcstore.c promises of its records: a record is its  *)
(* last version and at most one before it.  A version is added whole or    *)
(* not at all, the older one goes before a new one comes, and the last one *)
(* goes only when the record is being forgotten.                           *)
(***************************************************************************)
EXTENDS Naturals, Sequences

CONSTANTS Records,    \* what is kept: the slots and the parked draft
          Versions    \* what one version can be

VARIABLES history,    \* the versions of a record, newest first
          forgetting  \* the records nobody counts on: never saved, or being
                      \* forgotten

Init == history = [r \in Records |-> <<>>] /\ forgetting = Records

(* The next save has begun: the version before the last goes.              *)
Trim(r) ==
  /\ Len(history[r]) = 2
  /\ history' = [history EXCEPT ![r] = <<Head(@)>>]

(* The new version is there.                                               *)
Add(r, v) ==
  /\ Len(history[r]) < 2
  /\ history' = [history EXCEPT ![r] = <<v>> \o @]

(* Forgetting takes the versions in either order.                          *)
Forget(r) ==
  /\ r \in forgetting
  /\ history[r] # <<>>
  /\ history' = [history EXCEPT ![r] = Tail(@)]

Next == /\ forgetting' \in SUBSET Records
        /\ \/ UNCHANGED history
           \/ \E r \in Records : Trim(r) \/ Forget(r)
           \/ \E r \in Records, v \in Versions : Add(r, v)

Spec == Init /\ [][Next]_<<history, forgetting>>
=============================================================================
