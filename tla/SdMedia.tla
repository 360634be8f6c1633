------------------------------ MODULE SdMedia ------------------------------
(***************************************************************************)
(* The SD card as the firmware keeps it: the volume an app sees            *)
(* (src/main/pocket/sd_path.c), the registry of read leases                *)
(* (src/main/pocket/sd_lease.c) and the functions that move both           *)
(* (src/main/pocket/sd_media.c).  One record holds all of it; each         *)
(* operator is what one call leaves of the record.  Everything but a       *)
(* token's own flags belongs to the owner task; a reader's worker sets     *)
(* fault and ack, and reads revoked.                                       *)
(***************************************************************************)
EXTENDS Integers, FiniteSets

CONSTANTS
  Leases,  \* the read leases ever attached
  MaxGen   \* how often a card is mounted

ASSUME SdMediaAssumption == MaxGen \in Nat /\ IsFiniteSet(Leases)

Token == [gen : 0 .. MaxGen, revoked : BOOLEAN, fault : BOOLEAN, ack : BOOLEAN]
NoToken == [gen |-> 0, revoked |-> FALSE, fault |-> FALSE, ack |-> FALSE]

Media ==
  [state : {"absent", "ready", "error"},
   gen : 0 .. MaxGen,          \* media.generation
   granted : BOOLEAN,
   card : 0 .. MaxGen,         \* the generation under the VFS, 0 is no VFS
   answers : BOOLEAN,          \* is that card still in its slot?
   mounted : BOOLEAN, pending : BOOLEAN,   \* the registry's two flags
   head : SUBSET Leases,
   tok : [Leases -> Token]]

(* sd_media_init()                                                         *)
SdInit ==
  [state |-> "absent", gen |-> 0, granted |-> FALSE, card |-> 0,
   answers |-> FALSE, mounted |-> FALSE, pending |-> FALSE, head |-> {},
   tok |-> [l \in Leases |-> NoToken]]

-----------------------------------------------------------------------------
(* The volume.                                                             *)

(* sd_media_removed(): the grant goes with the card.                       *)
Removed(sd) == [sd EXCEPT !.state = "absent", !.granted = FALSE]

(* sd_media_failed()                                                       *)
Failed(sd) == [sd EXCEPT !.state = "error"]

(* sd_media_grant()                                                        *)
Granted(sd) == [sd EXCEPT !.granted = TRUE]

Usable(sd) == sd.state = "ready" /\ sd.granted

-----------------------------------------------------------------------------
(* The registry.                                                           *)

(* sd_lease_cancel_all()                                                   *)
CancelAll(sd) ==
  [sd EXCEPT !.mounted = FALSE, !.pending = TRUE,
             !.tok = [l \in Leases |->
                        IF l \in sd.head THEN [@[l] EXCEPT !.revoked = TRUE]
                                         ELSE @[l]]]

(* sd_lease_attach(), with the generation the file was opened under        *)
MayAttach(sd, l) == sd.mounted /\ ~sd.pending /\ l \notin sd.head
Attached(sd, l) ==
  [sd EXCEPT !.head = @ \cup {l}, !.tok[l] = [NoToken EXCEPT !.gen = sd.gen]]

(* Mutant: the leases that are still out are not looked at.                *)
ReadyAtOnce(sd) == sd.pending

(* sd_lease_ready_to_unmount()                                             *)
ReadyToUnmount(sd) == sd.pending /\ sd.head = {}

-----------------------------------------------------------------------------
(* The calls that move both.                                               *)

(* sd_media_note_error() for an error that means the card is gone          *)
NoteError(sd) == Removed(CancelAll(sd))

(* The faults the workers left, taken.                                     *)
FaultsTaken(sd) ==
  [sd EXCEPT !.tok = [l \in Leases |->
                        IF l \in sd.head THEN [@[l] EXCEPT !.fault = FALSE]
                                         ELSE @[l]]]

(* sd_media_service(): a fault becomes a removal, and the card is given    *)
(* back once no lease pins it.                                             *)
Serviced(sd) ==
  LET told == IF \E l \in sd.head : sd.tok[l].fault
                THEN NoteError(FaultsTaken(sd)) ELSE sd
  IN  IF ReadyToUnmount(told)
        THEN [told EXCEPT !.card = 0, !.answers = FALSE, !.pending = FALSE]
        ELSE told

(* sd_media_unmount()                                                      *)
Unmounted(sd) == Serviced(Removed(CancelAll(sd)))

(* sd_media_mount(): what it leaves when the slot answers as it does.  A   *)
(* volume that is ready is left as it is; a card still pinned is no mount. *)
Outcomes == {"ok", "absent", "refused"}
MountedAs(sd, outcome) ==
  LET s == Serviced(sd)
      m == [s EXCEPT !.state = "ready", !.gen = @ + 1]
  IN  CASE sd.state = "ready" -> sd
        [] sd.state # "ready" /\ s.pending -> s
        [] sd.state # "ready" /\ ~s.pending /\ outcome = "absent" -> Removed(s)
        [] sd.state # "ready" /\ ~s.pending /\ outcome = "refused" -> Failed(s)
        [] OTHER -> IF s.head = {}
                      THEN [m EXCEPT !.card = m.gen, !.answers = TRUE,
                                      !.mounted = TRUE]
                      ELSE Removed([m EXCEPT !.card = 0])

(* Mutant: a fault that was not serviced yet goes with its lease.          *)
ClosedSilently(sd, ls) ==
  [sd EXCEPT !.head = @ \ ls,
             !.tok = [l \in Leases |-> IF l \in ls THEN NoToken ELSE @[l]]]

(* sd_media_read_lease_close() of leases whose workers have acknowledged:  *)
(* a fault is taken first, so that detaching cannot hide a removal.        *)
Closed(sd, ls) ==
  LET told == IF \E l \in ls : sd.tok[l].fault THEN NoteError(sd) ELSE sd
  IN  [told EXCEPT !.head = @ \ ls,
                   !.tok = [l \in Leases |->
                              IF l \in ls THEN NoToken ELSE @[l]]]
=============================================================================
