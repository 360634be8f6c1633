------------------------ MODULE PocketWorkspace_proofs ------------------------
(***************************************************************************)
(* Proofs about the works of apps, for any apps and what their manifests   *)
(* grant, any works and texts, and any bounds on the sessions, the         *)
(* pickers, the versions and the faults.                                   *)
(***************************************************************************)
EXTENDS PocketWorkspace, WellFoundedInduction, TLAPS

(* Where the guest runs, and can be in the middle of a create().           *)
GuestPhases ==
  {"loading", "early", "late", "stopping", "drowsy", "dozing", "waking"}

(* At home there is no guest and nothing of one, and a create() is under   *)
(* way only where the guest runs.                                          *)
TurnInv ==
  /\ app = None <=> phase = "home"
  /\ app # None => sessions # 0
  /\ app = None => refs = {} /\ chosen = {} /\ chosenBefore = {}
  /\ making # None => phase \in GuestPhases /\ author[making.slot] = app

(* What is fresh was left by this session, and so was what lies at home; a *)
(* run that waits is of a session there was, and of this one as long as    *)
(* what it left is fresh.                                                  *)
HandInv ==
  /\ HandOver
  /\ app = None => ~launch.fresh
  /\ (launch.fresh \/ app = None) /\ launch.state # None
     => launch.state = sessions
  /\ ran.by # None => ran.by <= sessions
  /\ app # None /\ ran.by = sessions
     => launch.fresh /\ ran.left = launch.state

(* A revision names a version: what an app was told under the revision the *)
(* record has now is what it holds.  (A creation that is taken back gives  *)
(* its revision to the next one, but nobody was told of it.)               *)
ToldOf(t, v) ==
  /\ t.revision = 0 => t = NoVersion
  /\ t.revision <= v.revision
  /\ t.revision = v.revision => t = v

ToldInv ==
  /\ \A s \in Works : store[s].revision = 0 => store[s] = NoVersion
  /\ \A a \in Apps, s \in Works : ToldOf(told[a][s], store[s])
  /\ making # None => \A a \in Apps : told[a][making.slot] = NoVersion

(* A reference is the guest's by creating the work or by the person's      *)
(* choice, and so is permission.                                           *)
RefsInv ==
  /\ \A s \in refs : author[s] = app \/ s \in chosen \cup chosenBefore
  /\ picked \subseteq chosen
  /\ pick_slot \in chosen \cup chosenBefore \cup {None}

WorkInv ==
  TypeOK /\ TurnInv /\ PickerHasItsPromise /\ HandInv /\ ToldInv /\ RefsInv

-----------------------------------------------------------------------------
(* Types.                                                                  *)

LEMMA Constants ==
  /\ MaxRevision \in Nat /\ MaxSessions \in Nat /\ MaxPicks \in Nat
  /\ MaxFaults \in Nat /\ 1 \in 0 .. MaxRevision /\ 0 \in 0 .. MaxRevision
  /\ 0 \in 0 .. MaxPicks
  /\ NoVersion \in Version /\ NoVersion.revision = 0
  /\ WorkSlots \subseteq Works /\ User \in Works
  /\ Host \notin Apps /\ None \notin Apps /\ WorkApp \in Apps
  /\ None \notin Works /\ Null \notin Works /\ Error \notin Works
  /\ Ends \cap Apps = {} /\ None \notin Ends /\ None \notin Nat
  BY WorkspaceAssumption DEF Works, Version, NoVersion, Ends

(* A set of natural numbers that is not empty has a least element.         *)
LEMMA Least ==
  ASSUME NEW T, T \subseteq Nat, T # {}
  PROVE  \E n \in T : \A m \in T : n <= m
<1> DEFINE R == {p \in Nat \X Nat : p[1] < p[2]}
<1>1. R = OpToRel(<, Nat)
  BY DEF OpToRel
<1>2. IsWellFoundedOn(R, Nat)
  BY <1>1, NatLessThanWellFounded
<1> HIDE DEF R
<1>3. PICK n \in T : \A m \in T : ~(<<m, n>> \in R)
  BY <1>2, WFMin
<1>4. ASSUME NEW m \in T PROVE n <= m
  <2>1. m \in Nat /\ n \in Nat /\ <<m, n>> \in Nat \X Nat
    OBVIOUS
  <2>2. ~(<<m, n>>[1] < <<m, n>>[2])
    BY <1>3, <2>1 DEF R
  <2> QED
    BY <2>1, <2>2
<1> QED
  BY <1>4

LEMMA LeastOf ==
  ASSUME NEW S, S \subseteq Nat, S # {}
  PROVE  FirstOf(S) \in S
  BY Least DEF FirstOf

LEMMA LandedType ==
  ASSUME store \in [Works -> Version], NEW s \in Works, NEW t \in Texts,
         store[s].revision < MaxRevision
  PROVE  /\ Landed(s, t) \in [Works -> Version]
         /\ Landed(s, t)[s].revision = store[s].revision + 1
         /\ \A r \in Works \ {s} : Landed(s, t)[r] = store[r]
<1> DEFINE v == [revision |-> store[s].revision + 1, text |-> t]
<1>1. store[s].revision + 1 \in 0 .. MaxRevision
  BY Constants DEF Version
<1>2. v \in Version
  BY <1>1 DEF Version
<1> QED
  BY <1>2 DEF Landed

(* What TypeOK says of the picker, of flash, and of the rest.              *)
PickTypes ==
  /\ modal \in BOOLEAN /\ rows \subseteq Works
  /\ promise \in Seq(PickPromise) /\ Len(promise) <= MaxPicks
  /\ pick_request \in 0 .. MaxPicks /\ pick_slot \in Works \cup {None}
  /\ picked \subseteq Works

FlashTypes ==
  /\ store \in [Works -> Version] /\ index \in [WorkSlots -> Apps \cup {Host}]
  /\ making = None \/ making \in [slot : WorkSlots,
                                  index : [WorkSlots -> Apps \cup {Host}]]
  /\ author \in [Works -> Apps \cup {Host}]
  /\ told \in [Apps -> [Works -> Version]] /\ blind \in BOOLEAN

Launches == [state : (1 .. MaxSessions) \cup {None}, fresh : BOOLEAN]

SessionTypes ==
  /\ app \in Apps \cup {None} /\ phase \in Phases
  /\ after \in {None} \cup Ends \cup Apps
  /\ refs \subseteq Works
  /\ run_slot \in Works \cup {None} /\ launch \in Launches
  /\ sessions \in 0 .. MaxSessions /\ faults \in 0 .. MaxFaults
  /\ chosen \subseteq Works /\ chosenBefore \subseteq Works
  /\ ran \in RunBy /\ startedBy \in RunBy

LEMMA TypesSplit == TypeOK <=> PickTypes /\ FlashTypes /\ SessionTypes
  BY DEF TypeOK, PickTypes, FlashTypes, SessionTypes, Launches

(* Steps that move the session in its life and its turn and leave all else *)
(* alone.                                                                  *)
Moves ==
  \/ BeginTurn \/ EndTurn \/ Suspend \/ StaysAwake \/ Resume \/ Loaded
  \/ LoadFails \/ NativeStop \/ \E a \in Apps : Evict(a)

LEMMA MovesAre ==
  ASSUME Moves, making # None => phase \in GuestPhases
  PROVE  /\ UNCHANGED <<store, index, author, making, told, app, sessions,
                        startedBy, modal, rows, promise, pick_request,
                        pick_slot, picked, refs, run_slot, launch, ran,
                        faults, chosen, chosenBefore>>
         /\ blind' = FALSE
         /\ phase # "home" /\ phase' # "home" /\ phase' \in Phases
         /\ after' \in {None, after} \cup Ends \cup Apps
         /\ making = None
<1>1. CASE BeginTurn
  BY <1>1 DEF BeginTurn, flashVars, pickVars, runVars, choiceVars, NotSaved,
     Phases, Ends, GuestPhases
<1>2. CASE EndTurn
  BY <1>2 DEF EndTurn, flashVars, pickVars, runVars, choiceVars, NotSaved,
     Phases, Ends
<1>3. CASE Suspend
  BY <1>3 DEF Suspend, flashVars, pickVars, runVars, choiceVars, NotSaved,
     Phases, GuestPhases
<1>4. CASE StaysAwake
  BY <1>4 DEF StaysAwake, CannotSleep, flashVars, pickVars, runVars,
     choiceVars, NotSaved, Phases, Ends
<1>5. CASE Resume
  BY <1>5 DEF Resume, flashVars, pickVars, runVars, choiceVars, NotSaved,
     Phases, GuestPhases
<1>6. CASE Loaded
  BY <1>6 DEF Loaded, flashVars, pickVars, runVars, choiceVars, NotSaved,
     Phases
<1>7. CASE LoadFails
  BY <1>7 DEF LoadFails, flashVars, pickVars, runVars, choiceVars, NotSaved,
     Phases, Ends
<1>8. CASE NativeStop
  BY <1>8 DEF NativeStop, flashVars, pickVars, runVars, choiceVars, NotSaved,
     Phases, Ends, GuestPhases
<1>9. ASSUME NEW a \in Apps, Evict(a) PROVE
         /\ UNCHANGED <<store, index, author, making, told, app, sessions,
                        startedBy, modal, rows, promise, pick_request,
                        pick_slot, picked, refs, run_slot, launch, ran,
                        faults, chosen, chosenBefore>>
         /\ blind' = FALSE
         /\ phase # "home" /\ phase' # "home" /\ phase' \in Phases
         /\ after' \in {None, after} \cup Ends \cup Apps
         /\ making = None
  BY <1>9 DEF Evict, flashVars, pickVars, runVars, choiceVars, NotSaved,
     Phases, GuestPhases
<1> QED
  BY <1>1, <1>2, <1>3, <1>4, <1>5, <1>6, <1>7, <1>8, <1>9 DEF Moves

-----------------------------------------------------------------------------
(* The picker and its Promise.                                             *)

PickInv == PickTypes /\ PickerHasItsPromise

LEMMA SamePick ==
  ASSUME PickInv, UNCHANGED pickVars
  PROVE  PickInv'
  BY DEF PickInv, PickTypes, PickerHasItsPromise, pickVars

(* picker_finish() completes the one Promise that is open, here in the     *)
(* table x.                                                                *)
Finished(x, status, stopped, s) ==
  [x EXCEPT ![pick_request] =
     [@ EXCEPT !.at = "posted", !.status = status,
               !.stopped = stopped, !.choice = s]]

LEMMA FinishedIs ==
  ASSUME NEW x \in Seq(PickPromise), pick_request \in DOMAIN x,
         \A i \in DOMAIN x : i # pick_request => x[i].at # "open",
         NEW status \in {"chose", "cancelled", "expired"},
         NEW stopped \in BOOLEAN, NEW s \in Works \cup {None},
         NEW y, y = Finished(x, status, stopped, s)
  PROVE  /\ y \in Seq(PickPromise) /\ Len(y) = Len(x)
         /\ \A i \in DOMAIN y : y[i].at # "open"
<1> DEFINE k == pick_request
           p == x[k]
           q == [p EXCEPT !.at = "posted", !.status = status,
                          !.stopped = stopped, !.choice = s]
<1>1. p \in PickPromise
  OBVIOUS
<1>2. q \in PickPromise /\ q.at # "open"
  BY <1>1 DEF PickPromise
<1>3. y = [x EXCEPT ![k] = q]
  BY DEF Finished
<1> HIDE DEF q
<1>4. y \in Seq(PickPromise) /\ Len(y) = Len(x) /\ DOMAIN y = DOMAIN x
  BY <1>2, <1>3
<1>5. \A i \in DOMAIN x : y[i] = IF i = k THEN q ELSE x[i]
  BY <1>3
<1> QED
  BY <1>2, <1>4, <1>5

(* What is left of the picker when it has closed.                          *)
LEMMA ClosedKeeps ==
  ASSUME PickInv, modal' = FALSE, rows' = {}, pick_request' = 0,
         pick_slot' \in Works \cup {None}, picked' \subseteq Works,
         promise' \in Seq(PickPromise), Len(promise') <= MaxPicks,
         \A i \in DOMAIN promise' : promise'[i].at # "open"
  PROVE  PickInv'
<1>1. PickTypes'
  BY Constants DEF PickTypes
<1>2. PickerHasItsPromise'
  BY DEF PickerHasItsPromise
<1> QED
  BY <1>1, <1>2 DEF PickInv

LEMMA FinishKeeps ==
  ASSUME PickInv, modal, NEW status \in {"chose", "cancelled", "expired"},
         NEW stopped \in BOOLEAN, NEW s \in Works \cup {None},
         Finish(status, stopped, s), picked' \subseteq Works
  PROVE  PickInv'
<1>1. promise' = Finished(promise, status, stopped, s)
  BY DEF Finish, Finished
<1>2. /\ promise \in Seq(PickPromise) /\ pick_request \in DOMAIN promise
      /\ \A i \in DOMAIN promise : i # pick_request => promise[i].at # "open"
      /\ Len(promise) <= MaxPicks
  BY DEF PickInv, PickTypes, PickerHasItsPromise
<1>3. /\ promise' \in Seq(PickPromise) /\ Len(promise') = Len(promise)
      /\ \A i \in DOMAIN promise' : promise'[i].at # "open"
  BY <1>1, <1>2, FinishedIs
<1>4. modal' = FALSE /\ rows' = {} /\ pick_slot' = s /\ pick_request' = 0
  BY DEF Finish
<1> QED
  BY <1>2, <1>3, <1>4, ClosedKeeps

LEMMA ResetKeeps ==
  ASSUME PickInv, ResetSession
  PROVE  PickInv'
<1>1. <<>> \in Seq(PickPromise) /\ Len(<<>>) = 0 /\ DOMAIN <<>> = {}
  OBVIOUS
<1>2. /\ modal' = FALSE /\ rows' = {} /\ promise' = <<>>
      /\ pick_request' = 0 /\ pick_slot' = None /\ picked' = {}
  BY DEF ResetSession
<1>3. promise' \in Seq(PickPromise) /\ Len(promise') <= MaxPicks
      /\ \A i \in DOMAIN promise' : promise'[i].at # "open"
  BY <1>1, <1>2, Constants
<1> QED
  BY <1>2, <1>3, ClosedKeeps

LEMMA PickKeepsPick ==
  ASSUME PickInv, Pick
  PROVE  PickInv'
<1> DEFINE p == [Settled EXCEPT !.at = "open"]
<1>1. promise \in Seq(PickPromise) /\ Len(promise) \in Nat /\ ~modal
      /\ Len(promise) < MaxPicks
  BY DEF PickInv, PickTypes, Pick, OpensPicker
<1>2. p \in PickPromise /\ p.at = "open"
  BY DEF PickPromise, Settled
<1>3. promise' = Append(promise, p) /\ pick_request' = Len(promise) + 1
      /\ modal' = TRUE /\ pick_slot' = None /\ picked' = picked
      /\ rows' \subseteq Works
  BY DEF Pick, OpensPicker
<1> HIDE DEF p
<1>5. /\ promise' \in Seq(PickPromise) /\ Len(promise') = Len(promise) + 1
      /\ DOMAIN promise' = 1 .. Len(promise) + 1
      /\ \A i \in 1 .. Len(promise) : promise'[i] = promise[i]
      /\ promise'[Len(promise) + 1] = p
  BY <1>1, <1>2, <1>3
<1>6. PickTypes'
  BY <1>1, <1>3, <1>5, Constants DEF PickInv, PickTypes
<1>7. \A i \in 1 .. Len(promise) : promise[i].at # "open"
  BY <1>1 DEF PickInv, PickerHasItsPromise
<1>8. PickerHasItsPromise'
  <2>1. \A i \in DOMAIN promise' :
          promise'[i].at = "open" <=> modal' /\ i = pick_request'
    BY <1>1, <1>2, <1>3, <1>5, <1>7
  <2>2. pick_request' \in DOMAIN promise'
    BY <1>1, <1>3, <1>5
  <2> QED
    BY <2>1, <2>2 DEF PickerHasItsPromise
<1> QED
  BY <1>6, <1>8 DEF PickInv

(* The table with some of its Promises settled.                            *)
LEMMA SettledIs ==
  ASSUME PickTypes, NEW I, NEW x,
         x = [i \in DOMAIN promise |-> IF i \in I THEN Settled ELSE promise[i]]
  PROVE  /\ x \in Seq(PickPromise) /\ Len(x) = Len(promise)
         /\ DOMAIN x = DOMAIN promise
         /\ \A i \in DOMAIN promise :
              x[i] = IF i \in I THEN Settled ELSE promise[i]
<1> DEFINE n == Len(promise)
<1>1. n \in Nat /\ DOMAIN promise = 1 .. n
      /\ \A i \in 1 .. n : promise[i] \in PickPromise
  BY DEF PickTypes
<1>2. Settled \in PickPromise
  BY DEF Settled, PickPromise
<1> HIDE DEF n
<1>3. x \in [1 .. n -> PickPromise]
  BY <1>1, <1>2
<1>4. x \in Seq(PickPromise) /\ Len(x) = n
  BY <1>1, <1>3
<1> QED
  BY <1>1, <1>4 DEF n

LEMMA PumpKeepsPick ==
  ASSUME PickInv, Pump
  PROVE  PickInv'
<1> DEFINE x == [i \in DOMAIN promise |->
                   IF i \in Posted THEN Settled ELSE promise[i]]
<1>1. PickTypes /\ PickerHasItsPromise
  BY DEF PickInv
<1>2. /\ x \in Seq(PickPromise) /\ Len(x) = Len(promise)
      /\ DOMAIN x = DOMAIN promise
      /\ \A i \in DOMAIN promise :
           x[i] = IF i \in Posted THEN Settled ELSE promise[i]
  BY <1>1, SettledIs
<1>3. \A i \in DOMAIN promise : x[i].at = "open" <=> promise[i].at = "open"
  BY <1>2 DEF Settled, Posted
<1>4. picked' = picked
  BY DEF Pump
<1> HIDE DEF x
<1>5. CASE promise' = x /\ UNCHANGED <<modal, rows, pick_slot, pick_request>>
  <2>1. PickTypes'
    BY <1>1, <1>2, <1>4, <1>5 DEF PickTypes
  <2>2. PickerHasItsPromise'
    BY <1>1, <1>2, <1>3, <1>5 DEF PickerHasItsPromise
  <2> QED
    BY <2>1, <2>2 DEF PickInv
<1>6. CASE /\ modal /\ modal' = FALSE /\ rows' = {}
           /\ pick_slot' = None /\ pick_request' = 0
           /\ promise' = [x EXCEPT ![pick_request] =
                            [@ EXCEPT !.at = "posted", !.status = "cancelled",
                                      !.stopped = TRUE]]
  <2> DEFINE k == pick_request
             p == x[k]
             q == [p EXCEPT !.at = "posted", !.status = "cancelled",
                            !.stopped = TRUE]
  <2>1. k \in DOMAIN x /\ \A i \in DOMAIN x : i # k => x[i].at # "open"
    BY <1>1, <1>2, <1>3, <1>6 DEF PickerHasItsPromise
  <2>2. p \in PickPromise
    BY <1>2, <2>1
  <2>3. q \in PickPromise /\ q.at # "open"
    BY <2>2 DEF PickPromise
  <2>4. promise' = [x EXCEPT ![k] = q]
    BY <1>6
  <2> HIDE DEF q
  <2>5. promise' \in Seq(PickPromise) /\ Len(promise') = Len(x)
        /\ DOMAIN promise' = DOMAIN x
    BY <1>2, <2>1, <2>3, <2>4
  <2>6. \A i \in DOMAIN x : promise'[i] = IF i = k THEN q ELSE x[i]
    BY <2>1, <2>4, <1>2
  <2>7. \A i \in DOMAIN promise' : promise'[i].at # "open"
    BY <2>1, <2>3, <2>5, <2>6
  <2>8. picked' \subseteq Works /\ Len(promise') <= MaxPicks
    BY <1>1, <1>2, <1>4, <2>5 DEF PickTypes
  <2> QED
    BY <1>6, <2>5, <2>7, <2>8, ClosedKeeps
<1> QED
  BY <1>5, <1>6 DEF Pump, x

LEMMA SettleAllKeeps ==
  ASSUME PickInv, SettleAll, pick_slot' \in {pick_slot, None},
         picked' \subseteq picked
  PROVE  PickInv'
<1>1. promise' = [i \in DOMAIN promise |-> IF i \in DOMAIN promise
                                           THEN Settled ELSE promise[i]]
      /\ modal' = FALSE /\ rows' = {} /\ pick_request' = 0
  BY DEF SettleAll
<1>2. PickTypes
  BY DEF PickInv
<1>3. /\ promise' \in Seq(PickPromise) /\ Len(promise') = Len(promise)
      /\ DOMAIN promise' = DOMAIN promise
      /\ \A i \in DOMAIN promise : promise'[i] = Settled
  BY <1>1, <1>2, SettledIs
<1>4. \A i \in DOMAIN promise' : promise'[i].at # "open"
  BY <1>3 DEF Settled
<1>5. /\ Len(promise') <= MaxPicks /\ picked' \subseteq Works
      /\ pick_slot' \in Works \cup {None}
  BY <1>2, <1>3 DEF PickTypes
<1> QED
  BY <1>1, <1>3, <1>4, <1>5, ClosedKeeps

LEMMA PickInvKeeps ==
  ASSUME PickInv, TurnInv, [Next]_vars
  PROVE  PickInv'
<1>1. CASE UNCHANGED pickVars
  BY <1>1, SamePick
<1>2. CASE Pick
  BY <1>2, PickKeepsPick
<1>3. CASE Decline \/ Expire
  <2>1. modal /\ picked' \subseteq Works
    BY <1>3 DEF Decline, Expire, AtPicker, PickInv, PickTypes
  <2> QED
    BY <1>3, <2>1, FinishKeeps DEF Decline, Expire
<1>4. ASSUME NEW s \in Works, Choose(s) PROVE PickInv'
  <2>1. modal /\ picked' \subseteq Works /\ Finish("chose", FALSE, s)
    BY <1>4 DEF Choose, AtPicker, PickInv, PickTypes
  <2> QED
    BY <2>1, FinishKeeps
<1>5. CASE Pump
  BY <1>5, PumpKeepsPick
<1>6. CASE EndSession \/ PowerCut
  BY <1>6, ResetKeeps DEF EndSession, PowerCut
<1>7. CASE CancelAll
  BY <1>7, SettleAllKeeps DEF CancelAll
<1>8. CASE FallAsleep
  BY <1>8, SettleAllKeeps DEF FallAsleep
<1>9. CASE Moves
  <2>1. UNCHANGED pickVars
    BY <1>9, MovesAre DEF TurnInv, pickVars
  <2> QED
    BY <2>1, <1>1
<1>10. ASSUME NEW s \in Works, Read(s) \/ Run(s) PROVE UNCHANGED pickVars
  BY <1>10 DEF Read, Run
<1>11. ASSUME NEW t \in Texts, Create(t) \/ EditorSaves(t)
       PROVE  UNCHANGED pickVars
  BY <1>11 DEF Create, EditorSaves
<1>12. ASSUME NEW s \in Works, NEW t \in Texts,
              NEW r \in Revisions \cup {None}, Save(s, t, r)
       PROVE  UNCHANGED pickVars
  BY <1>12 DEF Save
<1>13. ASSUME NEW a \in Apps, Open(a) PROVE UNCHANGED pickVars
  BY <1>13 DEF Open
<1>14. CASE Named \/ NotNamed \/ UNCHANGED vars
  <2>1. UNCHANGED pickVars
    BY <1>14 DEF Named, NotNamed, vars
  <2> QED
    BY <2>1, <1>1
<1> QED
  BY <1>1, <1>2, <1>3, <1>4, <1>5, <1>6, <1>7, <1>8, <1>9, <1>10, <1>11,
     <1>12, <1>13, <1>14 DEF Next, Moves

-----------------------------------------------------------------------------
(* Flash, and what the apps were told of it.                               *)

FlashInv == FlashTypes /\ ToldInv

LEMMA SameFlash ==
  ASSUME FlashInv, UNCHANGED <<store, index, author, making, told>>,
         blind' \in BOOLEAN
  PROVE  FlashInv'
  BY DEF FlashInv, FlashTypes, ToldInv

(* A creation is over, and flash is as it was.                             *)
LEMMA MadeNone ==
  ASSUME FlashInv, making' = None, UNCHANGED <<store, index, author, told>>,
         blind' \in BOOLEAN
  PROVE  FlashInv'
  BY DEF FlashInv, FlashTypes, ToldInv

(* What nobody was told of yet has no revision an app knows.               *)
LEMMA ToldLess ==
  ASSUME NEW t \in Version, NEW v \in Version, NEW w \in Version,
         ToldOf(t, v), w.revision = v.revision + 1
  PROVE  ToldOf(t, w) /\ w.revision # 0
<1>1. t.revision \in Nat /\ v.revision \in Nat
  BY Constants DEF Version
<1>2. t.revision < w.revision
  BY <1>1 DEF ToldOf
<1> QED
  BY <1>1, <1>2 DEF ToldOf

LEMMA ToldSame ==
  ASSUME NEW v \in Version, v.revision = 0 => v = NoVersion
  PROVE  ToldOf(v, v)
  BY Constants DEF ToldOf, Version

(* A record that is saved has a revision nobody was told of.               *)
LEMMA LandedTold ==
  ASSUME FlashInv, NEW s \in Works, NEW t \in Texts,
         store[s].revision < MaxRevision, store' = Landed(s, t)
  PROVE  /\ store' \in [Works -> Version] /\ store'[s].revision # 0
         /\ \A r \in Works : store'[r].revision = 0 => store'[r] = NoVersion
         /\ \A a \in Apps, r \in Works : ToldOf(told[a][r], store'[r])
<1>1. /\ store' \in [Works -> Version]
      /\ store'[s].revision = store[s].revision + 1
      /\ \A r \in Works \ {s} : store'[r] = store[r]
  BY LandedType DEF FlashInv, FlashTypes
<1>2. /\ store \in [Works -> Version] /\ told \in [Apps -> [Works -> Version]]
      /\ \A a \in Apps, r \in Works : ToldOf(told[a][r], store[r])
      /\ \A r \in Works : store[r].revision = 0 => store[r] = NoVersion
  BY DEF FlashInv, FlashTypes, ToldInv
<1>3. store'[s].revision # 0
  BY <1>1, <1>2, Constants DEF Version
<1>4. \A a \in Apps : ToldOf(told[a][s], store'[s])
  <2> TAKE a \in Apps
  <2>1. told[a][s] \in Version /\ store[s] \in Version /\ store'[s] \in Version
        /\ ToldOf(told[a][s], store[s])
    BY <1>1, <1>2
  <2> QED
    BY <1>1, <2>1, ToldLess
<1>5. \A a \in Apps, r \in Works : ToldOf(told[a][r], store'[r])
  <2> TAKE a \in Apps, r \in Works
  <2>1. CASE r = s
    BY <2>1, <1>4
  <2>2. CASE r # s
    BY <2>2, <1>1, <1>2
  <2> QED
    BY <2>1, <2>2
<1> QED
  BY <1>1, <1>2, <1>3, <1>5

(* An app is told what the record holds.                                   *)
LEMMA TellKeeps ==
  ASSUME FlashTypes, making' = None, UNCHANGED <<index, author>>,
         blind' \in BOOLEAN, app \in Apps, NEW s \in Works,
         store' \in [Works -> Version],
         \A r \in Works : store'[r].revision = 0 => store'[r] = NoVersion,
         \A a \in Apps, r \in Works : ToldOf(told[a][r], store'[r]),
         told' = [told EXCEPT ![app][s] = store'[s]]
  PROVE  FlashInv'
<1>1. told \in [Apps -> [Works -> Version]]
  BY DEF FlashTypes
<1>2. told' \in [Apps -> [Works -> Version]]
  BY <1>1
<1>3. FlashTypes'
  BY <1>2 DEF FlashTypes
<1>4. ToldOf(store'[s], store'[s])
  <2>1. store'[s] \in Version /\ (store'[s].revision = 0
                                    => store'[s] = NoVersion)
    OBVIOUS
  <2> QED
    BY <2>1, ToldSame
<1>5. \A a \in Apps, r \in Works : ToldOf(told'[a][r], store'[r])
  <2> TAKE a \in Apps, r \in Works
  <2>1. told'[a][r] = IF a = app /\ r = s THEN store'[s] ELSE told[a][r]
    BY <1>1
  <2> QED
    BY <2>1, <1>4
<1>6. ToldInv'
  BY <1>5 DEF ToldInv
<1> QED
  BY <1>3, <1>6 DEF FlashInv

LEMMA CreateKeepsFlash ==
  ASSUME FlashInv, app \in Apps, NEW t \in Texts, Create(t)
  PROVE  FlashInv'
<1>1. PICK idx \in Indexes :
        /\ Free(idx) # {}
        /\ LET s == FirstOf(Free(idx)) IN
           /\ store' = Landed(s, t)
           /\ author' = [author EXCEPT ![s] = app]
           /\ making' = [slot |-> s, index |-> [idx EXCEPT ![s] = app]]
  BY DEF Create
<1> DEFINE s == FirstOf(Free(idx))
<1>2. s \in WorkSlots /\ s \in Works /\ store[s].revision = 0
  <2>1. Free(idx) \subseteq Nat
    BY WorkspaceAssumption DEF Free, Works
  <2>2. s \in Free(idx)
    BY <1>1, <2>1, LeastOf
  <2> QED
    BY <2>2, Constants DEF Free, Written
<1> HIDE DEF s
<1>3. idx \in [WorkSlots -> Apps \cup {Host}]
  BY DEF Indexes, BlankIndex, FlashInv, FlashTypes
<1>4. /\ store' = Landed(s, t) /\ author' = [author EXCEPT ![s] = app]
      /\ making' = [slot |-> s, index |-> [idx EXCEPT ![s] = app]]
      /\ told' = told /\ index' = index /\ blind' = FALSE
  BY <1>1 DEF Create, s, NotSaved
<1>5. store[s].revision < MaxRevision
  BY <1>2, WorkspaceAssumption
<1>6. \A a \in Apps : told[a][s] = NoVersion
  <2> TAKE a \in Apps
  <2>1. told[a][s] \in Version /\ ToldOf(told[a][s], store[s])
    BY <1>2 DEF FlashInv, FlashTypes, ToldInv
  <2>2. told[a][s].revision \in Nat
    BY <2>1 DEF Version
  <2> QED
    BY <2>1, <2>2, <1>2 DEF ToldOf
<1>7. FlashTypes'
  <2>1. store' \in [Works -> Version]
    BY <1>2, <1>4, <1>5, LandedTold
  <2>2. making' \in [slot : WorkSlots, index : [WorkSlots -> Apps \cup {Host}]]
    BY <1>2, <1>3, <1>4
  <2> QED
    BY <2>1, <2>2, <1>4 DEF FlashInv, FlashTypes
<1>8. ToldInv'
  <2>1. making'.slot = s
    BY <1>4
  <2>2. /\ \A r \in Works : store'[r].revision = 0 => store'[r] = NoVersion
        /\ \A a \in Apps, r \in Works : ToldOf(told[a][r], store'[r])
    BY <1>2, <1>4, <1>5, LandedTold
  <2> QED
    BY <2>1, <2>2, <1>4, <1>6 DEF ToldInv
<1> QED
  BY <1>7, <1>8 DEF FlashInv

LEMMA NamedKeepsFlash ==
  ASSUME FlashInv, Named
  PROVE  FlashInv'
<1>1. making.index \in [WorkSlots -> Apps \cup {Host}]
  BY DEF Named, FlashInv, FlashTypes
<1>2. /\ index' = making.index /\ told' = told /\ blind' = FALSE
      /\ making' = None /\ store' = store /\ author' = author
  BY DEF Named, NotSaved
<1>3. FlashTypes'
  BY <1>1, <1>2 DEF FlashInv, FlashTypes
<1>4. ToldInv'
  BY <1>2 DEF FlashInv, ToldInv
<1> QED
  BY <1>3, <1>4 DEF FlashInv

LEMMA NotNamedKeepsFlash ==
  ASSUME FlashInv, NotNamed
  PROVE  FlashInv'
<1> DEFINE s == making.slot
<1>1. s \in Works /\ making.index \in [WorkSlots -> Apps \cup {Host}]
      /\ \A a \in Apps : told[a][s] = NoVersion
  BY Constants DEF NotNamed, FlashInv, FlashTypes, ToldInv
<1>2. /\ index' \in {index, making.index} /\ told' = told /\ blind' = FALSE
      /\ making' = None /\ author' = author
      /\ store' \in {store, [store EXCEPT ![s] = NoVersion]}
  BY DEF NotNamed, NotSaved
<1> HIDE DEF s
<1>3. /\ store' \in [Works -> Version]
      /\ \A r \in Works : \/ store'[r] = store[r]
                          \/ r = s /\ store'[r] = NoVersion
  BY <1>1, <1>2, Constants DEF FlashInv, FlashTypes
<1>4. FlashTypes'
  BY <1>1, <1>2, <1>3 DEF FlashInv, FlashTypes
<1>5. ToldOf(NoVersion, NoVersion)
  BY ToldSame, Constants
<1>6. ToldInv'
  <2>1. \A r \in Works : store'[r].revision = 0 => store'[r] = NoVersion
    BY <1>3 DEF FlashInv, ToldInv
  <2>2. \A a \in Apps, r \in Works : ToldOf(told[a][r], store'[r])
    <3> TAKE a \in Apps, r \in Works
    <3>1. ToldOf(told[a][r], store[r])
      BY DEF FlashInv, ToldInv
    <3> QED
      BY <3>1, <1>1, <1>3, <1>5
  <2> QED
    BY <2>1, <2>2, <1>2 DEF ToldInv
<1> QED
  BY <1>4, <1>6 DEF FlashInv

LEMMA ReadKeepsFlash ==
  ASSUME FlashInv, app \in Apps, NEW s \in Works, Read(s)
  PROVE  FlashInv'
<1>1. /\ told' = [told EXCEPT ![app][s] = store[s]] /\ making = None
      /\ UNCHANGED <<store, index, author, making>> /\ blind' = FALSE
  BY DEF Read, flashVars, Guest
<1>2. FlashTypes /\ store \in [Works -> Version]
      /\ (\A r \in Works : store[r].revision = 0 => store[r] = NoVersion)
      /\ \A a \in Apps, r \in Works : ToldOf(told[a][r], store[r])
  BY DEF FlashInv, FlashTypes, ToldInv
<1> QED
  BY <1>1, <1>2, TellKeeps

LEMMA SaveKeepsFlash ==
  ASSUME FlashInv, app \in Apps, NEW s \in Works, NEW t \in Texts, NEW r,
         Save(s, t, r)
  PROVE  FlashInv'
<1>1. /\ told' = [told EXCEPT ![app][s] = store'[s]] /\ making' = None
      /\ store' = Landed(s, t) /\ store[s].revision < MaxRevision
      /\ UNCHANGED <<index, author>> /\ blind' \in BOOLEAN
  BY DEF Save, Guest
<1>2. /\ store' \in [Works -> Version]
      /\ \A q \in Works : store'[q].revision = 0 => store'[q] = NoVersion
      /\ \A a \in Apps, q \in Works : ToldOf(told[a][q], store'[q])
  BY <1>1, LandedTold
<1>3. FlashTypes
  BY DEF FlashInv
<1> QED
  BY <1>1, <1>2, <1>3, TellKeeps

LEMMA EditorSavesKeepsFlash ==
  ASSUME FlashInv, TurnInv, NEW t \in Texts, EditorSaves(t)
  PROVE  FlashInv'
<1>1. /\ store' = Landed(User, t) /\ store[User].revision < MaxRevision
      /\ UNCHANGED <<index, author, making, told>> /\ making = None
      /\ blind' = FALSE
  BY DEF EditorSaves, TurnInv, NotSaved, GuestPhases
<1>2. /\ store' \in [Works -> Version]
      /\ \A r \in Works : store'[r].revision = 0 => store'[r] = NoVersion
      /\ \A a \in Apps, r \in Works : ToldOf(told[a][r], store'[r])
  BY <1>1, LandedTold, Constants
<1>3. FlashTypes'
  BY <1>1, <1>2 DEF FlashInv, FlashTypes
<1>4. ToldInv'
  BY <1>1, <1>2 DEF ToldInv
<1> QED
  BY <1>3, <1>4 DEF FlashInv

LEMMA FlashInvKeeps ==
  ASSUME FlashInv, TurnInv, app \in Apps \cup {None}, [Next]_vars
  PROVE  FlashInv'
<1>1. CASE UNCHANGED <<store, index, author, making, told>>
           /\ blind' \in {FALSE, blind}
  BY <1>1, SameFlash DEF FlashInv, FlashTypes
<1>2. Guest => app \in Apps
  BY DEF Guest, TurnInv
<1>3. ASSUME NEW t \in Texts, Create(t) \/ EditorSaves(t) PROVE FlashInv'
  <2>1. Create(t) => app \in Apps
    BY <1>2 DEF Create
  <2> QED
    BY <2>1, <1>3, CreateKeepsFlash, EditorSavesKeepsFlash
<1>4. CASE Named
  BY <1>4, NamedKeepsFlash
<1>5. CASE NotNamed
  BY <1>5, NotNamedKeepsFlash
<1>6. ASSUME NEW s \in Works, Read(s) PROVE FlashInv'
  <2>1. app \in Apps
    BY <1>2, <1>6 DEF Read
  <2> QED
    BY <2>1, <1>6, ReadKeepsFlash
<1>7. ASSUME NEW s \in Works, NEW t \in Texts,
             NEW r \in Revisions \cup {None}, Save(s, t, r)
      PROVE  FlashInv'
  <2>1. app \in Apps
    BY <1>2, <1>7 DEF Save
  <2> QED
    BY <2>1, <1>7, SaveKeepsFlash
<1>8. CASE PowerCut
  BY <1>8, MadeNone DEF PowerCut, flashVars, NotSaved
<1>9. ASSUME NEW s \in Works, Choose(s) \/ Run(s) PROVE FlashInv'
  <2>1. UNCHANGED <<store, index, author, making, told>> /\ blind' = FALSE
    BY <1>9 DEF Choose, Run, flashVars, NotSaved
  <2> QED
    BY <2>1, <1>1
<1>10. ASSUME NEW a \in Apps, Open(a) PROVE FlashInv'
  <2>1. UNCHANGED <<store, index, author, making, told>> /\ blind' = FALSE
    BY <1>10 DEF Open, flashVars, NotSaved
  <2> QED
    BY <2>1, <1>1
<1>11. CASE Moves
  <2>1. UNCHANGED <<store, index, author, making, told>> /\ blind' = FALSE
    BY <1>11, MovesAre DEF TurnInv
  <2> QED
    BY <2>1, <1>1
<1>12. CASE Pick \/ Decline \/ Expire \/ Pump \/ CancelAll \/ FallAsleep
            \/ EndSession \/ UNCHANGED vars
  <2>1. UNCHANGED <<store, index, author, making, told>>
        /\ blind' \in {FALSE, blind}
    BY <1>12 DEF Pick, Decline, Expire, Pump, CancelAll, FallAsleep,
       EndSession, vars, flashVars, NotSaved
  <2> QED
    BY <2>1, <1>1
<1> QED
  BY <1>3, <1>4, <1>5, <1>6, <1>7, <1>8, <1>9, <1>10, <1>11, <1>12
     DEF Next, Moves

-----------------------------------------------------------------------------
(* The session, its turn, and the hand-over to the next.                   *)

SessionInv == SessionTypes /\ TurnInv /\ HandInv

LEMMA SurvivesIs ==
  ASSUME NEW l \in Launches
  PROVE  /\ Survives(l) \in Launches /\ ~Survives(l).fresh
         /\ Survives(l).state = IF l.fresh THEN l.state ELSE None
  BY DEF Survives, Launches

LEMMA FaultIs ==
  ASSUME faults \in 0 .. MaxFaults, Fault \/ NoFault
  PROVE  faults' \in 0 .. MaxFaults
  BY Constants DEF Fault, NoFault, MayFail

LEMMA LoadFault ==
  ASSUME faults \in 0 .. MaxFaults, NEW idx, IndexLoaded(idx)
  PROVE  faults' \in 0 .. MaxFaults
  BY FaultIs DEF IndexLoaded

(* Steps within a session, or within none.                                 *)
LEMMA SameSession ==
  ASSUME SessionInv, UNCHANGED <<app, sessions, startedBy>>,
         UNCHANGED <<run_slot, launch, ran>>,
         phase' = "home" <=> phase = "home", phase' \in Phases,
         after' \in {None} \cup Ends \cup Apps,
         faults' \in 0 .. MaxFaults,
         chosen' \subseteq Works, chosenBefore' \subseteq Works,
         refs' \subseteq Works,
         app = None => UNCHANGED <<refs, chosen, chosenBefore>>,
         making' # None => phase' \in GuestPhases /\ author'[making'.slot] = app
  PROVE  SessionInv'
<1>1. SessionTypes'
  BY DEF SessionInv, SessionTypes
<1>2. TurnInv'
  BY DEF SessionInv, TurnInv
<1>3. HandInv'
  BY DEF SessionInv, HandInv, HandOver
<1> QED
  BY <1>1, <1>2, <1>3 DEF SessionInv

LEMMA RunKeeps ==
  ASSUME SessionInv, NEW s \in Works, Run(s)
  PROVE  SessionInv'
<1>1. PICK left \in {sessions, None} :
        /\ launch' = [state |-> left, fresh |-> TRUE]
        /\ ran' = [by |-> sessions, left |-> left]
  BY DEF Run
<1>2. /\ run_slot' = s /\ phase # "home"
      /\ UNCHANGED <<app, phase, after, making, refs, sessions, author,
                     startedBy, chosen, chosenBefore>>
  BY DEF Run, Guest, flashVars, lifeVars, choiceVars
<1>3. faults' \in 0 .. MaxFaults
  BY LoadFault DEF Run, SessionInv, SessionTypes
<1>4. sessions \in 1 .. MaxSessions
  BY <1>2, Constants DEF SessionInv, SessionTypes, TurnInv
<1>5. launch' \in Launches /\ ran' \in RunBy
  BY <1>1, <1>4 DEF Launches, RunBy
<1>6. SessionTypes'
  BY <1>2, <1>3, <1>5 DEF SessionInv, SessionTypes
<1>7. TurnInv'
  BY <1>2 DEF SessionInv, TurnInv
<1>8. HandInv'
  BY <1>1, <1>2, <1>4 DEF SessionInv, TurnInv, HandInv, HandOver
<1> QED
  BY <1>6, <1>7, <1>8 DEF SessionInv

(* A session is over and none is begun.                                    *)
LEMMA HomeKeeps ==
  ASSUME SessionInv, GoesHome, faults' \in 0 .. MaxFaults, refs' = {},
         chosen' = {}, chosenBefore' = {}, making' = None,
         after' \in {None} \cup Ends \cup Apps,
         run_slot' \in {None, run_slot}, ran' \in {NoRun, ran},
         launch' \in Launches, ~launch'.fresh,
         launch'.state \in {None, sessions}
  PROVE  SessionInv'
<1>1. app' = None /\ phase' = "home" /\ startedBy' = NoRun
      /\ sessions' = sessions
  BY DEF GoesHome
<1>2. NoRun \in RunBy /\ NoRun.by = None
  BY DEF NoRun, RunBy
<1>3. SessionTypes'
  BY <1>1, <1>2 DEF SessionInv, SessionTypes, Phases
<1>4. TurnInv'
  BY <1>1 DEF TurnInv
<1>5. HandInv'
  BY <1>1, <1>2 DEF SessionInv, HandInv, HandOver
<1> QED
  BY <1>3, <1>4, <1>5 DEF SessionInv

(* A session is begun with what the one before it left, and with the run   *)
(* of that one if a run started it.                                        *)
LEMMA NextSessionKeeps ==
  ASSUME SessionInv, NEW a \in Apps, NEW by \in RunBy, NEW l \in Launches,
         sessions < MaxSessions, app' = a, phase' = "loading",
         sessions' = sessions + 1, startedBy' = by, launch' = l,
         ~l.fresh, l.state \in {None, sessions},
         by.by = sessions => l.state = by.left,
         faults' \in 0 .. MaxFaults, refs' = {},
         chosen' = {}, chosenBefore' = {}, making' = None,
         after' \in {None} \cup Ends \cup Apps,
         run_slot' \in {None, run_slot}, ran' \in {NoRun, ran}
  PROVE  SessionInv'
<1>1. sessions \in Nat /\ sessions' \in 1 .. MaxSessions
      /\ sessions' - 1 = sessions
  BY Constants DEF SessionInv, SessionTypes
<1>2. NoRun \in RunBy /\ NoRun.by = None
  BY DEF NoRun, RunBy
<1>3. SessionTypes'
  BY <1>1, <1>2 DEF SessionInv, SessionTypes, Phases
<1>4. TurnInv'
  BY <1>1, Constants DEF TurnInv
<1>5. ran'.by = None \/ (ran'.by \in 1 .. MaxSessions /\ ran'.by <= sessions)
  BY <1>2 DEF SessionInv, SessionTypes, HandInv, RunBy
<1>6. ran'.by # sessions'
  BY <1>1, <1>5, Constants
<1>7. HandOver'
  BY <1>1 DEF HandOver
<1>8. HandInv'
  BY <1>1, <1>5, <1>6, <1>7, Constants DEF HandInv
<1> QED
  BY <1>3, <1>4, <1>8 DEF SessionInv

LEMMA BeginsKeeps ==
  ASSUME SessionInv, NEW a \in Apps, NEW by \in RunBy, NEW l \in Launches,
         Begins(a, by, l), ~l.fresh, l.state \in {None, sessions},
         by.by = sessions => l.state = by.left,
         faults' \in 0 .. MaxFaults, refs' = {},
         chosen' = {}, chosenBefore' = {}, making' = None,
         after' \in {None} \cup Ends \cup Apps,
         run_slot' \in {None, run_slot}, ran' \in {NoRun, ran}
  PROVE  SessionInv'
<1>1. CASE /\ sessions < MaxSessions
           /\ app' = a /\ phase' = "loading" /\ sessions' = sessions + 1
           /\ startedBy' = by /\ launch' = l
  BY <1>1, NextSessionKeeps
<1>2. CASE GoesHome /\ launch' = Survives(l)
  <2>1. launch' \in Launches /\ ~launch'.fresh /\ launch'.state = None
    BY <1>2, SurvivesIs
  <2> QED
    BY <1>2, <2>1, HomeKeeps
<1> QED
  BY <1>1, <1>2 DEF Begins

(* What the session leaves to the next one.                                *)
LEMMA LeftIs ==
  ASSUME SessionInv, app # None
  PROVE  /\ Survives(launch) \in Launches /\ ~Survives(launch).fresh
         /\ Survives(launch).state \in {None, sessions}
         /\ ran.by = sessions => Survives(launch).state = ran.left
<1>1. launch \in Launches
  BY DEF SessionInv, SessionTypes
<1>2. /\ Survives(launch) \in Launches /\ ~Survives(launch).fresh
      /\ Survives(launch).state = IF launch.fresh THEN launch.state ELSE None
  BY <1>1, SurvivesIs
<1> QED
  BY <1>2 DEF SessionInv, HandInv

LEMMA EndSessionKeeps ==
  ASSUME SessionInv, EndSession
  PROVE  SessionInv'
<1> DEFINE l == Survives(launch)
<1>1. /\ phase = "stopping" /\ making' = None /\ after' = None
      /\ refs' = {} /\ chosen' = {} /\ chosenBefore' = {}
  BY DEF EndSession, ResetSession
<1>2. app # None
  BY <1>1 DEF SessionInv, TurnInv
<1>3. /\ l \in Launches /\ ~l.fresh /\ l.state \in {None, sessions}
      /\ ran.by = sessions => l.state = ran.left
  BY <1>2, LeftIs
<1>4. /\ faults \in 0 .. MaxFaults /\ ran \in RunBy
      /\ sessions \in 0 .. MaxSessions
  BY DEF SessionInv, SessionTypes
<1>5. NoRun \in RunBy /\ NoRun.by # sessions
  BY <1>4, Constants DEF NoRun, RunBy
<1> HIDE DEF l
<1>6. CASE TakeRun(l)
  <2>1. run_slot' = None /\ ran' = NoRun
    BY <1>6 DEF TakeRun
  <2>2. faults' \in 0 .. MaxFaults
    BY <1>4, <1>6, FaultIs DEF TakeRun
  <2>3. CASE GoesHome /\ launch' = l
    BY <1>1, <1>3, <2>1, <2>2, <2>3, HomeKeeps
  <2>4. CASE Begins(WorkApp, ran, l)
    BY <1>1, <1>3, <1>4, <2>1, <2>2, <2>4, BeginsKeeps, Constants
  <2> QED
    BY <1>6, <2>3, <2>4 DEF TakeRun
<1>7. CASE GoesHome /\ launch' = l /\ UNCHANGED <<run_slot, ran, faults>>
  BY <1>1, <1>3, <1>4, <1>7, HomeKeeps
<1>8. CASE /\ GoesHome /\ launch' = Survives(l)
           /\ UNCHANGED <<run_slot, ran, faults>>
  <2>1. Survives(l) \in Launches /\ ~Survives(l).fresh
        /\ Survives(l).state = None
    BY <1>3, SurvivesIs
  <2> QED
    BY <1>1, <1>4, <1>8, <2>1, HomeKeeps
<1>9. CASE /\ after \in Apps /\ Begins(after, NoRun, l)
           /\ UNCHANGED <<run_slot, ran, faults>>
  BY <1>1, <1>3, <1>4, <1>5, <1>9, BeginsKeeps
<1> QED
  BY <1>6, <1>7, <1>8, <1>9 DEF EndSession, l

LEMMA OpenKeeps ==
  ASSUME SessionInv, NEW a \in Apps, Open(a)
  PROVE  SessionInv'
<1>1. /\ phase = "home" /\ Begins(a, NoRun, launch)
      /\ UNCHANGED <<after, making, author, refs, run_slot, ran, faults,
                     chosen, chosenBefore>>
  BY DEF Open, flashVars, choiceVars
<1>2. app = None /\ refs = {} /\ making = None
  BY <1>1 DEF SessionInv, TurnInv, GuestPhases
<1>3. launch \in Launches /\ ~launch.fresh /\ launch.state \in {None, sessions}
  BY <1>2 DEF SessionInv, SessionTypes, HandInv
<1>4. /\ faults \in 0 .. MaxFaults /\ after \in {None} \cup Ends \cup Apps
      /\ sessions \in 0 .. MaxSessions
  BY DEF SessionInv, SessionTypes
<1>5. NoRun \in RunBy /\ NoRun.by # sessions
  BY <1>4, Constants DEF NoRun, RunBy
<1>6. chosen = {} /\ chosenBefore = {}
  BY <1>2 DEF SessionInv, TurnInv
<1> QED
  BY <1>1, <1>2, <1>3, <1>4, <1>5, <1>6, BeginsKeeps

LEMMA PowerCutKeeps ==
  ASSUME SessionInv, PowerCut
  PROVE  SessionInv'
<1>1. /\ GoesHome /\ launch' = NoLaunch /\ run_slot' = None /\ ran' = NoRun
      /\ making' = None /\ after' = None
      /\ refs' = {} /\ chosen' = {} /\ chosenBefore' = {}
  BY DEF PowerCut, ResetSession
<1>2. faults' \in 0 .. MaxFaults
  BY FaultIs DEF PowerCut, SessionInv, SessionTypes
<1>3. NoLaunch \in Launches /\ ~NoLaunch.fresh /\ NoLaunch.state = None
  BY DEF NoLaunch, Launches
<1> QED
  BY <1>1, <1>2, <1>3, HomeKeeps

LEMMA AnsweredIs ==
  ASSUME refs \subseteq Works
  PROVE  Answered \subseteq Works
  BY DEF Answered

LEMMA SessionInvKeeps ==
  ASSUME SessionInv, FlashTypes, [Next]_vars
  PROVE  SessionInv'
<1>1. /\ faults \in 0 .. MaxFaults /\ chosen \subseteq Works
      /\ chosenBefore \subseteq Works /\ refs \subseteq Works
      /\ phase \in Phases /\ after \in {None} \cup Ends \cup Apps
      /\ author \in [Works -> Apps \cup {Host}]
  BY DEF SessionInv, SessionTypes, FlashTypes
<1>2. /\ app = None <=> phase = "home"
      /\ making # None => phase \in GuestPhases /\ author[making.slot] = app
      /\ Guest => phase \in GuestPhases /\ phase # "home" /\ making = None
  BY DEF SessionInv, TurnInv, Guest, GuestPhases
<1>3. "home" \notin GuestPhases
  BY DEF GuestPhases
<1>4. CASE UNCHANGED <<lifeVars, making, refs, runVars, faults, author,
                       choiceVars>>
  BY <1>1, <1>2, <1>4, SameSession DEF lifeVars, runVars, choiceVars
<1>5. CASE Moves
  <2>1. /\ UNCHANGED <<app, sessions, startedBy, run_slot, launch, ran, faults,
                       refs, chosen, chosenBefore, making>>
        /\ making = None /\ phase # "home" /\ phase' # "home"
        /\ phase' \in Phases /\ after' \in {None, after} \cup Ends \cup Apps
    BY <1>2, <1>5, MovesAre
  <2>2. after' \in {None} \cup Ends \cup Apps
    BY <1>1, <2>1
  <2> QED
    BY <1>1, <2>1, <2>2, SameSession
<1>6. CASE Pump \/ CancelAll \/ FallAsleep
  <2>1. /\ UNCHANGED <<app, sessions, startedBy, run_slot, launch, ran, faults,
                       making>>
        /\ making = None /\ phase # "home" /\ phase' # "home"
        /\ phase' \in Phases /\ after' \in {None, after} \cup Ends
        /\ refs' = Answered
        /\ chosen' \in {chosen, {}}
        /\ chosenBefore' \in {chosenBefore, chosenBefore \cup chosen}
    BY <1>6 DEF Pump, CancelAll, FallAsleep, SettleAll, CannotSleep, flashVars,
       runVars, choiceVars, Phases, Ends
  <2>2. refs' \subseteq Works
    BY <1>1, <2>1, AnsweredIs
  <2>3. after' \in {None} \cup Ends \cup Apps
    BY <1>1, <2>1
  <2>4. chosen' \subseteq Works /\ chosenBefore' \subseteq Works
    BY <1>1, <2>1
  <2> QED
    BY <1>1, <1>2, <2>1, <2>2, <2>3, <2>4, SameSession
<1>7. ASSUME NEW s \in Works, Choose(s) PROVE SessionInv'
  <2>1. /\ UNCHANGED <<app, phase, after, sessions, startedBy, run_slot,
                       launch, ran, faults, refs, making, author,
                       chosenBefore>>
        /\ chosen' = chosen \cup {s} /\ phase = "host"
    BY <1>7 DEF Choose, AtPicker, flashVars, lifeVars, runVars
  <2> QED
    BY <1>1, <1>2, <2>1, SameSession
<1>8. ASSUME NEW s \in Works, Run(s) PROVE SessionInv'
  BY <1>8, RunKeeps
<1>9. ASSUME NEW s \in Works, Read(s) PROVE SessionInv'
  <2>1. /\ UNCHANGED <<app, phase, after, sessions, startedBy, run_slot,
                       launch, ran, refs, making, author, chosen,
                       chosenBefore>>
        /\ \E idx \in Indexes : IndexLoaded(idx)
    BY <1>9 DEF Read, flashVars, lifeVars, runVars, choiceVars
  <2>2. faults' \in 0 .. MaxFaults
    BY <1>1, <2>1, LoadFault
  <2> QED
    BY <1>1, <1>2, <2>1, <2>2, SameSession
<1>10. ASSUME NEW s \in Works, NEW t \in Texts,
              NEW r \in Revisions \cup {None}, Save(s, t, r)
       PROVE  SessionInv'
  <2>1. /\ UNCHANGED <<app, phase, after, sessions, startedBy, run_slot,
                       launch, ran, refs, making, author, chosen,
                       chosenBefore>>
        /\ \E idx \in Indexes : IndexLoaded(idx)
    BY <1>10 DEF Save, lifeVars, runVars, choiceVars
  <2>2. faults' \in 0 .. MaxFaults
    BY <1>1, <2>1, LoadFault
  <2> QED
    BY <1>1, <1>2, <2>1, <2>2, SameSession
<1>11. ASSUME NEW t \in Texts, Create(t) PROVE SessionInv'
  <2>1. PICK idx \in Indexes :
          /\ IndexLoaded(idx) /\ Free(idx) # {}
          /\ author' = [author EXCEPT ![FirstOf(Free(idx))] = app]
          /\ making' = [slot |-> FirstOf(Free(idx)),
                        index |-> [idx EXCEPT ![FirstOf(Free(idx))] = app]]
    BY <1>11 DEF Create
  <2>2. /\ UNCHANGED <<app, phase, after, sessions, startedBy, run_slot,
                       launch, ran, refs, chosen, chosenBefore>>
        /\ Guest
    BY <1>11 DEF Create, lifeVars, runVars, choiceVars
  <2>3. Free(idx) \subseteq Nat /\ Free(idx) \subseteq Works
    BY WorkspaceAssumption DEF Free, Works
  <2>4. FirstOf(Free(idx)) \in Works
    BY <2>1, <2>3, LeastOf
  <2>5. author'[making'.slot] = app
    BY <1>1, <2>1, <2>4
  <2>6. faults' \in 0 .. MaxFaults
    BY <1>1, <2>1, LoadFault
  <2> QED
    BY <1>1, <1>2, <2>2, <2>5, <2>6, SameSession
<1>12. CASE Named
  <2>1. /\ UNCHANGED <<app, phase, after, sessions, startedBy, run_slot,
                       launch, ran, author, faults, chosen, chosenBefore>>
        /\ making # None /\ making' = None /\ refs' = refs \cup {making.slot}
    BY <1>12 DEF Named, lifeVars, runVars, choiceVars
  <2>2. making.slot \in Works
    BY <2>1, Constants DEF FlashTypes
  <2>3. refs' \subseteq Works /\ app # None
    BY <1>1, <1>2, <1>3, <2>1, <2>2
  <2> QED
    BY <1>1, <2>1, <2>3, SameSession
<1>13. CASE NotNamed
  <2>1. /\ UNCHANGED <<app, phase, after, sessions, startedBy, run_slot,
                       launch, ran, author, refs, chosen, chosenBefore>>
        /\ making' = None /\ Fault
    BY <1>13 DEF NotNamed, lifeVars, runVars, choiceVars
  <2>2. faults' \in 0 .. MaxFaults
    BY <1>1, <2>1, FaultIs
  <2> QED
    BY <1>1, <2>1, <2>2, SameSession
<1>14. CASE EndSession
  BY <1>14, EndSessionKeeps
<1>15. CASE PowerCut
  BY <1>15, PowerCutKeeps
<1>16. ASSUME NEW a \in Apps, Open(a) PROVE SessionInv'
  BY <1>16, OpenKeeps
<1>17. CASE Pick \/ Decline \/ Expire \/ (\E t \in Texts : EditorSaves(t))
            \/ UNCHANGED vars
  <2>1. UNCHANGED <<lifeVars, making, refs, runVars, faults, author,
                    choiceVars>>
    BY <1>17 DEF Pick, Decline, Expire, EditorSaves, vars, flashVars
  <2> QED
    BY <2>1, <1>4
<1> QED
  BY <1>5, <1>6, <1>7, <1>8, <1>9, <1>10, <1>11, <1>12, <1>13, <1>14, <1>15,
     <1>16, <1>17 DEF Next, Moves

-----------------------------------------------------------------------------
(* What the guest holds references and permission to.                      *)

LEMMA SameRefs ==
  ASSUME RefsInv,
         UNCHANGED <<refs, app, chosen, chosenBefore, picked, pick_slot>>,
         \A s \in refs : author'[s] \in {author[s], app}
  PROVE  RefsInv'
  BY DEF RefsInv

(* What settles answers with the work that was chosen last, if any.        *)
LEMMA AnsweredRefs ==
  ASSUME RefsInv, refs \subseteq Works, NEW s \in Answered
  PROVE  author[s] = app \/ s \in chosen \cup chosenBefore
<1>1. CASE s \in refs
  BY <1>1 DEF RefsInv
<1>2. ASSUME s \notin refs PROVE s \in chosen \cup chosenBefore
  <2>1. PICK i \in Posted : s = Answer(promise[i]) /\ s \in Works
    BY <1>2 DEF Answered
  <2>2. s = pick_slot
    BY <2>1, Constants DEF Answer
  <2> QED
    BY <2>1, <2>2, Constants DEF RefsInv
<1> QED
  BY <1>1, <1>2

(* Settling, whatever becomes of the person's choices.                     *)
LEMMA SettleRefs ==
  ASSUME RefsInv, refs \subseteq Works, refs' = Answered,
         UNCHANGED <<app, author>>, pick_slot' \in {pick_slot, None},
         \/ UNCHANGED <<picked, chosen, chosenBefore>>
         \/ picked' = {} /\ chosenBefore' = chosenBefore \cup chosen
  PROVE  RefsInv'
<1>1. chosen \cup chosenBefore \subseteq chosen' \cup chosenBefore'
      /\ picked' \subseteq chosen'
  BY DEF RefsInv
<1>2. \A s \in refs' : author'[s] = app' \/ s \in chosen' \cup chosenBefore'
  BY <1>1, AnsweredRefs
<1> QED
  BY <1>1, <1>2 DEF RefsInv

(* Between two sessions there is nothing.                                  *)
LEMMA ResetRefs ==
  ASSUME ResetSession
  PROVE  RefsInv'
  BY DEF ResetSession, RefsInv

LEMMA RefsInvKeeps ==
  ASSUME RefsInv, FlashTypes, TurnInv, refs \subseteq Works, [Next]_vars
  PROVE  RefsInv'
<1>1. CASE UNCHANGED <<refs, app, chosen, chosenBefore, picked, pick_slot,
                       author>>
  BY <1>1, SameRefs
<1>2. CASE Pick
  BY <1>2 DEF Pick, OpensPicker, RefsInv, flashVars, lifeVars, choiceVars
<1>3. CASE Decline \/ Expire
  BY <1>3 DEF Decline, Expire, Finish, RefsInv, flashVars, lifeVars,
     choiceVars
<1>4. ASSUME NEW s \in Works, Choose(s) PROVE RefsInv'
  BY <1>4 DEF Choose, Finish, RefsInv, flashVars, lifeVars
<1>5. CASE Pump
  BY <1>5, SettleRefs DEF Pump, flashVars, choiceVars
<1>6. CASE CancelAll
  BY <1>6, SettleRefs DEF CancelAll, SettleAll, flashVars, choiceVars
<1>7. CASE FallAsleep
  BY <1>7, SettleRefs DEF FallAsleep, SettleAll, flashVars
<1>8. CASE EndSession \/ PowerCut
  BY <1>8, ResetRefs DEF EndSession, PowerCut
<1>9. ASSUME NEW t \in Texts, Create(t) PROVE RefsInv'
  <2>1. PICK s : author' = [author EXCEPT ![s] = app]
    BY <1>9 DEF Create
  <2>2. UNCHANGED <<refs, app, chosen, chosenBefore, picked, pick_slot>>
    BY <1>9 DEF Create, lifeVars, pickVars, choiceVars
  <2>3. \A r \in refs : author'[r] \in {author[r], app}
    BY <2>1 DEF FlashTypes
  <2> QED
    BY <2>2, <2>3, SameRefs
<1>10. CASE Named
  <2>1. /\ UNCHANGED <<app, author, chosen, chosenBefore, picked, pick_slot>>
        /\ refs' = refs \cup {making.slot} /\ author[making.slot] = app
    BY <1>10 DEF Named, TurnInv, lifeVars, pickVars, choiceVars
  <2> QED
    BY <2>1 DEF RefsInv
<1>11. ASSUME NEW a \in Apps, Open(a) PROVE RefsInv'
  <2>1. /\ UNCHANGED <<author, refs, chosen, chosenBefore, picked, pick_slot>>
        /\ refs = {}
    BY <1>11 DEF Open, TurnInv, flashVars, pickVars, choiceVars
  <2> QED
    BY <2>1 DEF RefsInv
<1>12. ASSUME NEW s \in Works, Read(s) \/ Run(s) PROVE RefsInv'
  <2>1. UNCHANGED <<refs, app, chosen, chosenBefore, picked, pick_slot, author>>
    BY <1>12 DEF Read, Run, flashVars, lifeVars, pickVars, choiceVars
  <2> QED
    BY <2>1, <1>1
<1>13. ASSUME NEW s \in Works, NEW t \in Texts,
              NEW r \in Revisions \cup {None}, Save(s, t, r)
       PROVE  RefsInv'
  <2>1. UNCHANGED <<refs, app, chosen, chosenBefore, picked, pick_slot, author>>
    BY <1>13 DEF Save, lifeVars, pickVars, choiceVars
  <2> QED
    BY <2>1, <1>1
<1>14. ASSUME NEW t \in Texts, EditorSaves(t) PROVE RefsInv'
  <2>1. UNCHANGED <<refs, app, chosen, chosenBefore, picked, pick_slot, author>>
    BY <1>14 DEF EditorSaves, lifeVars, pickVars, choiceVars
  <2> QED
    BY <2>1, <1>1
<1>15. CASE Moves
  <2>1. UNCHANGED <<refs, app, chosen, chosenBefore, picked, pick_slot, author>>
    BY <1>15, MovesAre DEF TurnInv
  <2> QED
    BY <2>1, <1>1
<1>16. CASE NotNamed \/ UNCHANGED vars
  <2>1. UNCHANGED <<refs, app, chosen, chosenBefore, picked, pick_slot, author>>
    BY <1>16 DEF NotNamed, vars, flashVars, lifeVars, pickVars, choiceVars
  <2> QED
    BY <2>1, <1>1
<1> QED
  BY <1>2, <1>3, <1>4, <1>5, <1>6, <1>7, <1>8, <1>9, <1>10, <1>11, <1>12,
     <1>13, <1>14, <1>15, <1>16 DEF Next, Moves

-----------------------------------------------------------------------------
(* The specification.                                                      *)

LEMMA WorkParts == WorkInv <=> PickInv /\ FlashInv /\ SessionInv /\ RefsInv
  BY TypesSplit DEF WorkInv, PickInv, FlashInv, SessionInv

LEMMA WorkInit == Init => WorkInv
<1> SUFFICES ASSUME Init PROVE WorkInv
  OBVIOUS
<1>1. <<>> \in Seq(PickPromise) /\ Len(<<>>) = 0 /\ DOMAIN <<>> = {}
  OBVIOUS
<1>2. PickInv
  <2>1. promise \in Seq(PickPromise) /\ Len(promise) <= MaxPicks
        /\ DOMAIN promise = {}
    BY <1>1, Constants DEF Init
  <2>2. PickTypes
    BY <2>1, Constants DEF Init, PickTypes
  <2>3. PickerHasItsPromise
    BY <2>1 DEF Init, PickerHasItsPromise
  <2> QED
    BY <2>2, <2>3 DEF PickInv
<1>3. FlashInv
  <2>1. FlashTypes
    BY Constants DEF Init, FlashTypes, BlankIndex
  <2>2. ToldOf(NoVersion, NoVersion)
    BY ToldSame, Constants
  <2>3. ToldInv
    BY <2>2 DEF Init, ToldInv
  <2> QED
    BY <2>1, <2>3 DEF FlashInv
<1>4. SessionInv
  <2>1. NoRun \in RunBy /\ NoRun.by = None
    BY DEF NoRun, RunBy
  <2>2. NoLaunch \in Launches /\ ~NoLaunch.fresh /\ NoLaunch.state = None
    BY DEF NoLaunch, Launches
  <2>3. SessionTypes
    BY <2>1, <2>2, Constants DEF Init, SessionTypes, Phases
  <2>4. TurnInv
    BY DEF Init, TurnInv
  <2>5. HandInv
    BY <2>1, <2>2 DEF Init, HandInv, HandOver
  <2> QED
    BY <2>3, <2>4, <2>5 DEF SessionInv
<1>5. RefsInv
  BY DEF Init, RefsInv
<1> QED
  BY <1>2, <1>3, <1>4, <1>5, WorkParts

LEMMA WorkNext == WorkInv /\ [Next]_vars => WorkInv'
<1> SUFFICES ASSUME WorkInv, [Next]_vars PROVE WorkInv'
  OBVIOUS
<1>1. PickInv /\ FlashInv /\ SessionInv /\ RefsInv
  BY WorkParts
<1>2. FlashTypes /\ TurnInv /\ refs \subseteq Works /\ app \in Apps \cup {None}
  BY <1>1 DEF FlashInv, SessionInv, SessionTypes
<1>3. PickInv'
  BY <1>1, <1>2, PickInvKeeps
<1>4. FlashInv'
  BY <1>1, <1>2, FlashInvKeeps
<1>5. SessionInv'
  BY <1>1, <1>2, SessionInvKeeps
<1>6. RefsInv'
  BY <1>1, <1>2, RefsInvKeeps
<1>7. TypeOK'
  <2>1. PickTypes' /\ FlashTypes' /\ SessionTypes'
    BY <1>3, <1>4, <1>5 DEF PickInv, FlashInv, SessionInv
  <2> QED
    BY <2>1 DEF TypeOK, PickTypes, FlashTypes, SessionTypes, Launches
<1> QED
  BY <1>3, <1>4, <1>5, <1>6, <1>7 DEF WorkInv, PickInv, FlashInv, SessionInv

LEMMA WorkInvariant == Spec => []WorkInv
  BY WorkInit, WorkNext, PTL DEF Spec

-----------------------------------------------------------------------------
(* The theorems.                                                           *)

(* Every variable stays in its set: only works are ever listed, picked,    *)
(* referred to, indexed or waiting to be run.                              *)
THEOREM WorkTypes == Spec => []TypeOK
<1>1. WorkInv => TypeOK
  BY DEF WorkInv
<1> QED
  BY <1>1, WorkInvariant, PTL

(* While the picker of pick() is up one Promise waits for it, the one its  *)
(* closing completes, and none ever waits for a picker that is not up.     *)
THEOREM PickerTheorem == Spec => []PickerHasItsPromise
<1>1. WorkInv => PickerHasItsPromise
  BY DEF WorkInv
<1> QED
  BY <1>1, WorkInvariant, PTL

(* What launchContext() tells a session was left by the very last one,     *)
(* however that ended and whatever was opened, evicted or failed to start  *)
(* since; and the work that its run() named was told all of it.            *)
THEOREM HandOverTheorem == Spec => []HandOver
<1>1. WorkInv => HandOver
  BY DEF WorkInv, HandInv
<1> QED
  BY <1>1, WorkInvariant, PTL

(* The step behind WorksAreSafe.                                           *)
MayReplace(s) ==
  \/ phase \in {"home", "asleep"} /\ s = User
  \/ making # None /\ making.slot = s
  \/ author[s] = app
  \/ s \in chosen /\ (told[app][s] = store[s] \/ blind')
  \/ /\ s \in chosen \cup chosenBefore
     /\ s \in WorkSlots /\ index'[s] = app

LEMMA SaveMayReplace ==
  ASSUME WorkInv, NEW s \in Works, NEW t \in Texts, NEW r, Save(s, t, r)
  PROVE  MayReplace(s)
<1>1. FlashTypes /\ SessionTypes /\ ToldInv /\ RefsInv /\ TurnInv
  BY TypesSplit DEF WorkInv
<1>2. /\ s \in refs /\ index' = index
      /\ blind' = (r \notin {None, told[app][s].revision})
      /\ phase # "home"
  BY DEF Save, Guest
<1>3. app \in Apps
  BY <1>1, <1>2 DEF SessionTypes, TurnInv
<1>4. PICK idx \in Indexes : MayWork(idx, s) /\ RevisionAgrees(idx, s, r)
  BY DEF Save
<1>5. author[s] = app \/ s \in chosen \cup chosenBefore
  BY <1>1, <1>2 DEF RefsInv
<1>6. CASE Owned(idx, s)
  <2>1. s \in WorkSlots /\ idx[s] = app
    BY <1>6 DEF Owned
  <2>2. idx # BlankIndex
    BY <1>3, <2>1, Constants DEF BlankIndex
  <2>3. idx = index
    BY <2>2 DEF Indexes
  <2> QED
    BY <1>2, <1>5, <2>1, <2>3 DEF MayReplace
<1>7. CASE ~Owned(idx, s)
  <2>1. s \in chosen
    BY <1>1, <1>4, <1>7 DEF MayWork, RefsInv
  <2>2. r # None /\ r = store[s].revision
    BY <1>4, <1>7 DEF RevisionAgrees
  <2>3. CASE r = told[app][s].revision
    <3>1. ToldOf(told[app][s], store[s])
      BY <1>1, <1>3 DEF ToldInv
    <3> QED
      BY <2>1, <2>2, <2>3, <3>1 DEF MayReplace, ToldOf
  <2>4. CASE r # told[app][s].revision
    BY <1>2, <2>1, <2>2, <2>4 DEF MayReplace
  <2> QED
    BY <2>3, <2>4
<1> QED
  BY <1>6, <1>7

LEMMA SafeStep ==
  ASSUME WorkInv, [Next]_vars, NEW s \in Works, Replaced(s)
  PROVE  MayReplace(s)
<1>1. FlashTypes /\ TurnInv
  BY TypesSplit DEF WorkInv
<1>2. store'[s] # store[s] /\ store[s].revision # 0
  BY DEF Replaced, Written
<1>3. ASSUME NEW r \in Works, NEW t \in Texts, store' = Landed(r, t)
      PROVE  r = s
  BY <1>1, <1>2, <1>3 DEF Landed, FlashTypes
<1>4. ASSUME NEW t \in Texts, Create(t) PROVE FALSE
  <2>1. PICK idx \in Indexes :
          /\ Free(idx) # {} /\ store' = Landed(FirstOf(Free(idx)), t)
    BY <1>4 DEF Create
  <2>2. Free(idx) \subseteq Nat /\ Free(idx) \subseteq Works
    BY WorkspaceAssumption DEF Free, Works
  <2>3. FirstOf(Free(idx)) \in Free(idx)
    BY <2>1, <2>2, LeastOf
  <2>4. FirstOf(Free(idx)) = s
    BY <2>1, <2>2, <2>3, <1>3
  <2>5. ~Written(s)
    BY <2>3, <2>4 DEF Free
  <2> QED
    BY <2>5, <1>2 DEF Written
<1>5. ASSUME NEW t \in Texts, EditorSaves(t) PROVE MayReplace(s)
  BY <1>3, <1>5, Constants DEF EditorSaves, MayReplace
<1>6. CASE NotNamed
  <2>1. making # None /\ store' \in {store, [store EXCEPT
                                               ![making.slot] = NoVersion]}
    BY <1>6 DEF NotNamed
  <2>2. making.slot = s
    BY <2>1, <1>1, <1>2 DEF FlashTypes
  <2> QED
    BY <2>1, <2>2 DEF MayReplace
<1>7. ASSUME NEW q \in Works, NEW t \in Texts,
             NEW r \in Revisions \cup {None}, Save(q, t, r)
      PROVE  MayReplace(s)
  <2>1. q = s
    BY <1>3, <1>7 DEF Save
  <2> QED
    BY <1>7, <2>1, SaveMayReplace
<1>8. ASSUME NEW r \in Works, Choose(r) \/ Read(r) \/ Run(r)
      PROVE  store' = store
  BY <1>8 DEF Choose, Read, Run, flashVars
<1>9. ASSUME NEW a \in Apps, Open(a) PROVE store' = store
  BY <1>9 DEF Open, flashVars
<1>10. CASE Moves
  BY <1>10, <1>1, <1>2, MovesAre DEF TurnInv
<1>11. CASE Pick \/ Decline \/ Expire \/ Pump \/ CancelAll \/ FallAsleep
            \/ Named \/ EndSession \/ PowerCut \/ UNCHANGED vars
  <2>1. store' = store
    BY <1>11 DEF Pick, Decline, Expire, Pump, CancelAll, FallAsleep, Named,
       EndSession, PowerCut, vars, flashVars
  <2> QED
    BY <2>1, <1>2
<1> QED
  BY <1>2, <1>4, <1>5, <1>6, <1>7, <1>8, <1>9, <1>10, <1>11 DEF Next, Moves

(* A work is not replaced behind its author's back: what js_save(),        *)
(* js_create() and the Playground's editor each may replace, however the   *)
(* index, flash and power fail, whatever revision an app names, and        *)
(* wherever in its life a session is.                                      *)
THEOREM WorksTheorem == Spec => WorksAreSafe
<1>1. WorkInv /\ [Next]_vars
        => [\A s \in Works : Replaced(s) =>
              \/ phase \in {"home", "asleep"} /\ s = User
              \/ making # None /\ making.slot = s
              \/ author[s] = app
              \/ s \in chosen /\ (told[app][s] = store[s] \/ blind')
              \/ /\ s \in chosen \cup chosenBefore
                 /\ s \in WorkSlots /\ index'[s] = app]_vars
  BY SafeStep DEF MayReplace
<1> QED
  BY <1>1, WorkInvariant, PTL DEF Spec, WorksAreSafe
=============================================================================
