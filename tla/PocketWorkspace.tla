-------------------------- MODULE PocketWorkspace --------------------------
(***************************************************************************)
(* src/main/pocket/pocket_workspace.c: the works an app may create, read,  *)
(* save, have picked for it and run.  A work is a record of the source     *)
(* store, here its newest version and its revision (SourceStore shows that *)
(* a save lands whole or not at all); who owns it is one blob in NVS that  *)
(* every call reads afresh.  The guest's turn follows run_pumps() of       *)
(* src/main/app_session.c; how a session starts, sleeps and ends, and what *)
(* it hands to the next one, follow that file and src/main/main.c.  All of *)
(* it is one task; flash and NVS fail, power is lost, and the person acts  *)
(* between two turns.                                                      *)
(***************************************************************************)
EXTENDS Integers, Sequences, FiniteSets

CONSTANTS
  User,        \* SRC_SLOT_USER, the Playground's program
  WorkSlots,   \* the slots from SRC_SLOT_WORK on
  Apps,        \* the registered apps
  Level,       \* what the manifest grants each: "none", "self" or "pick"
  WorkApp,     \* APP_ID_WORK, what a work runs as
  Texts,       \* what a work can hold
  MaxRevision, \* how often one record is saved
  MaxSessions, \* how many sessions get to run their source
  MaxPicks,    \* how many pickers a session opens
  MaxFaults    \* how often flash, NVS or memory fails

CONSTANTS Host, None, NoText,
          Null, Error  \* what a pick() answers when not with a work

Works == {User} \cup WorkSlots
Levels == {"none", "self", "pick"}

(* What the end of a session goes on to, but for the app that evicts it:   *)
(* end_run() takes an accepted run, native_stop() does not, and a start    *)
(* that failed is stopped once more.                                       *)
Ends == {"take", "home", "fail"}

ASSUME WorkspaceAssumption ==
  /\ Works \subseteq Nat /\ User \notin WorkSlots
  /\ WorkApp \in Apps /\ Level \in [Apps -> Levels]
  /\ ({Host, None} \cup Ends) \cap Apps = {} /\ None \notin Ends
  /\ {None, Null, Error} \cap Works = {} /\ None \notin Nat
  /\ NoText \notin Texts
  /\ {MaxRevision, MaxSessions, MaxPicks, MaxFaults} \subseteq Nat
  /\ MaxRevision # 0

VARIABLES
  store,    \* the newest version of every work; revision 0 is no record
  index,    \* the NVS blob: the owner of every work slot
  app,      \* the app in the guest, asleep or not, or None
  phase,    \* where the session is in its life and its turn
  after,    \* what its end goes on to, once that is settled
  making,   \* create() between its writes
  modal,    \* is the picker on the screen?
  rows,     \* what it lists
  promise,  \* the pick() Promises of this session
  pick_request, pick_slot, picked,
  refs,     \* the works the guest holds a SourceRef of
  run_slot, launch,
  sessions, faults,
  author,   \* history: whose create() or editor made what a work holds
  told,     \* history: the version of a work each app was last told of
  blind,    \* history: was the last step a save that named a revision
            \* its app was not told of?
  chosen,   \* history: what the person chose since the session began or
            \* last slept...
  chosenBefore, \* ...and in this session before that
  ran,      \* history: whose the accepted run is, and what it left
  startedBy \* history: the run that started this session

pickVars == <<modal, rows, promise, pick_request, pick_slot, picked>>
flashVars == <<store, index, author>>
runVars == <<run_slot, launch, ran>>
choiceVars == <<chosen, chosenBefore>>
lifeVars == <<app, phase, after, sessions, startedBy>>
vars == <<flashVars, lifeVars, making, pickVars, refs, runVars, faults,
          told, blind, choiceVars>>

Version == [revision : 0 .. MaxRevision, text : Texts \cup {NoText}]
NoVersion == [revision |-> 0, text |-> NoText]
BlankIndex == [s \in WorkSlots |-> Host]

Phases == {"home", "loading", "host", "early", "late", "stopping",
           "drowsy", "dozing", "asleep", "waking"}

PickPromise ==
  [at : {"open", "posted", "settled"},
   status : {"none", "chose", "cancelled", "expired"},
   stopped : BOOLEAN,
   choice : Works \cup {None}]  \* history: the person's
Settled == [at |-> "settled", status |-> "none", stopped |-> FALSE,
            choice |-> None]

(* Who called run(), and the launchContext() it left, named by its caller  *)
RunBy == [by : (1 .. MaxSessions) \cup {None},
          left : (1 .. MaxSessions) \cup {None}]

Written(s) == store[s].revision # 0

(* A version lands: the next revision of the record.                       *)
Landed(s, t) == [store EXCEPT ![s] = [revision |-> @.revision + 1, text |-> t]]

(* No work is told of or saved in this step.                               *)
NotSaved == UNCHANGED told /\ blind' = FALSE

-----------------------------------------------------------------------------
(* Faults, and what a call makes of them.                                  *)

MayFail == faults < MaxFaults
NoFault == UNCHANGED faults
Fault == MayFail /\ faults' = faults + 1

(* index_load(): an index that cannot be read is a blank one.              *)
IndexLoaded(idx) ==
  \/ idx = index /\ NoFault
  \/ idx = BlankIndex /\ Fault
Indexes == {index, BlankIndex}

-----------------------------------------------------------------------------
(* Permission.                                                             *)

Owned(idx, s) == s \in WorkSlots /\ idx[s] = app

(* app_registry_may_work() for read, save and run                          *)
MayWork(idx, s) ==
  /\ Level[app] # "none"
  /\ Owned(idx, s) \/ (s \in picked /\ Level[app] = "pick")

(* JavaScript runs: the source is evaluated, listeners before the Promise  *)
(* table is pumped, the rest of the turn after it, the hooks, and what a   *)
(* suspension settles.                                                     *)
Guest ==
  /\ phase \in {"loading", "early", "late", "stopping", "drowsy", "dozing",
                "waking"}
  /\ making = None

-----------------------------------------------------------------------------
(* The picker.                                                             *)

(* picker_finish() when the picker is up                                   *)
Finish(status, stopped, s) ==
  /\ modal' = FALSE /\ rows' = {}
  /\ pick_slot' = s
  /\ pick_request' = 0
  /\ promise' = [promise EXCEPT ![pick_request] =
                   [@ EXCEPT !.at = "posted", !.status = status,
                             !.stopped = stopped, !.choice = s]]

(* The picker comes up with its Promise.                                   *)
OpensPicker ==
  /\ Len(promise) < MaxPicks
  /\ modal' = TRUE
  /\ rows' = {s \in Works : Written(s)}
  /\ pick_slot' = None
  /\ pick_request' = Len(promise) + 1
  /\ promise' = Append(promise, [Settled EXCEPT !.at = "open"])

(* Mutant: a second picker takes the place of the first.                   *)
PickAgain ==
  /\ Guest /\ Level[app] = "pick"
  /\ OpensPicker
  /\ UNCHANGED <<flashVars, lifeVars, making, picked, refs, runVars, faults,
                 choiceVars>>
  /\ NotSaved

(* pick(): refused while the picker is up.                                 *)
Pick ==
  /\ Guest /\ Level[app] = "pick" /\ ~modal
  /\ OpensPicker
  /\ UNCHANGED <<flashVars, lifeVars, making, picked, refs, runVars, faults,
                 choiceVars>>
  /\ NotSaved

(* The person, or the deadline, between two turns: the guest is not ticked *)
(* while the picker is up.                                                 *)
AtPicker == modal /\ phase = "host"

Choose(s) ==
  /\ AtPicker /\ s \in rows
  /\ picked' = picked \cup {s}
  /\ chosen' = chosen \cup {s}
  /\ Finish("chose", FALSE, s)
  /\ UNCHANGED <<flashVars, lifeVars, making, refs, runVars, faults,
                 chosenBefore>>
  /\ NotSaved

Decline ==
  /\ AtPicker
  /\ Finish("cancelled", FALSE, None)
  /\ UNCHANGED <<flashVars, lifeVars, making, picked, refs, runVars, faults,
                 choiceVars>>
  /\ NotSaved

(* Mutant: the deadline is looked at in the guest's turn.                  *)
ExpireInTurn ==
  /\ modal /\ phase = "late"
  /\ Finish("expired", FALSE, None)
  /\ UNCHANGED <<flashVars, lifeVars, making, picked, refs, runVars, faults,
                 choiceVars>>
  /\ NotSaved

Expire ==
  /\ AtPicker
  /\ Finish("expired", FALSE, None)
  /\ UNCHANGED <<flashVars, lifeVars, making, picked, refs, runVars, faults,
                 choiceVars>>
  /\ NotSaved

-----------------------------------------------------------------------------
(* The turn.                                                               *)

(* A turn, which Back or the force stop makes the last one.                *)
BeginTurn ==
  /\ phase = "host" /\ ~modal
  /\ phase' = "early" /\ after' \in {None, "take"}
  /\ UNCHANGED <<flashVars, app, sessions, startedBy, making, pickVars, refs,
                 runVars, faults, choiceVars>>
  /\ NotSaved

(* pick_settle(): the choice is read when the Promise settles.             *)
Answer(p) ==
  IF p.stopped \/ p.status = "expired" THEN Error
  ELSE IF p.status = "cancelled" \/ pick_slot = None THEN Null
  ELSE pick_slot

Posted == {i \in DOMAIN promise : promise[i].at = "posted"}

(* A work that was chosen reaches the guest as a SourceRef.                *)
Answered == refs \cup ({Answer(promise[i]) : i \in Posted} \cap Works)

(* pocket_api_pump(): what is posted settles; what is open and has been    *)
(* cancelled is stopped, which posts it for the next turn.                 *)
Pump ==
  /\ phase = "early" /\ making = None
  /\ phase' = "late"
  /\ LET settled == [i \in DOMAIN promise |->
                       IF i \in Posted THEN Settled ELSE promise[i]]
     IN \/ /\ promise' = settled
           /\ UNCHANGED <<modal, rows, pick_slot, pick_request>>
        \/ /\ modal /\ modal' = FALSE /\ rows' = {}
           /\ pick_slot' = None /\ pick_request' = 0
           /\ promise' = [settled EXCEPT ![pick_request] =
                            [@ EXCEPT !.at = "posted", !.status = "cancelled",
                                      !.stopped = TRUE]]
  /\ refs' = Answered
  /\ UNCHANGED <<flashVars, app, after, sessions, startedBy, making, picked,
                 runVars, faults, choiceVars>>
  /\ NotSaved

(* The end of tick_run(): a run that was accepted, by whom ever, ends the  *)
(* session, and so do Back, an exit, an error and a source without frame.  *)
EndTurn ==
  /\ phase = "late" /\ making = None
  /\ \/ phase' = "stopping" /\ after' = "take"
     \/ after = None /\ run_slot = None /\ phase' = "host" /\ UNCHANGED after
  /\ UNCHANGED <<flashVars, app, sessions, startedBy, making, pickVars, refs,
                 runVars, faults, choiceVars>>
  /\ NotSaved

-----------------------------------------------------------------------------
(* The calls.                                                              *)

Free(idx) == {s \in WorkSlots : idx[s] = Host /\ ~Written(s)}
FirstOf(S) == CHOOSE s \in S : \A r \in S : s <= r

(* create(): the record first, then the owner and the title, over whatever *)
(* index was loaded.                                                       *)
Create(t) ==
  /\ Guest /\ Level[app] # "none"
  /\ \E idx \in Indexes :
       /\ IndexLoaded(idx) /\ Free(idx) # {}
       /\ LET s == FirstOf(Free(idx)) IN
          /\ store' = Landed(s, t)
          /\ author' = [author EXCEPT ![s] = app]
          /\ making' = [slot |-> s, index |-> [idx EXCEPT ![s] = app]]
  /\ UNCHANGED <<index, lifeVars, pickVars, refs, runVars, choiceVars>>
  /\ NotSaved

(* index_store() lands, and the reference is handed out...                 *)
Named ==
  /\ making # None
  /\ index' = making.index
  /\ refs' = refs \cup {making.slot}
  /\ making' = None
  /\ UNCHANGED <<store, author, lifeVars, pickVars, runVars, faults,
                 choiceVars>>
  /\ NotSaved

(* ...or does not, or not as far as nvs_commit() can tell, and the slot    *)
(* goes back, if srcstore_clear() can.                                     *)
NotNamed ==
  /\ making # None /\ Fault
  /\ index' \in {index, making.index}
  /\ \/ store' = [store EXCEPT ![making.slot] = NoVersion]
     \/ UNCHANGED store
  /\ making' = None
  /\ UNCHANGED <<author, lifeVars, pickVars, refs, runVars, choiceVars>>
  /\ NotSaved

(* read(): the app is told the version and its revision.                   *)
Read(s) ==
  /\ Guest /\ s \in refs /\ Written(s)
  /\ \E idx \in Indexes : IndexLoaded(idx) /\ MayWork(idx, s)
  /\ told' = [told EXCEPT ![app][s] = store[s]]
  /\ blind' = FALSE
  /\ UNCHANGED <<flashVars, lifeVars, making, pickVars, refs, runVars,
                 choiceVars>>

(* Mutant: ifRevision is optional for every work.                          *)
RevisionOptional(idx, s, r) == r # None => r = store[s].revision

(* ifRevision is any number, whether or not the app was ever told it; what *)
(* is not its own needs one.                                               *)
RevisionAgrees(idx, s, r) ==
  IF r = None THEN Owned(idx, s) ELSE r = store[s].revision

(* save(), with an ifRevision or without                                   *)
Save(s, t, r) ==
  /\ Guest /\ s \in refs
  /\ \E idx \in Indexes : /\ IndexLoaded(idx) /\ MayWork(idx, s)
                          /\ RevisionAgrees(idx, s, r)
  /\ store[s].revision < MaxRevision
  /\ store' = Landed(s, t)
  /\ told' = [told EXCEPT ![app][s] = store'[s]]
  /\ blind' = (r \notin {None, told[app][s].revision})
  /\ UNCHANGED <<index, author, lifeVars, making, pickVars, refs, runVars,
                 choiceVars>>

(* run(): one is accepted, and its state replaces what was there.          *)
Run(s) ==
  /\ Guest /\ s \in refs /\ Written(s) /\ run_slot = None
  /\ \E idx \in Indexes : IndexLoaded(idx) /\ MayWork(idx, s)
  /\ run_slot' = s
  /\ \E left \in {sessions, None} :
       /\ launch' = [state |-> left, fresh |-> TRUE]
       /\ ran' = [by |-> sessions, left |-> left]
  /\ UNCHANGED <<flashVars, lifeVars, making, pickVars, refs, choiceVars>>
  /\ NotSaved

-----------------------------------------------------------------------------
(* A session sleeps: app_suspend(), its two settle_all() and what lies     *)
(* between them.                                                           *)

(* Back from the menu, or native_suspend(); the suspend hook runs.         *)
Suspend ==
  /\ phase = "host" /\ ~modal
  /\ phase' = "drowsy"
  /\ UNCHANGED <<flashVars, app, after, sessions, startedBy, making, pickVars,
                 refs, runVars, faults, choiceVars>>
  /\ NotSaved

(* Everything pending settles, a picker that is up without a work.         *)
SettleAll ==
  /\ promise' = [i \in DOMAIN promise |-> Settled]
  /\ refs' = Answered
  /\ modal' = FALSE /\ rows' = {} /\ pick_request' = 0

(* A suspension that fails is the ordinary Back, or native_stop().         *)
CannotSleep ==
  \/ phase' = "early" /\ after' = "take"
  \/ phase' = "stopping" /\ after' = "home"

(* pocket_api_cancel_all() and what settles then                           *)
CancelAll ==
  /\ phase = "drowsy" /\ making = None
  /\ SettleAll
  /\ pick_slot' = IF modal THEN None ELSE pick_slot
  /\ phase' = "dozing"
  /\ UNCHANGED <<flashVars, app, after, sessions, startedBy, making, picked,
                 runVars, faults, choiceVars>>
  /\ NotSaved

StaysAwake ==
  /\ phase \in {"drowsy", "dozing"} /\ making = None
  /\ CannotSleep
  /\ UNCHANGED <<flashVars, app, sessions, startedBy, making, pickVars, refs,
                 runVars, faults, choiceVars>>
  /\ NotSaved

(* pocket_workspace_suspend(), the rest, and the guest is dormant          *)
FallAsleep ==
  /\ phase = "dozing" /\ making = None
  /\ SettleAll
  /\ pick_slot' = None /\ picked' = {}
  /\ chosen' = {} /\ chosenBefore' = chosenBefore \cup chosen
  /\ \/ phase' = "asleep" /\ UNCHANGED after
     \/ CannotSleep
  /\ UNCHANGED <<flashVars, app, sessions, startedBy, making, runVars, faults>>
  /\ NotSaved

(* app_resume() by begin_run() of the same app, which a work's is not      *)
Resume ==
  /\ phase = "asleep" /\ app # WorkApp
  /\ phase' = "waking"
  /\ UNCHANGED <<flashVars, app, after, sessions, startedBy, making, pickVars,
                 refs, runVars, faults, choiceVars>>
  /\ NotSaved

-----------------------------------------------------------------------------
(* From one session to the next.                                           *)

NoLaunch == [state |-> None, fresh |-> FALSE]
NoRun == [by |-> None, left |-> None]

(* pocket_workspace_reset(), pocket_api_reset() and what the next install  *)
(* clears again; not the accepted run                                      *)
ResetSession ==
  /\ modal' = FALSE /\ rows' = {} /\ promise' = <<>>
  /\ pick_request' = 0 /\ pick_slot' = None /\ picked' = {}
  /\ refs' = {} /\ chosen' = {} /\ chosenBefore' = {}

(* Mutant: what the next session was left stays for all that follow.       *)
SurvivesAll(l) == [l EXCEPT !.fresh = FALSE]

Survives(l) ==
  IF l.fresh THEN [l EXCEPT !.fresh = FALSE]
             ELSE [l EXCEPT !.state = None]

GoesHome ==
  /\ app' = None /\ phase' = "home" /\ startedBy' = NoRun
  /\ UNCHANGED sessions

(* begin_run(): the source of the next session is evaluated, or the start  *)
(* fails before that and is stopped.                                       *)
Begins(a, by, l) ==
  \/ /\ sessions < MaxSessions
     /\ app' = a /\ phase' = "loading" /\ sessions' = sessions + 1
     /\ startedBy' = by /\ launch' = l
  \/ GoesHome /\ launch' = Survives(l)

(* The source was evaluated, or the resume hook returned...                *)
Loaded ==
  /\ phase \in {"loading", "waking"} /\ making = None
  /\ phase' = "host"
  /\ UNCHANGED <<flashVars, app, after, sessions, startedBy, making, pickVars,
                 refs, runVars, faults, choiceVars>>
  /\ NotSaved

(* ...or it threw.                                                         *)
LoadFails ==
  /\ phase = "loading" /\ making = None
  /\ phase' = "stopping" /\ after' = "fail"
  /\ UNCHANGED <<flashVars, app, sessions, startedBy, making, pickVars, refs,
                 runVars, faults, choiceVars>>
  /\ NotSaved

(* native_stop(), of a sleeping guest too; an overlay ends like this.      *)
NativeStop ==
  /\ phase \in {"host", "asleep"}
  /\ phase' = "stopping" /\ after' = "home"
  /\ UNCHANGED <<flashVars, app, sessions, startedBy, making, pickVars, refs,
                 runVars, faults, choiceVars>>
  /\ NotSaved

(* Another app is opened, or the same one anew, and the sleeping one has   *)
(* its stop hook first.                                                    *)
Evict(a) ==
  /\ phase = "asleep"
  /\ phase' = "stopping" /\ after' = a
  /\ UNCHANGED <<flashVars, app, sessions, startedBy, making, pickVars, refs,
                 runVars, faults, choiceVars>>
  /\ NotSaved

Open(a) ==
  /\ phase = "home"
  /\ Begins(a, NoRun, launch)
  /\ UNCHANGED <<flashVars, after, making, pickVars, refs, run_slot, ran,
                 faults, choiceVars>>
  /\ NotSaved

(* take_pending_run(): the accepted work is loaded and started; without    *)
(* the memory, or a record that verifies, there is nothing to start.       *)
TakeRun(l) ==
  /\ run_slot' = None /\ ran' = NoRun
  /\ \/ run_slot = None /\ GoesHome /\ launch' = l /\ NoFault
     \/ run_slot # None /\ GoesHome /\ launch' = l /\ Fault
     \/ run_slot # None /\ Begins(WorkApp, ran, l) /\ NoFault

(* app_stop(), and what called it                                          *)
EndSession ==
  /\ phase = "stopping" /\ making = None
  /\ ResetSession
  /\ after' = None
  /\ \/ after = "take" /\ TakeRun(Survives(launch))
     \/ /\ after = "home" /\ GoesHome
        /\ launch' = Survives(launch) /\ UNCHANGED <<run_slot, ran, faults>>
     \/ /\ after = "fail" /\ GoesHome
        /\ launch' = Survives(Survives(launch))
        /\ UNCHANGED <<run_slot, ran, faults>>
     \/ /\ after \in Apps /\ Begins(after, NoRun, Survives(launch))
        /\ UNCHANGED <<run_slot, ran, faults>>
  /\ UNCHANGED <<flashVars, making>>
  /\ NotSaved

(* The Playground's own editor saves its program between two sessions.     *)
EditorSaves(t) ==
  /\ phase \in {"home", "asleep"}
  /\ store[User].revision < MaxRevision
  /\ store' = Landed(User, t)
  /\ UNCHANGED <<index, author, lifeVars, making, pickVars, refs, runVars,
                 faults, choiceVars>>
  /\ NotSaved

(* Power is lost: flash and NVS stay.                                      *)
PowerCut ==
  /\ Fault
  /\ ResetSession
  /\ run_slot' = None /\ launch' = NoLaunch /\ ran' = NoRun
  /\ making' = None /\ after' = None /\ GoesHome
  /\ UNCHANGED flashVars
  /\ NotSaved

Init ==
  /\ store = [s \in Works |-> NoVersion] /\ index = BlankIndex
  /\ app = None /\ phase = "home" /\ after = None /\ making = None
  /\ modal = FALSE /\ rows = {} /\ promise = <<>>
  /\ pick_request = 0 /\ pick_slot = None /\ picked = {}
  /\ refs = {} /\ run_slot = None /\ launch = NoLaunch
  /\ sessions = 0 /\ faults = 0
  /\ author = [s \in Works |-> Host]
  /\ told = [a \in Apps |-> [s \in Works |-> NoVersion]] /\ blind = FALSE
  /\ chosen = {} /\ chosenBefore = {}
  /\ ran = NoRun /\ startedBy = NoRun

Revisions == 0 .. MaxRevision

Next ==
  \/ Pick \/ Decline \/ Expire \/ BeginTurn \/ Pump \/ EndTurn
  \/ \E s \in Works : Choose(s) \/ Read(s) \/ Run(s)
  \/ \E t \in Texts : Create(t) \/ EditorSaves(t)
  \/ \E s \in Works, t \in Texts, r \in Revisions \cup {None} : Save(s, t, r)
  \/ Named \/ NotNamed
  \/ Suspend \/ CancelAll \/ StaysAwake \/ FallAsleep \/ Resume
  \/ Loaded \/ LoadFails \/ NativeStop \/ EndSession \/ PowerCut
  \/ \E a \in Apps : Open(a) \/ Evict(a)

Spec == Init /\ [][Next]_vars

(* The main loop keeps turning, looks at the picker's deadline on every    *)
(* frame it is up, and what it calls comes back.                           *)
Fairness ==
  /\ WF_vars(BeginTurn) /\ WF_vars(Pump) /\ WF_vars(EndTurn)
  /\ WF_vars(Expire) /\ WF_vars(Named) /\ WF_vars(EndSession)
  /\ WF_vars(Loaded) /\ WF_vars(CancelAll) /\ WF_vars(FallAsleep)

FairSpec == Spec /\ Fairness

(* Every variable holds a value of its kind; only works are ever picked,   *)
(* held, indexed or waiting to be run.                                     *)
TypeOK ==
  /\ store \in [Works -> Version] /\ index \in [WorkSlots -> Apps \cup {Host}]
  /\ app \in Apps \cup {None} /\ phase \in Phases
  /\ after \in {None} \cup Ends \cup Apps
  /\ making = None \/ making \in [slot : WorkSlots,
                                  index : [WorkSlots -> Apps \cup {Host}]]
  /\ modal \in BOOLEAN /\ rows \subseteq Works
  /\ promise \in Seq(PickPromise) /\ Len(promise) <= MaxPicks
  /\ pick_request \in 0 .. MaxPicks /\ pick_slot \in Works \cup {None}
  /\ picked \subseteq Works /\ refs \subseteq Works
  /\ run_slot \in Works \cup {None}
  /\ launch \in [state : (1 .. MaxSessions) \cup {None}, fresh : BOOLEAN]
  /\ sessions \in 0 .. MaxSessions /\ faults \in 0 .. MaxFaults
  /\ author \in [Works -> Apps \cup {Host}]
  /\ told \in [Apps -> [Works -> Version]] /\ blind \in BOOLEAN
  /\ chosen \subseteq Works /\ chosenBefore \subseteq Works
  /\ {ran, startedBy} \subseteq RunBy

-----------------------------------------------------------------------------
(* Section 7 as js_save() and js_create() put it: a work is not replaced   *)
(* behind its author's back.  What a record held goes only when the        *)
(* Playground's editor saves, when its own creation is taken back, when    *)
(* its author saves, or when an app saves for which the person chose it in *)
(* this session, and which the index calls the owner, or for which it was  *)
(* chosen since the session last slept and which was last told exactly     *)
(* what it replaces, unless it names a revision it was never told.         *)
Replaced(s) == Written(s) /\ store'[s] # store[s]
WorksAreSafe ==
  [][\A s \in Works : Replaced(s) =>
       \/ phase \in {"home", "asleep"} /\ s = User
       \/ making # None /\ making.slot = s
       \/ author[s] = app
       \/ s \in chosen /\ (told[app][s] = store[s] \/ blind')
       \/ /\ s \in chosen \cup chosenBefore
          /\ s \in WorkSlots /\ index'[s] = app]_vars

(* The picker and its Promise: whenever the picker has the screen, exactly *)
(* one Promise is waiting for it, the one its closing will complete; and a *)
(* Promise waits for nothing but the picker.                               *)
PickerHasItsPromise ==
  /\ modal => pick_request \in DOMAIN promise
  /\ \A i \in DOMAIN promise :
       promise[i].at = "open" <=> modal /\ i = pick_request

(* pocket_workspace_reset(): what run() leaves survives exactly one reset. *)
(* Whoever reads a launchContext() that a session before left, reads what  *)
(* the very last one left, through stops, evictions and starts that fail;  *)
(* and a work that the run() of the session before it started reads all    *)
(* that this run() left.                                                   *)
HandOver ==
  app # None /\ ~launch.fresh =>
    /\ launch.state # None => launch.state = sessions - 1
    /\ startedBy.by = sessions - 1 => launch.state = startedBy.left

(* Why the picker has a deadline of its own: a Promise that nothing ever   *)
(* settles is refused.  Every pick() ends, with its session at the latest. *)
Pending(i) == i \in DOMAIN promise /\ promise[i].at # "settled"
EveryPickEnds ==
  \A i \in 1 .. MaxPicks :
    Pending(i) ~> ~Pending(i)

(* end_run(): a session that called run() hands over to the work it named. *)
(* A run that is waiting while a session runs is this session's.           *)
RunIsOwn == app # None /\ run_slot # None => ran.by = sessions

(* Section 7: a session that the person started reads a launchContext() of *)
(* null, unless it calls run() itself.                                     *)
OrdinaryStartIsNull ==
  app # None /\ startedBy = NoRun /\ ~launch.fresh => launch.state = None

(* js_save(): the revision keeps an app that never read what is in a work  *)
(* from replacing it.                                                      *)
PickedIsRead ==
  [][\A s \in Works :
       Replaced(s) /\ app # None /\ making = None /\ phase # "asleep"
       => author[s] = app \/ told[app][s] # NoVersion
          \/ (s \in WorkSlots /\ index'[s] = app)]_vars

(* pick_settle(): null is the person deciding not to choose.  A choice is  *)
(* what the Promise of that picker answers.                                *)
AnswerIsChoice ==
  [][\A i \in Posted :
       i \in DOMAIN promise' /\ promise'[i] = Settled
       /\ promise[i].status = "chose"
       => Answer(promise[i]) = promise[i].choice]_vars
=============================================================================
