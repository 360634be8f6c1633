------------------------------ MODULE CodeEdit ------------------------------
(***************************************************************************)
(* The editor of src/main/ui/codeedit.c on its store: the Playground's     *)
(* screen and the tutorial's (src/main/ui/tutorial.c), which share one     *)
(* buffer.  The buffer goes back to the heap while a program runs and when *)
(* the screen closes; what was typed and not saved is parked as a draft.   *)
(* Screens and runs follow src/main/main.c.  Everything here is the UI     *)
(* task; only a loss of power comes from outside.                          *)
(***************************************************************************)
EXTENDS SourceStore

CONSTANTS
  User,     \* SRC_SLOT_USER, the Playground's; the others are chapters
  Seeded    \* the slots whose first open starts from a template or example

ASSUME EditAssumption ==
  /\ User \in Slots /\ Seeded \subseteq Slots
  /\ Texts \subseteq Slots \X Nat
  /\ \A s \in Seeded : <<s, 0>> \in Texts

VARIABLES
  screen,   \* "home", "code", or the tutorial's "reading" and "writing"
  ed,       \* the call the editor is in
  quit,     \* does the save in progress leave the editor?
  doc,      \* the document and its buffer
  faults,   \* history: did flash fail since the document was opened ("now"),
            \* or before ("past")?
  typed,    \* history: what the person last had in the Playground's editor
  ran       \* history: the text of the run in progress, if there was a buffer

editVars == <<screen, ed, quit, doc, faults, typed, ran>>
vars == <<storeVars, editVars>>

(* The texts of a slot: what is typed or seeded there.                     *)
Mine(s) == {t \in Texts : t[1] = s}
Seed(s) == <<s, 0>>
Chapters == Slots \ {User}

Steps == {"ready", "saving", "retiring", "runSaving", "runRetiring",
          "running", "closing", "resetting"}

Doc == [live : BOOLEAN, slot : Slots, text : Written, changed : BOOLEAN,
        stored : BOOLEAN]

(* give_buffer(): the slot and the flags outlive the text.                 *)
GivenBack(d) == [d EXCEPT !.live = FALSE, !.text = Empty]

NoDoc == [live |-> FALSE, slot |-> User, text |-> Empty, changed |-> FALSE,
          stored |-> FALSE]

Bytes(t) == t \in Texts

-----------------------------------------------------------------------------
(* Opening.                                                                *)

(* open_slot(), with or without a buffer.                                  *)
Opened(s, live) ==
  LET restored == live /\ Bytes(DraftLoad(s))
      loaded   == live /\ ~restored /\ Bytes(Load(s))
      seeded   == live /\ ~restored /\ ~loaded /\ s \in Seeded
  IN [live |-> live, slot |-> s,
      text |-> IF restored THEN DraftLoad(s) ELSE IF loaded THEN Load(s)
               ELSE IF seeded THEN Seed(s) ELSE Empty,
      changed |-> restored, stored |-> ~restored /\ ~seeded]

(* take_buffer(): a buffer that is there is kept, a new one may not be had.*)
Buffers == IF doc.live THEN {TRUE} ELSE BOOLEAN

OpenSlot(s) ==
  /\ \E live \in Buffers : doc' = Opened(s, live)
  /\ faults' = IF faults = "now" THEN "past" ELSE faults
  /\ UNCHANGED <<storeVars, ed, quit, typed, ran>>

(* code_open()                                                             *)
CodeOpen == screen = "home" /\ screen' = "code" /\ OpenSlot(User)

(* tutorial_open(): the chapter's page, no editor yet.                     *)
TutorialOpen ==
  /\ screen = "home" /\ screen' = "reading"
  /\ UNCHANGED <<storeVars, ed, quit, doc, faults, typed, ran>>

Ready == ed = "ready" /\ Idle
Editing == Ready /\ screen \in {"code", "writing"}

(* open_editor() of some chapter                                           *)
OpenEditor ==
  /\ Ready /\ screen = "reading" /\ screen' = "writing"
  /\ \E s \in Chapters : OpenSlot(s)

-----------------------------------------------------------------------------
(* Keys in the editor.                                                     *)

(* vim_feed() changes the document, when there is one to change.           *)
Type(t) ==
  /\ Editing /\ doc.live
  /\ t \in Mine(doc.slot) \ {doc.text}
  /\ doc' = [doc EXCEPT !.text = t, !.changed = TRUE]
  /\ typed' = IF doc.slot = User THEN t ELSE typed
  /\ UNCHANGED <<storeVars, screen, ed, quit, faults, ran>>

(* do_new()                                                                *)
New ==
  /\ Editing
  /\ doc' = [doc EXCEPT !.text = Empty, !.changed = TRUE, !.stored = FALSE]
  /\ typed' = IF doc.live /\ doc.slot = User THEN None ELSE typed
  /\ UNCHANGED <<storeVars, screen, ed, quit, faults, ran>>

(* do_save(), alone or for VIM_ACT_SAVE_QUIT                               *)
Save(q) ==
  /\ Editing
  /\ SaveCall(doc.slot, doc.text)
  /\ ed' = "saving" /\ quit' = q
  /\ UNCHANGED <<screen, doc, faults, typed, ran>>

(* A key handler returned false: the tutorial's editor goes back to the    *)
(* page with its buffer as it is, the Playground closes.                   *)
Close(d) ==
  /\ IF d.changed THEN DraftSaveCall(d.slot, d.text) ELSE DraftClearCall
  /\ ed' = "closing"

LeaveEditor(d) ==
  IF screen = "writing"
  THEN screen' = "reading" /\ ed' = "ready" /\ UNCHANGED storeVars
  ELSE IF d.live THEN Close(d) /\ UNCHANGED screen
  ELSE screen' = "home" /\ ed' = "ready" /\ UNCHANGED storeVars

(* The save is over; it clears `changed' whatever came of it, and retires  *)
(* the draft only when it reached flash.                                   *)
Clean(d) == [d EXCEPT !.changed = FALSE, !.stored = TRUE]

(* Mutant: the draft is not retired by a save.                             *)
SavedKeepsDraft ==
  /\ ed = "saving" /\ Idle
  /\ doc' = Clean(doc)
  /\ quit' = FALSE
  /\ IF quit THEN LeaveEditor(Clean(doc))
             ELSE ed' = "ready" /\ UNCHANGED <<storeVars, screen>>
  /\ UNCHANGED <<faults, typed, ran>>

Saved ==
  /\ ed = "saving" /\ Idle
  /\ doc' = Clean(doc)
  /\ IF ok
     THEN DraftClearCall /\ ed' = "retiring" /\ UNCHANGED <<screen, quit>>
     ELSE /\ quit' = FALSE
          /\ IF quit THEN LeaveEditor(Clean(doc))
             ELSE ed' = "ready" /\ UNCHANGED <<storeVars, screen>>
  /\ UNCHANGED <<faults, typed, ran>>

Retired ==
  /\ ed = "retiring" /\ Idle
  /\ IF quit THEN LeaveEditor(doc)
             ELSE ed' = "ready" /\ UNCHANGED <<storeVars, screen>>
  /\ quit' = FALSE
  /\ UNCHANGED <<doc, faults, typed, ran>>

(* VIM_ACT_QUIT on a clean document, VIM_ACT_QUIT_FORCE                    *)
Quit ==
  /\ Editing
  /\ LeaveEditor(doc)
  /\ UNCHANGED <<quit, doc, faults, typed, ran>>

(* go_home(): Back on the chapter's page, or the force stop anywhere.      *)
GoHome ==
  /\ Ready /\ screen # "home"
  /\ IF doc.live THEN Close(doc) /\ UNCHANGED screen
                 ELSE screen' = "home" /\ UNCHANGED <<storeVars, ed>>
  /\ UNCHANGED <<quit, doc, faults, typed, ran>>

(* code_close() after its call                                             *)
Closed ==
  /\ ed = "closing" /\ Idle
  /\ doc' = GivenBack(doc)
  /\ screen' = "home" /\ ed' = "ready"
  /\ UNCHANGED <<storeVars, quit, faults, typed, ran>>

-----------------------------------------------------------------------------
(* Runs.                                                                   *)

(* Mutant: only what was never written is saved.                           *)
RunUnsaved ==
  /\ Editing
  /\ ran' = IF doc.live THEN doc.text ELSE None
  /\ IF ~doc.stored
     THEN SaveCall(doc.slot, doc.text) /\ ed' = "runSaving" /\ UNCHANGED doc
     ELSE ed' = "running" /\ doc' = GivenBack(doc) /\ UNCHANGED storeVars
  /\ UNCHANGED <<screen, quit, faults, typed>>

(* do_run(): what changed, or was never written, is saved first.           *)
Run ==
  /\ Editing
  /\ ran' = IF doc.live THEN doc.text ELSE None
  /\ IF doc.changed \/ ~doc.stored
     THEN SaveCall(doc.slot, doc.text) /\ ed' = "runSaving" /\ UNCHANGED doc
     ELSE ed' = "running" /\ doc' = GivenBack(doc) /\ UNCHANGED storeVars
  /\ UNCHANGED <<screen, quit, faults, typed>>

RunSaved ==
  /\ ed = "runSaving" /\ Idle
  /\ IF ok THEN DraftClearCall /\ ed' = "runRetiring" /\ doc' = Clean(doc)
     ELSE /\ ed' = "running" /\ doc' = GivenBack(Clean(doc))
          /\ UNCHANGED storeVars
  /\ UNCHANGED <<screen, quit, faults, typed, ran>>

(* begin_run(): the program is parsed, code_run_release() gives the buffer *)
(* back.                                                                   *)
BeginRun ==
  /\ ed = "runRetiring" /\ Idle
  /\ ed' = "running" /\ doc' = GivenBack(doc)
  /\ UNCHANGED <<storeVars, screen, quit, faults, typed, ran>>

(* end_run(): code_run_restore(), then the verdict: a chapter that was     *)
(* passed shows its page.                                                  *)
EndRun ==
  /\ ed = "running" /\ ed' = "ready"
  /\ \E live \in BOOLEAN :
       doc' = [doc EXCEPT !.live = live, !.changed = FALSE, !.stored = TRUE,
                 !.text = IF live /\ Bytes(Load(doc.slot)) THEN Load(doc.slot)
                          ELSE Empty]
  /\ screen' \in {screen} \cup IF screen = "writing" THEN {"reading"} ELSE {}
  /\ ran' = None
  /\ UNCHANGED <<storeVars, quit, faults, typed>>

-----------------------------------------------------------------------------
(* The chapter's reset.                                                    *)

(* tutorial_key(), Del on the page                                         *)
Reset(s) ==
  /\ Ready /\ screen = "reading"
  /\ ClearCall(s)
  /\ ed' = "resetting"
  /\ UNCHANGED <<screen, quit, doc, faults, typed, ran>>

ResetDone ==
  /\ ed = "resetting" /\ Idle
  /\ ed' = "ready"
  /\ UNCHANGED <<storeVars, screen, quit, doc, faults, typed, ran>>

-----------------------------------------------------------------------------
(* The store underneath, and its failures.                                 *)

Store == FlashDoes /\ UNCHANGED editVars

StoreFails ==
  /\ FlashFails
  /\ faults' = "now"
  /\ UNCHANGED <<screen, ed, quit, doc, typed, ran>>

PowerLost ==
  /\ PowerCut
  /\ screen' = "home" /\ ed' = "ready" /\ quit' = FALSE /\ doc' = NoDoc
  /\ faults' = IF faults = "now" THEN "past" ELSE faults
  /\ ran' = None
  /\ UNCHANGED typed

Init ==
  /\ StoreInit
  /\ screen = "home" /\ ed = "ready" /\ quit = FALSE /\ doc = NoDoc
  /\ faults = "none"
  /\ typed = None /\ ran = None

Next ==
  \/ CodeOpen \/ TutorialOpen \/ OpenEditor
  \/ \E t \in Texts : Type(t)
  \/ New \/ Saved \/ Retired \/ Quit \/ GoHome \/ Closed
  \/ \E q \in BOOLEAN : Save(q)
  \/ Run \/ RunSaved \/ BeginRun \/ EndRun
  \/ \E s \in Chapters : Reset(s)
  \/ ResetDone
  \/ Store \/ StoreFails \/ PowerLost

Spec == Init /\ [][Next]_vars

(* Every variable holds a value of its kind, the sequence numbers of flash *)
(* and of the operations to come included.                                 *)
TypeOK ==
  /\ StoreTypeOK
  /\ screen \in {"home", "code", "reading", "writing"}
  /\ ed \in Steps /\ quit \in BOOLEAN
  /\ doc \in Doc
  /\ faults \in {"none", "now", "past"}
  /\ typed \in Texts \cup {None} /\ ran \in Written \cup {None}

-----------------------------------------------------------------------------
(* srcstore.h and codeedit.c: a lesson can never reach the person's own    *)
(* program, and a draft of one slot is never handed to another.  What a    *)
(* slot holds, what is parked for it and what its editor shows was written *)
(* in that slot, whatever was parked, opened, run or cut off in between.   *)
OwnTextsOnly ==
  /\ \A s \in Slots : {Load(s), DraftLoad(s)} \subseteq
                        Mine(s) \cup {Empty, None}
  /\ doc.text \in Mine(doc.slot) \cup {Empty}

(* codeedit.c, on code_run_restore(): the document comes back as it was.   *)
(* After a run the editor has the text the run was started with, unless a  *)
(* flash operation failed since it was opened or there is no memory for it.*)
RunComesBack ==
  [][EndRun /\ doc'.live /\ faults # "now" /\ ran # None
       => doc'.text = ran]_vars

(* codeedit.c, on code_close(): what is parked is not older than the       *)
(* record.  While flash has worked and power stayed, the Playground's      *)
(* draft, when there is one to restore, is what the person last had there. *)
DraftIsLatest ==
  /\ cuts = 0 /\ faults = "none" /\ Ready /\ screen = "home"
  /\ Bytes(DraftLoad(User))
  => DraftLoad(User) = typed

(* srcstore.c, on draft_load(): the draft stays parked for the slot that   *)
(* owns it.  It goes only while its own slot is in the editor, while that  *)
(* slot is being reset, or when another draft is parked in its place.      *)
DraftStaysParked ==
  [][\A s \in Slots :
       Bytes(DraftLoad(s)) /\ ~Bytes(DraftLoad(s)')
       => \/ doc.slot = s
          \/ \E i \in DOMAIN todo : todo[i].at = s
          \/ LoadFace(flash[Draft])' # NoFace]_vars
=============================================================================
