---------------------------- MODULE SourceStore ----------------------------
(***************************************************************************)
(* src/main/text/srcstore.c: JavaScript sources in the storage partition.  *)
(* A slot is two faces; a save erases the older face, writes the text and  *)
(* then the header, whose sequence number makes that face the newest.  The *)
(* editor's unsaved document is one more record of the same shape that     *)
(* carries the slot it belongs to.  The caller is one task, so a call is a *)
(* list of flash operations that runs to its end, fails, or is cut off by  *)
(* a loss of power between two operations or inside one.                   *)
(***************************************************************************)
EXTENDS Integers, Sequences

CONSTANTS
  Slots,    \* the slots of the partition
  Texts,    \* what can be written, Empty aside
  SeqMod,   \* sequence numbers are modulo this (2^32 in the code)
  MaxCalls, \* how many calls change the store
  MaxCuts,  \* how often power is lost
  MaxFails, \* how often flash refuses an operation
  Torn      \* can a loss of power leave an operation half done?

CONSTANTS Draft, Empty, None, Garbled, NoSeq, NoSlot

ASSUME StoreAssumption ==
  /\ SeqMod \in Nat /\ SeqMod >= 4 /\ SeqMod % 2 = 0
  /\ {MaxCalls, MaxCuts, MaxFails} \subseteq Nat /\ Torn \in BOOLEAN
  /\ Draft \notin Slots /\ NoSlot \notin Slots
  /\ {Empty, None, Garbled} \cap Texts = {}
  /\ Empty # None /\ Garbled \notin {Empty, None}
  /\ NoSeq \notin 0 .. SeqMod - 1

VARIABLES
  flash,  \* the partition: the two faces of every record
  todo,   \* the flash operations the current call has still to do
  ok,     \* what the last call returned
  calls,  \* calls made so far
  cuts,   \* losses of power so far
  fails,  \* refused operations so far
  kept    \* history: the text whose save was the last to reach flash, until
          \* a call begins to forget it

storeVars == <<flash, todo, ok, calls, cuts, fails, kept>>

Records == Slots \cup {Draft}
Faces == {0, 1}
Seqs == 0 .. SeqMod - 1
Written == Texts \cup {Empty}

(* A face whose magic is absent or whose length is absurd has no sequence  *)
(* number; a text the CRC in the header does not match is Garbled.         *)
Face == [seq : Seqs \cup {NoSeq}, text : Written \cup {None, Garbled},
         slot : Slots \cup {NoSlot}]

Operation == [op : {"erase", "body", "header"}, at : Records, face : Faces,
              new : Face]

Blank == [seq |-> NoSeq, text |-> None, slot |-> NoSlot]

-----------------------------------------------------------------------------
(* Reading.                                                                *)

Present(f) == f.seq # NoSeq
Verifies(f) == Present(f) /\ f.text \in Written

(* Mutant: the numbers are compared as they stand.                         *)
NewerPlain(a, b) == a > b

(* (int32_t)(a - b) > 0                                                    *)
Newer(a, b) == (a - b) % SeqMod \in 1 .. (SeqMod \div 2) - 1

(* newest(), draft_newest(): headers only, face 0 first.                   *)
NoFace == 2
Newest(fs) ==
  IF Present(fs[1]) /\ (Present(fs[0]) => Newer(fs[1].seq, fs[0].seq))
  THEN 1 ELSE IF Present(fs[0]) THEN 0 ELSE NoFace

NewestSeq(fs) == IF Newest(fs) = NoFace THEN 0 ELSE fs[Newest(fs)].seq

Other(i) == 1 - i

(* The face a load takes: the newest, or the other one if that fails its   *)
(* CRC.                                                                    *)
LoadFace(fs) ==
  LET first == Newest(fs) IN
  IF first = NoFace THEN NoFace
  ELSE IF Verifies(fs[first]) THEN first
  ELSE IF Verifies(fs[Other(first)]) THEN Other(first)
  ELSE NoFace

(* srcstore_load_checked(): None when nothing was verified.                *)
Load(s) ==
  LET i == LoadFace(flash[s]) IN IF i = NoFace THEN None ELSE flash[s][i].text

(* srcstore_revision()                                                     *)
Revision(s) == NewestSeq(flash[s])

(* Mutant: the draft is handed to whoever asks.                            *)
DraftLoadAny(s) ==
  LET i == LoadFace(flash[Draft]) IN
  IF i # NoFace THEN flash[Draft][i].text ELSE None

(* srcstore_draft_load(): the draft of another slot is not handed out.     *)
DraftLoad(s) ==
  LET i == LoadFace(flash[Draft]) IN
  IF i # NoFace /\ flash[Draft][i].slot = s THEN flash[Draft][i].text
                                            ELSE None

(* draft_owner_of(): from the newest header, unread.                       *)
DraftOwner ==
  LET i == Newest(flash[Draft]) IN
  IF i = NoFace THEN NoSlot ELSE flash[Draft][i].slot

-----------------------------------------------------------------------------
(* The flash operations of each call.                                      *)

(* Mutant: the sequence number does not wrap.                              *)
SaveOpsUnwrapped(r, s, t) ==
  LET fs == flash[r]
      i  == IF Newest(fs) = NoFace THEN 0 ELSE Other(Newest(fs))
      f  == [seq |-> NewestSeq(fs) + 1, text |-> t, slot |-> s]
      do(op) == [op |-> op, at |-> r, face |-> i, new |-> f]
  IN <<do("erase"), do("body"), do("header")>>

(* Mutant: the face is not erased first.                                   *)
SaveOpsUnerased(r, s, t) ==
  LET fs == flash[r]
      i  == IF Newest(fs) = NoFace THEN 0 ELSE Other(Newest(fs))
      f  == [seq |-> (NewestSeq(fs) + 1) % SeqMod, text |-> t, slot |-> s]
      do(op) == [op |-> op, at |-> r, face |-> i, new |-> f]
  IN <<do("body"), do("header")>>

(* srcstore_save(), srcstore_draft_save(): erase, text, header last.       *)
SaveOps(r, s, t) ==
  LET fs == flash[r]
      i  == IF Newest(fs) = NoFace THEN 0 ELSE Other(Newest(fs))
      f  == [seq |-> (NewestSeq(fs) + 1) % SeqMod, text |-> t, slot |-> s]
      do(op) == [op |-> op, at |-> r, face |-> i, new |-> f]
  IN <<do("erase"), do("body"), do("header")>>

EraseOps(r) ==
  LET erase(i) == [op |-> "erase", at |-> r, face |-> i, new |-> Blank]
  IN <<erase(0), erase(1)>>

(* srcstore_clear(): the slot's parked draft goes first.                   *)
ClearOps(s) ==
  (IF DraftOwner = s THEN EraseOps(Draft) ELSE <<>>) \o EraseOps(s)

-----------------------------------------------------------------------------
(* The calls, one at a time.                                               *)

Idle == todo = <<>>

Called(ops, forgotten) ==
  /\ Idle /\ calls < MaxCalls
  /\ todo' = ops
  /\ calls' = calls + 1
  /\ kept' = [r \in Records |-> IF r \in forgotten THEN None ELSE kept[r]]
  /\ ok' = TRUE
  /\ UNCHANGED <<flash, cuts, fails>>

SaveCall(s, t) == Called(SaveOps(s, NoSlot, t), {})
DraftSaveCall(s, t) == Called(SaveOps(Draft, s, t), {})
DraftClearCall == Called(EraseOps(Draft), {Draft})
ClearCall(s) ==
  Called(ClearOps(s), {s} \cup IF DraftOwner = s THEN {Draft} ELSE {})

(* What an operation does to its face.                                     *)
Done(o, f) ==
  CASE o.op = "erase"  -> Blank
    [] o.op = "body"   -> [f EXCEPT !.text = o.new.text]
    [] o.op = "header" -> [f EXCEPT !.seq = o.new.seq, !.slot = o.new.slot]

(* What power lost inside it leaves: an erase can spare the header and     *)
(* spoil the text; text is spoilt with no header over it; a header can be  *)
(* recognisable and have a CRC that does not match.                        *)
HalfDone(o, f) ==
  CASE o.op = "erase"  -> {[f EXCEPT !.text = Garbled]}
    [] o.op = "body"   -> {[f EXCEPT !.text = Garbled]}
    [] o.op = "header" -> {[Done(o, f) EXCEPT !.text = Garbled]}

FlashDoes ==
  /\ todo # <<>>
  /\ LET o == Head(todo) IN
     /\ flash' = [flash EXCEPT ![o.at][o.face] = Done(o, @)]
     /\ kept' = IF o.op = "header"
                THEN [kept EXCEPT ![o.at] = o.new.text] ELSE kept
  /\ todo' = Tail(todo)
  /\ UNCHANGED <<ok, calls, cuts, fails>>

(* esp_partition_erase_range() or esp_partition_write() fails: the call    *)
(* returns false, but srcstore_clear() does not look at what became of the *)
(* draft: the two erases of the slot still follow.                         *)
FlashFails ==
  /\ todo # <<>> /\ fails < MaxFails
  /\ fails' = fails + 1
  /\ LET last == Len(todo)
         rest == IF todo[last].at = Head(todo).at THEN <<>>
                 ELSE SubSeq(todo, last - 1, last) IN
     /\ todo' = rest
     /\ ok' = IF rest = <<>> THEN FALSE ELSE ok
  /\ UNCHANGED <<flash, calls, cuts, kept>>

(* Power is lost.  The callers' part of it is theirs.                      *)
PowerCut ==
  /\ cuts < MaxCuts
  /\ cuts' = cuts + 1
  /\ \/ UNCHANGED flash
     \/ /\ Torn /\ todo # <<>>
        /\ LET o == Head(todo) IN
           \E f \in HalfDone(o, flash[o.at][o.face]) :
             flash' = [flash EXCEPT ![o.at][o.face] = f]
  /\ todo' = <<>>
  /\ ok' = TRUE
  /\ UNCHANGED <<calls, fails, kept>>

StoreInit ==
  /\ flash = [r \in Records |-> [i \in Faces |-> Blank]]
  /\ todo = <<>> /\ ok = TRUE /\ calls = 0 /\ cuts = 0
  /\ fails = 0
  /\ kept = [r \in Records |-> None]

StoreTypeOK ==
  /\ flash \in [Records -> [Faces -> Face]]
  /\ todo \in Seq(Operation)
  /\ ok \in BOOLEAN
  /\ calls \in 0 .. MaxCalls
  /\ cuts \in 0 .. MaxCuts /\ fails \in 0 .. MaxFails
  /\ kept \in [Records -> Written \cup {None}]

-----------------------------------------------------------------------------
(* srcstore.c, on its two faces: losing power mid-write costs the last     *)
(* save rather than the whole source.  Until somebody forgets it, the text *)
(* of the last save that reached flash is what a load returns, whatever is *)
(* being written, failed or was cut off since.                             *)
KeptIsLoaded ==
  /\ \A s \in Slots : kept[s] # None => Load(s) = kept[s]
  /\ kept[Draft] # None
     => /\ LoadFace(flash[Draft]) # NoFace
        /\ flash[Draft][LoadFace(flash[Draft])].text = kept[Draft]

(* The two faces as a history of versions.                                 *)
VersionsOf(fs) ==
  LET i == LoadFace(fs) IN
  IF i = NoFace THEN <<>>
  ELSE IF Verifies(fs[Other(i)]) THEN <<fs[i].text, fs[Other(i)].text>>
  ELSE <<fs[i].text>>

History ==
  INSTANCE SourceHistory WITH
    Versions <- Written,
    history <- [r \in Records |-> VersionsOf(flash[r])],
    forgetting <- {r \in Records : kept[r] = None}

(* Every step of the store is a step of the history.                       *)
HistorySpec == History!Spec
=============================================================================
