--------------------------- MODULE CodeEdit_proofs ---------------------------
(***************************************************************************)
(* Theorems about the records of the source store and the editor on them,  *)
(* for every set of slots and texts, every wrap of the sequence numbers    *)
(* and any number of calls, refusals of flash and losses of power.         *)
(***************************************************************************)
EXTENDS CodeEdit, SequenceTheorems, TLAPS

-----------------------------------------------------------------------------
(* Sequence numbers.                                                       *)
Succ(a) == (a + 1) % SeqMod

LEMMA ModFacts ==
  ASSUME NEW m \in Nat, m >= 4
  PROVE  /\ 1 % m = 1 /\ m % m = 0
         /\ (-1) % m = m - 1 /\ (m - 1) % m = m - 1 /\ (1 - m) % m = 1
         /\ \A a \in 0 .. m - 1 : a % m = a
OBVIOUS

LEMMA SuccFacts ==
  ASSUME NEW a \in Seqs
  PROVE  /\ Succ(a) \in Seqs
         /\ Newer(Succ(a), a) /\ ~Newer(a, Succ(a))
         /\ Succ(a) # a
<1>1. SeqMod \in Nat /\ SeqMod >= 4 /\ a \in 0 .. SeqMod - 1
  BY StoreAssumption DEF Seqs
<1>2. /\ 1 % SeqMod = 1 /\ (-1) % SeqMod = SeqMod - 1 /\ SeqMod % SeqMod = 0
      /\ (SeqMod - 1) % SeqMod = SeqMod - 1 /\ (1 - SeqMod) % SeqMod = 1
      /\ \A b \in 0 .. SeqMod - 1 : b % SeqMod = b
  BY <1>1, ModFacts
<1>3. CASE a = SeqMod - 1
  <2>1. Succ(a) = 0
    BY <1>1, <1>2, <1>3 DEF Succ
  <2>2. (Succ(a) - a) % SeqMod = 1 /\ (a - Succ(a)) % SeqMod = SeqMod - 1
    <3>1. Succ(a) - a = 1 - SeqMod /\ a - Succ(a) = SeqMod - 1
      BY <1>1, <1>3, <2>1
    <3> QED
      BY <1>2, <3>1
  <2> QED
    BY <1>1, <2>1, <2>2, <1>3 DEF Newer, Seqs
<1>4. CASE a # SeqMod - 1
  <2>1. Succ(a) = a + 1
    <3>1. a + 1 \in 0 .. SeqMod - 1
      BY <1>1, <1>4
    <3> QED
      BY <1>2, <3>1 DEF Succ
  <2>2. (Succ(a) - a) % SeqMod = 1 /\ (a - Succ(a)) % SeqMod = SeqMod - 1
    <3>1. Succ(a) - a = 1 /\ a - Succ(a) = -1
      BY <1>1, <2>1
    <3> QED
      BY <1>2, <3>1
  <2> QED
    BY <1>1, <2>1, <2>2, <1>4 DEF Newer, Seqs
<1> QED
  BY <1>3, <1>4

-----------------------------------------------------------------------------
(* A record's two faces.  They are consecutive: a save writes the face     *)
(* that is not the newest, with the number after the newest's.             *)
Consecutive(fs) ==
  Present(fs[0]) /\ Present(fs[1]) =>
    fs[1].seq = Succ(fs[0].seq) \/ fs[0].seq = Succ(fs[1].seq)

(* Face i is what comes after the other one.                               *)
Leads(fs, i) ==
  Present(fs[i]) /\ (Present(fs[Other(i)])
                       => fs[i].seq = Succ(fs[Other(i)].seq))

LEMMA OtherFacts == \A i \in Faces : Other(i) \in Faces /\ Other(Other(i)) = i
                                     /\ Other(i) # i
BY DEF Faces, Other

LEMMA NewestFacts ==
  ASSUME NEW fs \in [Faces -> Face], Consecutive(fs)
  PROVE  /\ Newest(fs) \in Faces \cup {NoFace} /\ NoFace \notin Faces
         /\ Newest(fs) = NoFace <=> \A i \in Faces : ~Present(fs[i])
         /\ \A i \in Faces : Newest(fs) = i <=> Leads(fs, i)
<1>1. /\ fs[0].seq \in Seqs \cup {NoSeq} /\ fs[1].seq \in Seqs \cup {NoSeq}
  BY DEF Faces, Face
<1>2. \A i \in {0, 1} : Present(fs[i]) => fs[i].seq \in Seqs
  BY <1>1 DEF Present
<1>3. /\ Other(0) = 1 /\ Other(1) = 0 /\ Faces = {0, 1} /\ NoFace = 2
  BY DEF Other, Faces, NoFace
<1>4. CASE ~Present(fs[0]) /\ ~Present(fs[1])
  BY <1>3, <1>4 DEF Newest, Leads
<1>5. CASE Present(fs[0]) /\ ~Present(fs[1])
  BY <1>3, <1>5 DEF Newest, Leads
<1>6. CASE ~Present(fs[0]) /\ Present(fs[1])
  BY <1>3, <1>6 DEF Newest, Leads
<1>7. CASE Present(fs[0]) /\ Present(fs[1]) /\ fs[1].seq = Succ(fs[0].seq)
  <2>1. Newer(fs[1].seq, fs[0].seq) /\ ~Newer(fs[0].seq, fs[1].seq)
    BY <1>2, <1>7, SuccFacts
  <2>2. fs[0].seq # Succ(fs[1].seq)
    BY <1>2, <1>7, <2>1, SuccFacts
  <2> QED
    BY <1>3, <1>7, <2>1, <2>2 DEF Newest, Leads
<1>8. CASE Present(fs[0]) /\ Present(fs[1]) /\ fs[0].seq = Succ(fs[1].seq)
  <2>1. Newer(fs[0].seq, fs[1].seq) /\ ~Newer(fs[1].seq, fs[0].seq)
    BY <1>2, <1>8, SuccFacts
  <2>2. fs[1].seq # Succ(fs[0].seq)
    BY <1>2, <1>8, <2>1, SuccFacts
  <2> QED
    BY <1>3, <1>8, <2>1, <2>2 DEF Newest, Leads
<1> QED
  BY <1>4, <1>5, <1>6, <1>7, <1>8 DEF Consecutive

-----------------------------------------------------------------------------
(* The call in progress: erases of records that are being forgotten, or    *)
(* the rest of a save of one face.                                         *)
Op(op, r, i, f) == [op |-> op, at |-> r, face |-> i, new |-> f]

NewFaces == {f \in Face : f.seq \in Seqs /\ f.text \in Written}

Erasures == {o \in Operation : o.op = "erase" /\ kept[o.at] = None}

(* A face may be erased when it is not the newest of its record.           *)
Spare(fs, i) == Present(fs[i]) => Leads(fs, Other(i))

SaveOf(r, i, f) ==
  /\ Present(flash[r][Other(i)]) => f.seq = Succ(flash[r][Other(i)].seq)
  /\ \/ /\ todo = <<Op("erase", r, i, f), Op("body", r, i, f),
                    Op("header", r, i, f)>>
        /\ Spare(flash[r], i)
     \/ /\ todo = <<Op("body", r, i, f), Op("header", r, i, f)>>
        /\ ~Present(flash[r][i])
     \/ /\ todo = <<Op("header", r, i, f)>>
        /\ ~Present(flash[r][i]) /\ flash[r][i].text = f.text

TodoOK ==
  \/ todo \in Seq(Erasures)
  \/ \E r \in Records, i \in Faces, f \in NewFaces : SaveOf(r, i, f)

StoreInv ==
  /\ StoreTypeOK
  /\ \A r \in Records : Consecutive(flash[r])
  /\ TodoOK

LEMMA FaceFacts ==
  /\ Blank \in Face /\ ~Present(Blank) /\ NoSeq \notin Seqs
  /\ \A f \in NewFaces : f \in Face /\ Present(f)
  /\ None \notin Written /\ Garbled \notin Written
BY StoreAssumption DEF Blank, Face, Present, NewFaces, Written, Seqs

LEMMA OpFacts ==
  ASSUME NEW r \in Records, NEW i \in Faces, NEW f \in Face,
         NEW op \in {"erase", "body", "header"}
  PROVE  /\ Op(op, r, i, f) \in Operation
         /\ Op(op, r, i, f).op = op /\ Op(op, r, i, f).at = r
         /\ Op(op, r, i, f).face = i /\ Op(op, r, i, f).new = f
BY DEF Op, Operation

LEMMA StoreInvInit == StoreInit => StoreInv
<1> SUFFICES ASSUME StoreInit PROVE StoreInv
  OBVIOUS
<1>1. /\ 0 \in 0 .. MaxCalls /\ 0 \in 0 .. MaxCuts /\ 0 \in 0 .. MaxFails
  BY StoreAssumption
<1>2. <<>> \in Seq(Operation) /\ <<>> \in Seq(Erasures)
  BY EmptySeq
<1>3. StoreTypeOK
  BY <1>1, <1>2, FaceFacts DEF StoreInit, StoreTypeOK
<1>4. \A r \in Records : Consecutive(flash[r])
  BY FaceFacts DEF StoreInit, Consecutive, Faces
<1> QED
  BY <1>2, <1>3, <1>4 DEF StoreInv, TodoOK, StoreInit

(* Flash as long as no operation reaches it.                               *)
LEMMA FlashUntouched ==
  ASSUME StoreInv, UNCHANGED flash
  PROVE  \A r \in Records : Consecutive(flash'[r])
BY DEF StoreInv

LEMMA KeptTyped ==
  ASSUME StoreInv, NEW forgotten,
         kept' = [r \in Records |-> IF r \in forgotten THEN None ELSE kept[r]]
  PROVE  kept' \in [Records -> Written \cup {None}]
BY DEF StoreInv, StoreTypeOK

(* The operations of a save write a spare face of its record and carry its *)
(* text, its owner and the number after the newest's.                      *)
LEMMA SaveOpsAre ==
  ASSUME StoreInv, NEW r \in Records, NEW s \in Slots \cup {NoSlot},
         NEW t \in Written
  PROVE  \E i \in Faces, f \in NewFaces :
           /\ f.text = t /\ f.slot = s
           /\ SaveOps(r, s, t) = <<Op("erase", r, i, f), Op("body", r, i, f),
                                   Op("header", r, i, f)>>
           /\ Present(flash[r][Other(i)])
                => f.seq = Succ(flash[r][Other(i)].seq)
           /\ Spare(flash[r], i)
<1> DEFINE fs == flash[r]
           at == IF Newest(fs) = NoFace THEN 0 ELSE Other(Newest(fs))
           new == [seq |-> Succ(NewestSeq(fs)), text |-> t, slot |-> s]
<1>1. fs \in [Faces -> Face] /\ Consecutive(fs)
  BY DEF StoreInv, StoreTypeOK
<1>2. at \in Faces
  BY <1>1, NewestFacts, OtherFacts DEF Faces
<1>3. NewestSeq(fs) \in Seqs
  <2>1. 0 \in Seqs
    BY StoreAssumption DEF Seqs
  <2>2. Newest(fs) # NoFace => Present(fs[Newest(fs)]) /\ Newest(fs) \in Faces
    BY <1>1, NewestFacts DEF Leads
  <2>3. Newest(fs) # NoFace => fs[Newest(fs)].seq \in Seqs
    BY <1>1, <2>2 DEF Present, Face
  <2> QED
    BY <2>1, <2>3 DEF NewestSeq
<1>4. Succ(NewestSeq(fs)) \in Seqs
  BY <1>3, SuccFacts
<1>5. new \in NewFaces /\ new.text = t /\ new.slot = s
  BY <1>4 DEF NewFaces, Face
<1>6. SaveOps(r, s, t) = <<Op("erase", r, at, new), Op("body", r, at, new),
                           Op("header", r, at, new)>>
  BY DEF SaveOps, Op, Succ
<1>7. /\ Present(fs[Other(at)]) => new.seq = Succ(fs[Other(at)].seq)
      /\ Spare(fs, at)
  <2>1. CASE Newest(fs) = NoFace
    BY <1>1, <1>2, <2>1, NewestFacts, OtherFacts DEF Spare
  <2>2. CASE Newest(fs) # NoFace
    <3>1. /\ Newest(fs) \in Faces /\ Leads(fs, Newest(fs))
          /\ Other(at) = Newest(fs)
      BY <1>1, <2>2, NewestFacts, OtherFacts
    <3> QED
      BY <2>2, <3>1 DEF NewestSeq, Spare
  <2> QED
    BY <2>1, <2>2
<1> HIDE DEF at, new
<1> QED
  BY <1>2, <1>5, <1>6, <1>7

(* A save begins.                                                          *)
LEMMA SaveBegins ==
  ASSUME StoreInv, NEW r \in Records, NEW s \in Slots \cup {NoSlot},
         NEW t \in Written, Called(SaveOps(r, s, t), {})
  PROVE  /\ StoreInv'
         /\ \E i \in Faces, f \in NewFaces :
              f.text = t /\ f.slot = s /\ SaveOf(r, i, f)'
<1>1. PICK i \in Faces, f \in NewFaces :
        /\ f.text = t /\ f.slot = s
        /\ SaveOps(r, s, t) = <<Op("erase", r, i, f), Op("body", r, i, f),
                                Op("header", r, i, f)>>
        /\ Present(flash[r][Other(i)])
             => f.seq = Succ(flash[r][Other(i)].seq)
        /\ Spare(flash[r], i)
  BY SaveOpsAre
<1>2. /\ UNCHANGED <<flash, cuts, fails>> /\ ok' = TRUE
      /\ calls' = calls + 1 /\ calls < MaxCalls
      /\ todo' = SaveOps(r, s, t)
      /\ kept' = [q \in Records |-> IF q \in {} THEN None ELSE kept[q]]
  BY DEF Called
<1>3. SaveOf(r, i, f)'
  BY <1>1, <1>2 DEF SaveOf
<1>4. todo' \in Seq(Operation)
  BY <1>1, <1>2, OpFacts, FaceFacts
<1>5. StoreTypeOK'
  BY <1>2, <1>4, KeptTyped, StoreAssumption DEF StoreInv, StoreTypeOK
<1> QED
  BY <1>1, <1>2, <1>3, <1>5, FlashUntouched DEF StoreInv, TodoOK

(* An erase of a record that is being forgotten begins.                    *)
LEMMA EraseTypedNext ==
  ASSUME NEW r \in Records, kept'[r] = None
  PROVE  EraseOps(r) \in Seq(Erasures')
<1>1. \A i \in Faces : Op("erase", r, i, Blank) \in Erasures'
  BY OpFacts, FaceFacts DEF Erasures
<1>2. EraseOps(r) = <<Op("erase", r, 0, Blank), Op("erase", r, 1, Blank)>>
  BY DEF EraseOps, Op
<1> QED
  BY <1>1, <1>2 DEF Faces

LEMMA EraseBegins ==
  ASSUME StoreInv, NEW ops, NEW forgotten, Called(ops, forgotten),
         ops \in Seq(Erasures')
  PROVE  StoreInv'
<1>1. /\ UNCHANGED <<flash, cuts, fails>> /\ ok' = TRUE
      /\ calls' = calls + 1 /\ calls < MaxCalls /\ todo' = ops
      /\ kept' = [q \in Records |-> IF q \in forgotten THEN None ELSE kept[q]]
  BY DEF Called
<1>2. Erasures' \subseteq Operation
  BY DEF Erasures
<1>3. todo' \in Seq(Operation)
  BY <1>1, <1>2, SeqMonotonic
<1>4. StoreTypeOK'
  BY <1>1, <1>3, KeptTyped, StoreAssumption DEF StoreInv, StoreTypeOK
<1>5. TodoOK'
  BY <1>1 DEF TodoOK
<1> QED
  BY <1>1, <1>4, <1>5, FlashUntouched DEF StoreInv

LEMMA ClearBegins ==
  ASSUME StoreInv, NEW s \in Slots, ClearCall(s)
  PROVE  StoreInv'
<1> DEFINE forgotten == {s} \cup IF DraftOwner = s THEN {Draft} ELSE {}
<1>1. kept' = [q \in Records |-> IF q \in forgotten THEN None ELSE kept[q]]
  BY DEF ClearCall, Called
<1>2. s \in Records /\ Draft \in Records
  BY DEF Records
<1>3. kept'[s] = None /\ (DraftOwner = s => kept'[Draft] = None)
  BY <1>1, <1>2
<1>4. EraseOps(s) \in Seq(Erasures')
  BY <1>2, <1>3, EraseTypedNext
<1>5. DraftOwner = s => EraseOps(Draft) \in Seq(Erasures')
  BY <1>2, <1>3, EraseTypedNext
<1>6. ClearOps(s) \in Seq(Erasures')
  <2>1. CASE DraftOwner = s
    BY <1>4, <1>5, <2>1, ConcatProperties DEF ClearOps
  <2>2. CASE DraftOwner # s
    BY <1>4, <2>2, EmptySeq, ConcatEmptySeq DEF ClearOps
  <2> QED
    BY <2>1, <2>2
<1> QED
  BY <1>6, EraseBegins DEF ClearCall

LEMMA DraftClearBegins ==
  ASSUME StoreInv, DraftClearCall
  PROVE  StoreInv'
<1>1. Draft \in Records
  BY DEF Records
<1>2. kept'[Draft] = None
  BY <1>1 DEF DraftClearCall, Called
<1>3. EraseOps(Draft) \in Seq(Erasures')
  BY <1>1, <1>2, EraseTypedNext
<1> QED
  BY <1>3, EraseBegins DEF DraftClearCall

-----------------------------------------------------------------------------
(* Flash carries an operation out, refuses it, or loses power.             *)
LEMMA FaceWritten ==
  ASSUME StoreInv, NEW r \in Records, NEW i \in Faces, NEW g \in Face,
         flash' = [flash EXCEPT ![r][i] = g]
  PROVE  /\ flash' \in [Records -> [Faces -> Face]]
         /\ flash'[r][i] = g /\ flash'[r][Other(i)] = flash[r][Other(i)]
         /\ \A q \in Records \ {r} : flash'[q] = flash[q]
BY OtherFacts DEF StoreInv, StoreTypeOK

(* The faces stay consecutive when one is erased, written under no header  *)
(* or given the number after the other's.                                  *)
LEMMA StaysConsecutive ==
  ASSUME StoreInv, NEW r \in Records, NEW i \in Faces, NEW g \in Face,
         flash' = [flash EXCEPT ![r][i] = g],
         \/ ~Present(g)
         \/ g.seq = flash[r][i].seq
         \/ Present(flash[r][Other(i)]) => g.seq = Succ(flash[r][Other(i)].seq)
  PROVE  \A q \in Records : Consecutive(flash'[q])
<1> SUFFICES ASSUME NEW q \in Records PROVE Consecutive(flash'[q])
  OBVIOUS
<1>1. /\ Consecutive(flash[q]) /\ flash'[r][i] = g
      /\ flash'[r][Other(i)] = flash[r][Other(i)]
      /\ q # r => flash'[q] = flash[q]
  BY FaceWritten DEF StoreInv
<1>2. CASE q # r
  BY <1>1, <1>2
<1>3. CASE q = r /\ i = 0
  BY <1>1, <1>3 DEF Consecutive, Other, Present
<1>4. CASE q = r /\ i = 1
  BY <1>1, <1>4 DEF Consecutive, Other, Present
<1> QED
  BY <1>2, <1>3, <1>4 DEF Faces

LEMMA DoneFacts ==
  ASSUME NEW o \in Operation, NEW f \in Face
  PROVE  /\ Done(o, f) \in Face
         /\ o.op = "erase" => Done(o, f) = Blank
         /\ o.op = "body" => /\ Done(o, f).text = o.new.text
                             /\ Done(o, f).seq = f.seq
                             /\ Done(o, f).slot = f.slot
         /\ o.op = "header" => /\ Done(o, f).text = f.text
                               /\ Done(o, f).seq = o.new.seq
                               /\ Done(o, f).slot = o.new.slot
<1>1. o.new \in Face /\ o.op \in {"erase", "body", "header"}
  BY DEF Operation
<1>2. CASE o.op = "erase"
  BY <1>2, FaceFacts DEF Done
<1>3. CASE o.op = "body"
  BY <1>1, <1>3 DEF Done, Face
<1>4. CASE o.op = "header"
  BY <1>1, <1>4 DEF Done, Face
<1> QED
  BY <1>1, <1>2, <1>3, <1>4

LEMMA HalfDoneFacts ==
  ASSUME NEW o \in Operation, NEW f \in Face, NEW g \in HalfDone(o, f)
  PROVE  /\ g \in Face /\ g.text = Garbled
         /\ IF o.op = "header" THEN g.seq = o.new.seq ELSE g.seq = f.seq
<1>1. o.new \in Face /\ o.op \in {"erase", "body", "header"}
  BY DEF Operation
<1>2. Done(o, f) \in Face
  BY DoneFacts
<1>3. CASE o.op = "header"
  BY <1>2, <1>3, DoneFacts DEF HalfDone, Face
<1>4. CASE o.op # "header"
  BY <1>1, <1>4 DEF HalfDone, Face
<1> QED
  BY <1>3, <1>4

(* What the next operation is, and where.                                  *)
LEMMA HeadFacts ==
  ASSUME StoreInv, todo # <<>>
  PROVE  /\ Head(todo) \in Operation /\ Tail(todo) \in Seq(Operation)
         /\ Head(todo).at \in Records /\ Head(todo).face \in Faces
<1>1. todo \in Seq(Operation)
  BY DEF StoreInv, StoreTypeOK
<1>2. Head(todo) \in Operation /\ Tail(todo) \in Seq(Operation)
  BY <1>1, HeadTailProperties
<1> QED
  BY <1>2 DEF Operation

LEMMA ErasureDoes ==
  ASSUME StoreInv, FlashDoes, todo \in Seq(Erasures)
  PROVE  /\ StoreInv' /\ kept' = kept
         /\ \E r \in Records, i \in Faces :
              kept[r] = None /\ flash' = [flash EXCEPT ![r][i] = Blank]
<1> DEFINE o == Head(todo)
<1>1. todo # <<>> /\ UNCHANGED <<ok, calls, cuts, fails>> /\ todo' = Tail(todo)
  BY DEF FlashDoes
<1>2. o \in Erasures /\ Tail(todo) \in Seq(Erasures)
  BY <1>1, HeadTailProperties
<1>3. /\ o \in Operation /\ o.op = "erase" /\ kept[o.at] = None
      /\ o.at \in Records /\ o.face \in Faces
      /\ Tail(todo) \in Seq(Operation)
  BY <1>1, <1>2, HeadFacts DEF Erasures
<1>4. flash[o.at][o.face] \in Face
  BY <1>3 DEF StoreInv, StoreTypeOK
<1>5. Done(o, flash[o.at][o.face]) = Blank
  BY <1>3, <1>4, DoneFacts
<1>6. flash' = [flash EXCEPT ![o.at][o.face] = Blank]
  BY <1>3, <1>5 DEF FlashDoes, StoreInv, StoreTypeOK
<1>7. kept' = kept
  BY <1>3 DEF FlashDoes
<1>8. todo' \in Seq(Erasures')
  BY <1>1, <1>2, <1>7 DEF Erasures
<1>9. StoreTypeOK'
  BY <1>1, <1>3, <1>6, <1>7, FaceWritten, FaceFacts DEF StoreInv, StoreTypeOK
<1>10. \A q \in Records : Consecutive(flash'[q])
  BY <1>3, <1>6, StaysConsecutive, FaceFacts
<1> QED
  BY <1>3, <1>6, <1>7, <1>8, <1>9, <1>10 DEF StoreInv, TodoOK

LEMMA Tails ==
  ASSUME NEW a, NEW b, NEW c
  PROVE  /\ Tail(<<a, b, c>>) = <<b, c>> /\ Head(<<a, b, c>>) = a
         /\ Tail(<<b, c>>) = <<c>> /\ Head(<<b, c>>) = b
         /\ Tail(<<c>>) = <<>> /\ Head(<<c>>) = c
OBVIOUS

(* What carrying out an operation of a save does: the spare face goes, its *)
(* text comes under no header, or the header makes it the newest.          *)
SaveStep(r, i, f, g) ==
  /\ flash' = [flash EXCEPT ![r][i] = g]
  /\ \/ g = Blank /\ Spare(flash[r], i) /\ kept' = kept
     \/ ~Present(flash[r][i]) /\ ~Present(g) /\ kept' = kept
     \/ /\ g = f /\ ~Present(flash[r][i])
        /\ Present(flash[r][Other(i)]) => f.seq = Succ(flash[r][Other(i)].seq)
        /\ kept' = [kept EXCEPT ![r] = f.text]

LEMMA SaveDoes ==
  ASSUME StoreInv, FlashDoes,
         NEW r \in Records, NEW i \in Faces, NEW f \in NewFaces, SaveOf(r, i, f)
  PROVE  /\ StoreInv'
         /\ \E g \in Face : SaveStep(r, i, f, g)
         /\ todo' = <<>> \/ SaveOf(r, i, f)'
         /\ todo' = <<>> => flash'[r][i] = f
<1>1. /\ UNCHANGED <<ok, calls, cuts, fails>> /\ todo' = Tail(todo)
      /\ todo # <<>> /\ todo' \in Seq(Operation)
  BY HeadFacts DEF FlashDoes
<1>2. PICK o : o = Head(todo)
  OBVIOUS
<1>3. PICK g : g = Done(o, flash[r][i])
  OBVIOUS
<1>4. f \in Face /\ Present(f) /\ flash[r][i] \in Face
  BY FaceFacts DEF StoreInv, StoreTypeOK
<1>5. /\ o \in Operation /\ o.at = r /\ o.face = i /\ o.new = f
      /\ o.op \in {"erase", "body", "header"}
  BY <1>1, <1>2, <1>4, OpFacts DEF SaveOf
<1>13. \/ o.op = "erase" /\ Spare(flash[r], i)
          /\ todo' = <<Op("body", r, i, f), Op("header", r, i, f)>>
       \/ o.op = "body" /\ ~Present(flash[r][i])
          /\ todo' = <<Op("header", r, i, f)>>
       \/ o.op = "header" /\ ~Present(flash[r][i])
          /\ flash[r][i].text = f.text /\ todo' = <<>>
  <2>1. PICK a, b, c : /\ a = Op("erase", r, i, f) /\ b = Op("body", r, i, f)
                       /\ c = Op("header", r, i, f)
    OBVIOUS
  <2>2. a.op = "erase" /\ b.op = "body" /\ c.op = "header"
    BY <1>4, <2>1, OpFacts
  <2>3. CASE todo = <<a, b, c>> /\ Spare(flash[r], i)
    BY <1>1, <1>2, <2>1, <2>2, <2>3, Tails
  <2>4. CASE todo = <<b, c>> /\ ~Present(flash[r][i])
    BY <1>1, <1>2, <2>1, <2>2, <2>4, Tails
  <2>5. CASE todo = <<c>> /\ ~Present(flash[r][i])
             /\ flash[r][i].text = f.text
    BY <1>1, <1>2, <2>1, <2>2, <2>5, Tails
  <2> QED
    BY <2>1, <2>3, <2>4, <2>5 DEF SaveOf
<1>6. /\ g \in Face /\ flash' = [flash EXCEPT ![r][i] = g]
      /\ kept' = IF o.op = "header" THEN [kept EXCEPT ![r] = f.text] ELSE kept
  BY <1>2, <1>3, <1>4, <1>5, DoneFacts
     DEF FlashDoes, StoreInv, StoreTypeOK
<1>7. /\ flash' \in [Records -> [Faces -> Face]]
      /\ flash'[r][i] = g /\ flash'[r][Other(i)] = flash[r][Other(i)]
  BY <1>6, FaceWritten
<1>8. f.text \in Written
  BY DEF NewFaces
<1>9. StoreTypeOK'
  BY <1>1, <1>6, <1>7, <1>8 DEF StoreInv, StoreTypeOK
<1>10. CASE o.op = "erase"
  <2>1. g = Blank /\ kept' = kept
    BY <1>3, <1>4, <1>5, <1>6, <1>10, DoneFacts
  <2>2. /\ todo' = <<Op("body", r, i, f), Op("header", r, i, f)>>
        /\ Spare(flash[r], i)
        /\ Present(flash[r][Other(i)]) => f.seq = Succ(flash[r][Other(i)].seq)
    BY <1>10, <1>13 DEF SaveOf
  <2>3. SaveOf(r, i, f)'
    BY <1>7, <2>1, <2>2, FaceFacts DEF SaveOf
  <2>4. \A q \in Records : Consecutive(flash'[q])
    BY <1>6, <2>1, FaceFacts, StaysConsecutive
  <2>5. SaveStep(r, i, f, g)
    BY <1>6, <2>1, <2>2 DEF SaveStep
  <2> QED
    BY <1>6, <1>9, <2>2, <2>3, <2>4, <2>5 DEF StoreInv, TodoOK
<1>11. CASE o.op = "body"
  <2>1. g.text = f.text /\ g.seq = flash[r][i].seq /\ kept' = kept
    BY <1>3, <1>4, <1>5, <1>6, <1>11, DoneFacts
  <2>2. /\ todo' = <<Op("header", r, i, f)>>
        /\ ~Present(flash[r][i])
        /\ Present(flash[r][Other(i)]) => f.seq = Succ(flash[r][Other(i)].seq)
    BY <1>11, <1>13 DEF SaveOf
  <2>3. SaveOf(r, i, f)'
    BY <1>7, <2>1, <2>2 DEF SaveOf, Present
  <2>4. \A q \in Records : Consecutive(flash'[q])
    BY <1>6, <2>1, StaysConsecutive
  <2>5. SaveStep(r, i, f, g)
    BY <1>6, <2>1, <2>2 DEF SaveStep, Present
  <2> QED
    BY <1>6, <1>9, <2>2, <2>3, <2>4, <2>5 DEF StoreInv, TodoOK
<1>12. CASE o.op = "header"
  <2>1. /\ ~Present(flash[r][i]) /\ flash[r][i].text = f.text
        /\ Present(flash[r][Other(i)]) => f.seq = Succ(flash[r][Other(i)].seq)
        /\ todo' = <<>>
    BY <1>12, <1>13 DEF SaveOf
  <2>2. g.text = f.text /\ g.seq = f.seq /\ g.slot = f.slot
    BY <1>3, <1>4, <1>5, <1>12, <2>1, DoneFacts
  <2>3. g = f
    BY <1>4, <1>6, <2>2 DEF Face
  <2>4. \A q \in Records : Consecutive(flash'[q])
    BY <1>6, <2>1, <2>3, StaysConsecutive
  <2>5. SaveStep(r, i, f, g)
    BY <1>6, <1>12, <2>1, <2>3 DEF SaveStep
  <2>6. TodoOK'
    BY <2>1, EmptySeq DEF TodoOK
  <2> QED
    BY <1>6, <1>7, <1>9, <2>1, <2>3, <2>4, <2>5, <2>6 DEF StoreInv
<1> QED
  BY <1>5, <1>10, <1>11, <1>12

(* A refusal ends the call, or leaves the two erases of the slot.          *)
LEMMA RestFacts ==
  ASSUME FlashFails, StoreInv, NEW S, todo \in Seq(S)
  PROVE  todo' \in Seq(S)
<1> DEFINE last == Len(todo)
<1>1. todo # <<>> /\ last \in Nat /\ last >= 1
  BY EmptySeq, LenProperties DEF FlashFails
<1>2. CASE todo[last].at = Head(todo).at
  BY <1>2, EmptySeq DEF FlashFails
<1>3. CASE todo[last].at # Head(todo).at
  <2>1. Head(todo) = todo[1]
    BY <1>1, HeadTailProperties
  <2>2. last # 1
    BY <1>3, <2>1
  <2>3. todo' = SubSeq(todo, last - 1, last)
    BY <1>3 DEF FlashFails
  <2>4. SubSeq(todo, last - 1, last) \in Seq(S)
    <3>1. PICK n \in Nat : n = last
      BY <1>1
    <3>2. n >= 1 /\ n # 1
      BY <1>1, <2>2, <3>1
    <3>3. \A k \in n - 1 .. n : k \in 1 .. n
      BY <3>2
    <3>4. n - 1 \in 1 .. n + 1 /\ n \in n - 2 .. n
      BY <3>2
    <3> QED
      BY <3>1, <3>3, <3>4, SubSeqProperties
  <2> QED
    BY <2>3, <2>4
<1> QED
  BY <1>2, <1>3

LEMMA FailureEnds ==
  ASSUME FlashFails, StoreInv,
         NEW r \in Records, NEW i \in Faces, NEW f \in NewFaces, SaveOf(r, i, f)
  PROVE  todo' = <<>>
<1>1. f \in Face
  BY FaceFacts
<1>2. todo[Len(todo)].at = r /\ Head(todo).at = r
  BY <1>1, OpFacts DEF SaveOf
<1> QED
  BY <1>2 DEF FlashFails

LEMMA FailureKeeps ==
  ASSUME StoreInv, FlashFails
  PROVE  StoreInv'
<1>1. UNCHANGED <<flash, calls, cuts, kept>> /\ fails' \in 0 .. MaxFails
  BY StoreAssumption DEF FlashFails, StoreInv, StoreTypeOK
<1>2. ok' \in BOOLEAN
  BY DEF FlashFails, StoreInv, StoreTypeOK
<1>3. todo' \in Seq(Operation)
  BY RestFacts DEF StoreInv, StoreTypeOK
<1>4. TodoOK'
  <2>1. CASE todo \in Seq(Erasures)
    <3>1. todo' \in Seq(Erasures)
      BY <2>1, RestFacts
    <3> QED
      BY <1>1, <3>1 DEF TodoOK, Erasures
  <2>2. CASE \E r \in Records, i \in Faces, f \in NewFaces : SaveOf(r, i, f)
    <3>1. todo' = <<>>
      BY <2>2, FailureEnds
    <3> QED
      BY <3>1, EmptySeq DEF TodoOK
  <2> QED
    BY <2>1, <2>2 DEF StoreInv, TodoOK
<1> QED
  BY <1>1, <1>2, <1>3, <1>4, FlashUntouched DEF StoreInv, StoreTypeOK

(* Power lost: flash is as it was, or the face of the operation in hand    *)
(* has a text that does not verify.                                        *)
LEMMA CutKeeps ==
  ASSUME StoreInv, PowerCut
  PROVE  /\ StoreInv' /\ kept' = kept /\ todo' = <<>>
         /\ \/ flash' = flash
            \/ /\ Torn
               /\ \E r \in Records, i \in Faces, g \in Face :
                    g.text = Garbled /\ flash' = [flash EXCEPT ![r][i] = g]
<1>1. /\ UNCHANGED <<calls, fails, kept>> /\ ok' = TRUE /\ todo' = <<>>
      /\ cuts' \in 0 .. MaxCuts
  BY StoreAssumption DEF PowerCut, StoreInv, StoreTypeOK
<1>2. TodoOK' /\ todo' \in Seq(Operation)
  BY <1>1, EmptySeq DEF TodoOK
<1>3. CASE flash' = flash
  BY <1>1, <1>2, <1>3, FlashUntouched DEF StoreInv, StoreTypeOK
<1>4. CASE flash' # flash
  <2>1. /\ Torn /\ todo # <<>>
        /\ \E g \in HalfDone(Head(todo),
                             flash[Head(todo).at][Head(todo).face]) :
             flash' = [flash EXCEPT ![Head(todo).at][Head(todo).face] = g]
    BY <1>4 DEF PowerCut
  <2>9. PICK o : o = Head(todo)
    OBVIOUS
  <2>10. o \in Operation /\ o.at \in Records /\ o.face \in Faces
    BY <2>1, <2>9, HeadFacts
  <2>2. PICK r \in Records, i \in Faces :
          o = Head(todo) /\ o \in Operation /\ r = o.at /\ i = o.face
    BY <2>9, <2>10
  <2>3. PICK g \in HalfDone(o, flash[r][i]) :
          flash' = [flash EXCEPT ![r][i] = g]
    BY <2>1, <2>2
  <2>4. flash[r][i] \in Face
    BY DEF StoreInv, StoreTypeOK
  <2>5. /\ g \in Face /\ g.text = Garbled
        /\ o.op = "header" => g.seq = o.new.seq
        /\ o.op # "header" => g.seq = flash[r][i].seq
    BY <2>2, <2>3, <2>4, HalfDoneFacts
  <2>6. o.op = "header" =>
          (Present(flash[r][Other(i)])
             => g.seq = Succ(flash[r][Other(i)].seq))
    <3>1. CASE todo \in Seq(Erasures)
      <4>1. o \in Erasures
        BY <2>1, <2>2, <3>1, HeadTailProperties
      <4> QED
        BY <4>1 DEF Erasures
    <3>2. CASE \E q \in Records, j \in Faces, f \in NewFaces : SaveOf(q, j, f)
      <4>1. PICK q \in Records, j \in Faces, f \in NewFaces : SaveOf(q, j, f)
        BY <3>2
      <4>2. f \in Face
        BY FaceFacts
      <4>3. o.at = q /\ o.face = j /\ o.new = f
        BY <2>2, <4>1, <4>2, OpFacts DEF SaveOf
      <4> QED
        BY <2>2, <2>5, <4>1, <4>3 DEF SaveOf
    <3> QED
      BY <3>1, <3>2 DEF StoreInv, TodoOK
  <2>7. \A q \in Records : Consecutive(flash'[q])
    BY <2>3, <2>5, <2>6, StaysConsecutive
  <2>8. flash' \in [Records -> [Faces -> Face]]
    BY <2>3, <2>5, FaceWritten
  <2> QED
    BY <1>1, <1>2, <2>1, <2>3, <2>5, <2>7, <2>8 DEF StoreInv, StoreTypeOK
<1> QED
  BY <1>1, <1>3, <1>4

-----------------------------------------------------------------------------
(* What the editor does to the store: the only calls are a save or a       *)
(* parking of its own document, and the two ways of forgetting.            *)
StoreMove ==
  \/ UNCHANGED storeVars
  \/ SaveCall(doc.slot, doc.text)
  \/ DraftSaveCall(doc.slot, doc.text)
  \/ DraftClearCall
  \/ \E s \in Slots : ClearCall(s)
  \/ FlashDoes
  \/ FlashFails
  \/ PowerCut

LEMMA CleanFacts ==
  ASSUME doc \in Doc
  PROVE  /\ Clean(doc) \in Doc /\ GivenBack(doc) \in Doc
         /\ GivenBack(Clean(doc)) \in Doc
         /\ Clean(doc).slot = doc.slot /\ Clean(doc).text = doc.text
         /\ GivenBack(doc).slot = doc.slot /\ GivenBack(doc).text = Empty
         /\ GivenBack(Clean(doc)).slot = doc.slot
         /\ GivenBack(Clean(doc)).text = Empty
BY DEF Doc, Clean, GivenBack, Written

LEMMA LeavingMoves ==
  ASSUME NEW d, d.slot = doc.slot, d.text = doc.text
  PROVE  /\ Close(d) => StoreMove /\ ed' = "closing"
         /\ LeaveEditor(d) => /\ StoreMove
                              /\ ed' \in {"ready", "closing"}
                              /\ screen' \in {screen, "reading", "home"}
BY DEF Close, LeaveEditor, StoreMove

LEMMA NextMovesStore ==
  ASSUME TypeOK, [Next]_vars
  PROVE  StoreMove
<1>1. doc \in Doc
  BY DEF TypeOK
<1>2. CASE UNCHANGED vars
  BY <1>2 DEF vars, storeVars, StoreMove
<1>3. CASE CodeOpen \/ TutorialOpen \/ OpenEditor
  BY <1>3 DEF CodeOpen, TutorialOpen, OpenEditor, OpenSlot, StoreMove
<1>4. CASE (\E t \in Texts : Type(t)) \/ New \/ Closed \/ BeginRun \/ EndRun
           \/ ResetDone
  BY <1>4 DEF Type, New, Closed, BeginRun, EndRun, ResetDone, StoreMove
<1>5. CASE Saved
  BY <1>1, <1>5, CleanFacts, LeavingMoves DEF Saved, StoreMove
<1>6. CASE Retired
  BY <1>6, LeavingMoves DEF Retired, StoreMove
<1>7. CASE Quit
  BY <1>7, LeavingMoves DEF Quit
<1>8. CASE GoHome
  BY <1>8, LeavingMoves DEF GoHome, StoreMove
<1>9. CASE \E q \in BOOLEAN : Save(q)
  BY <1>9 DEF Save, StoreMove
<1>10. CASE Run
  BY <1>10 DEF Run, StoreMove
<1>11. CASE RunSaved
  BY <1>11 DEF RunSaved, StoreMove
<1>12. CASE \E s \in Chapters : Reset(s)
  BY <1>12 DEF Reset, Chapters, StoreMove
<1>13. CASE Store \/ StoreFails \/ PowerLost
  BY <1>13 DEF Store, StoreFails, PowerLost, StoreMove
<1> QED
  BY <1>2, <1>3, <1>4, <1>5, <1>6, <1>7, <1>8, <1>9, <1>10, <1>11, <1>12,
     <1>13 DEF Next

LEMMA StoreKept ==
  ASSUME StoreInv, doc \in Doc, StoreMove
  PROVE  StoreInv'
<1>1. /\ doc.slot \in Slots /\ doc.text \in Written
      /\ doc.slot \in Records /\ Draft \in Records
  BY DEF Doc, Records
<1>2. CASE UNCHANGED storeVars
  BY <1>2 DEF storeVars, StoreInv, StoreTypeOK, TodoOK, SaveOf, Erasures
<1>3. CASE SaveCall(doc.slot, doc.text)
  BY <1>1, <1>3, SaveBegins DEF SaveCall
<1>4. CASE DraftSaveCall(doc.slot, doc.text)
  BY <1>1, <1>4, SaveBegins DEF DraftSaveCall
<1>5. CASE DraftClearCall
  BY <1>5, DraftClearBegins
<1>6. CASE \E s \in Slots : ClearCall(s)
  BY <1>6, ClearBegins
<1>7. CASE FlashDoes
  BY <1>7, ErasureDoes, SaveDoes DEF StoreInv, TodoOK
<1>8. CASE FlashFails
  BY <1>8, FailureKeeps
<1>9. CASE PowerCut
  BY <1>9, CutKeeps
<1> QED
  BY <1>2, <1>3, <1>4, <1>5, <1>6, <1>7, <1>8, <1>9 DEF StoreMove

-----------------------------------------------------------------------------
(* What a load returns.                                                    *)
LEMMA LoadFaceFacts ==
  ASSUME NEW fs \in [Faces -> Face]
  PROVE  /\ LoadFace(fs) \in Faces \cup {NoFace} /\ NoFace \notin Faces
         /\ LoadFace(fs) \in Faces => Verifies(fs[LoadFace(fs)])
<1>1. Newest(fs) \in {0, 1, NoFace}
  BY DEF Newest
<1>2. \/ Newest(fs) = NoFace
      \/ Newest(fs) \in Faces /\ Other(Newest(fs)) \in Faces
  BY <1>1, OtherFacts DEF Faces
<1> QED
  BY <1>2 DEF LoadFace, Faces, NoFace

LEMMA LoadTypes ==
  ASSUME StoreTypeOK, NEW s \in Slots
  PROVE  /\ Load(s) \in Written \cup {None}
         /\ DraftLoad(s) \in Written \cup {None}
<1>1. flash[s] \in [Faces -> Face] /\ flash[Draft] \in [Faces -> Face]
  BY DEF StoreTypeOK, Records
<1> QED
  BY <1>1, LoadFaceFacts DEF Load, DraftLoad, Verifies

LEMMA OpenedFacts ==
  ASSUME StoreTypeOK, NEW s \in Slots, NEW live \in BOOLEAN
  PROVE  /\ Opened(s, live) \in Doc /\ Opened(s, live).slot = s
         /\ \/ Opened(s, live).text \in {Load(s), DraftLoad(s), Empty}
            \/ s \in Seeded /\ Opened(s, live).text = Seed(s)
<1> DEFINE restored == live /\ Bytes(DraftLoad(s))
           loaded == live /\ ~restored /\ Bytes(Load(s))
           seeded == live /\ ~restored /\ ~loaded /\ s \in Seeded
           t == IF restored THEN DraftLoad(s) ELSE IF loaded THEN Load(s)
                ELSE IF seeded THEN Seed(s) ELSE Empty
<1>1. Bytes(Load(s)) => Load(s) \in Written
  BY DEF Bytes, Written
<1>2. Bytes(DraftLoad(s)) => DraftLoad(s) \in Written
  BY DEF Bytes, Written
<1>3. s \in Seeded => Seed(s) \in Written
  BY EditAssumption DEF Seed, Written
<1>4. t \in Written
  BY <1>1, <1>2, <1>3 DEF Written
<1>5. Opened(s, live) = [live |-> live, slot |-> s, text |-> t,
                         changed |-> restored, stored |-> ~restored /\ ~seeded]
  BY DEF Opened
<1>6. \/ t \in {Load(s), DraftLoad(s), Empty}
      \/ s \in Seeded /\ t = Seed(s)
  OBVIOUS
<1>7. restored \in BOOLEAN /\ (~restored /\ ~seeded) \in BOOLEAN
  BY DEF Bytes
<1> HIDE DEF t, restored, seeded
<1> QED
  BY <1>4, <1>5, <1>6, <1>7 DEF Doc

LEMMA EditTypesNext ==
  ASSUME TypeOK, [Next]_vars, StoreTypeOK'
  PROVE  TypeOK'
<1>1. /\ doc \in Doc /\ StoreTypeOK /\ screen \in {"home", "code", "reading",
                                                   "writing"}
      /\ ed \in Steps /\ quit \in BOOLEAN /\ faults \in {"none", "now", "past"}
      /\ typed \in Texts \cup {None} /\ ran \in Written \cup {None}
  BY DEF TypeOK
<1>2. CASE UNCHANGED vars
  BY <1>1, <1>2 DEF vars, editVars, TypeOK
<1>3. ASSUME NEW s \in Slots, OpenSlot(s)
      PROVE  doc' \in Doc /\ faults' \in {"none", "now", "past"}
             /\ UNCHANGED <<ed, quit, typed, ran>>
  BY <1>1, <1>3, OpenedFacts DEF OpenSlot, Buffers
<1>4. CASE CodeOpen
  BY <1>1, <1>3, <1>4, EditAssumption DEF CodeOpen, TypeOK
<1>5. CASE TutorialOpen
  BY <1>1, <1>5 DEF TutorialOpen, TypeOK
<1>6. CASE OpenEditor
  BY <1>1, <1>3, <1>6 DEF OpenEditor, Chapters, TypeOK
<1>7. CASE \E t \in Texts : Type(t)
  BY <1>1, <1>7 DEF Type, Doc, Written, TypeOK
<1>8. CASE New
  BY <1>1, <1>8 DEF New, Doc, Written, TypeOK
<1>9. CASE \E q \in BOOLEAN : Save(q)
  BY <1>1, <1>9 DEF Save, Steps, TypeOK
<1>10. CASE Saved
  BY <1>1, <1>10, CleanFacts, LeavingMoves DEF Saved, Steps, TypeOK
<1>11. CASE Retired
  BY <1>1, <1>11, LeavingMoves DEF Retired, Steps, TypeOK
<1>12. CASE Quit
  BY <1>1, <1>12, LeavingMoves DEF Quit, Steps, TypeOK
<1>13. CASE GoHome
  BY <1>1, <1>13, LeavingMoves DEF GoHome, Steps, TypeOK
<1>14. CASE Closed
  BY <1>1, <1>14, CleanFacts DEF Closed, Steps, TypeOK
<1>15. CASE Run
  BY <1>1, <1>15, CleanFacts DEF Run, Doc, Steps, TypeOK
<1>16. CASE RunSaved
  BY <1>1, <1>16, CleanFacts DEF RunSaved, Steps, TypeOK
<1>17. CASE BeginRun
  BY <1>1, <1>17, CleanFacts DEF BeginRun, Steps, TypeOK
<1>18. CASE EndRun
  <2>1. Bytes(Load(doc.slot)) => Load(doc.slot) \in Written
    BY DEF Bytes, Written
  <2>2. doc' \in Doc
    BY <1>1, <1>18, <2>1 DEF EndRun, Doc, Written
  <2> QED
    BY <1>1, <1>18, <2>2 DEF EndRun, Steps, TypeOK
<1>19. CASE \E s \in Chapters : Reset(s)
  BY <1>1, <1>19 DEF Reset, Steps, TypeOK
<1>20. CASE ResetDone
  BY <1>1, <1>20 DEF ResetDone, Steps, TypeOK
<1>21. CASE Store \/ StoreFails
  BY <1>1, <1>21 DEF Store, StoreFails, editVars, TypeOK
<1>22. CASE PowerLost
  BY <1>1, <1>22, EditAssumption
     DEF PowerLost, NoDoc, Doc, Steps, Written, TypeOK
<1> QED
  BY <1>2, <1>4, <1>5, <1>6, <1>7, <1>8, <1>9, <1>10, <1>11, <1>12, <1>13,
     <1>14, <1>15, <1>16, <1>17, <1>18, <1>19, <1>20, <1>21, <1>22 DEF Next

(* The invariant everything below rests on.                                *)
EditInv == TypeOK /\ StoreInv

LEMMA EditInvInit == Init => EditInv
<1> SUFFICES ASSUME Init PROVE EditInv
  OBVIOUS
<1>1. StoreInv
  BY StoreInvInit DEF Init
<1> QED
  BY <1>1, EditAssumption
     DEF Init, EditInv, TypeOK, StoreInv, NoDoc, Doc, Steps, Written

LEMMA EditInvNext ==
  ASSUME EditInv, [Next]_vars
  PROVE  EditInv'
<1>1. StoreInv'
  BY NextMovesStore, StoreKept DEF EditInv, TypeOK
<1>2. TypeOK'
  BY <1>1, EditTypesNext DEF EditInv, StoreInv
<1> QED
  BY <1>1, <1>2 DEF EditInv

(* Every variable of the editor and of the store holds a value of its      *)
(* kind in every reachable state, whatever fails and whenever power goes.  *)
THEOREM EditTypes == Spec => []TypeOK
<1>1. EditInv /\ [Next]_vars => EditInv'
  BY EditInvNext
<1>2. EditInv => TypeOK
  BY DEF EditInv
<1> QED
  BY EditInvInit, <1>1, <1>2, PTL DEF Spec

-----------------------------------------------------------------------------
(* Whose texts there are.  A face of a slot belongs to it, one of the      *)
(* draft's to the slot its header names.                                   *)
Owner(r, f) == IF r = Draft THEN f.slot ELSE r

OwnFace(r, f) ==
  Verifies(f) => f.text \in Mine(Owner(r, f)) \cup {Empty}

OwnOps == {o \in Operation : o.op = "header" => OwnFace(o.at, o.new)}

(* The faces, the headers still to be written and the document: a slot's   *)
(* texts reach nothing but the slot and the draft parked for it.           *)
OwnInv ==
  /\ \A r \in Records, i \in Faces : OwnFace(r, flash[r][i])
  /\ todo \in Seq(OwnOps)
  /\ doc.text \in Mine(doc.slot) \cup {Empty}

LEMMA EraseOpsOwn ==
  ASSUME NEW r \in Records
  PROVE  EraseOps(r) \in Seq(OwnOps)
<1>1. \A i \in Faces : Op("erase", r, i, Blank) \in OwnOps
  BY OpFacts, FaceFacts DEF OwnOps
<1>2. EraseOps(r) = <<Op("erase", r, 0, Blank), Op("erase", r, 1, Blank)>>
  BY DEF EraseOps, Op
<1> QED
  BY <1>1, <1>2 DEF Faces

LEMMA ClearOpsOwn ==
  ASSUME NEW s \in Slots
  PROVE  ClearOps(s) \in Seq(OwnOps)
<1>1. s \in Records /\ Draft \in Records
  BY DEF Records
<1>2. EraseOps(s) \in Seq(OwnOps) /\ EraseOps(Draft) \in Seq(OwnOps)
  BY <1>1, EraseOpsOwn
<1>3. CASE DraftOwner = s
  BY <1>2, <1>3, ConcatProperties DEF ClearOps
<1>4. CASE DraftOwner # s
  BY <1>2, <1>4, EmptySeq, ConcatEmptySeq DEF ClearOps
<1> QED
  BY <1>3, <1>4

LEMMA SaveOpsOwn ==
  ASSUME StoreInv, NEW r \in Records, NEW s \in Slots \cup {NoSlot},
         NEW t \in Written,
         t \in Mine(IF r = Draft THEN s ELSE r) \cup {Empty}
  PROVE  SaveOps(r, s, t) \in Seq(OwnOps)
<1>1. PICK i \in Faces, f \in NewFaces :
        /\ f.text = t /\ f.slot = s
        /\ SaveOps(r, s, t) = <<Op("erase", r, i, f), Op("body", r, i, f),
                                Op("header", r, i, f)>>
  BY SaveOpsAre
<1>2. OwnFace(r, f)
  BY <1>1 DEF OwnFace, Owner
<1>3. \A op \in {"erase", "body", "header"} : Op(op, r, i, f) \in OwnOps
  BY <1>2, OpFacts, FaceFacts DEF OwnOps
<1> QED
  BY <1>1, <1>3

(* A step on flash writes a face of its owner, or one that does not load.  *)
LEMMA OwnWrite ==
  ASSUME StoreInv, NEW r \in Records, NEW i \in Faces, NEW g \in Face,
         flash' = [flash EXCEPT ![r][i] = g], OwnFace(r, g),
         \A q \in Records, j \in Faces : OwnFace(q, flash[q][j])
  PROVE  \A q \in Records, j \in Faces : OwnFace(q, flash'[q][j])
BY DEF StoreInv, StoreTypeOK

LEMMA OwnFlash ==
  ASSUME StoreInv, OwnInv, doc \in Doc, StoreMove
  PROVE  /\ \A r \in Records, i \in Faces : OwnFace(r, flash'[r][i])
         /\ todo' \in Seq(OwnOps)
<1>1. /\ doc.slot \in Slots /\ doc.text \in Written
      /\ doc.slot \in Records /\ Draft \in Records /\ doc.slot # Draft
  BY StoreAssumption DEF Doc, Records
<1>2. doc.text \in Mine(doc.slot) \cup {Empty}
  BY DEF OwnInv
<1>3. CASE UNCHANGED storeVars
  BY <1>3 DEF storeVars, OwnInv
<1>4. CASE SaveCall(doc.slot, doc.text)
  BY <1>1, <1>2, <1>4, SaveOpsOwn DEF SaveCall, Called, OwnInv
<1>5. CASE DraftSaveCall(doc.slot, doc.text)
  BY <1>1, <1>2, <1>5, SaveOpsOwn DEF DraftSaveCall, Called, OwnInv
<1>6. CASE DraftClearCall
  BY <1>1, <1>6, EraseOpsOwn DEF DraftClearCall, Called, OwnInv
<1>7. CASE \E s \in Slots : ClearCall(s)
  BY <1>7, ClearOpsOwn DEF ClearCall, Called, OwnInv
<1>8. CASE FlashDoes
  <2>1. todo' \in Seq(OwnOps)
    BY <1>8, HeadTailProperties DEF FlashDoes, OwnInv
  <2>2. CASE todo \in Seq(Erasures)
    <3>1. PICK r \in Records, i \in Faces :
            flash' = [flash EXCEPT ![r][i] = Blank]
      BY <1>8, <2>2, ErasureDoes
    <3>2. OwnFace(r, Blank) /\ Blank \in Face
      BY FaceFacts DEF OwnFace, Verifies
    <3> QED
      BY <2>1, <3>1, <3>2, OwnWrite DEF OwnInv
  <2>3. CASE \E r \in Records, i \in Faces, f \in NewFaces : SaveOf(r, i, f)
    <3>1. PICK r \in Records, i \in Faces, f \in NewFaces : SaveOf(r, i, f)
      BY <2>3
    <3>2. PICK g \in Face : SaveStep(r, i, f, g)
      BY <1>8, <3>1, SaveDoes
    <3>3. OwnFace(r, f)
      <4>1. /\ todo # <<>> /\ Len(todo) \in 1 .. Len(todo)
            /\ todo[Len(todo)] = Op("header", r, i, f)
        <5> HIDE DEF Op
        <5>1. PICK a, b, c : /\ a = Op("erase", r, i, f)
                             /\ b = Op("body", r, i, f)
                             /\ c = Op("header", r, i, f)
          OBVIOUS
        <5>2. todo \in {<<a, b, c>>, <<b, c>>, <<c>>}
          BY <3>1, <5>1 DEF SaveOf
        <5>3. /\ todo # <<>> /\ Len(todo) \in 1 .. Len(todo)
              /\ todo[Len(todo)] = c
          <6>1. CASE todo = <<a, b, c>>
            BY <6>1
          <6>2. CASE todo = <<b, c>>
            BY <6>2
          <6>3. CASE todo = <<c>>
            BY <6>3
          <6> QED
            BY <5>2, <6>1, <6>2, <6>3
        <5> QED
          BY <5>1, <5>3
      <4>2. Op("header", r, i, f) \in OwnOps
        BY <4>1, ElementOfSeq DEF OwnInv
      <4> QED
        BY <4>2, OpFacts, FaceFacts DEF OwnOps
    <3>4. OwnFace(r, g)
      BY <3>2, <3>3, FaceFacts DEF SaveStep, OwnFace, Verifies
    <3> QED
      BY <2>1, <3>2, <3>4, OwnWrite DEF SaveStep, OwnInv
  <2> QED
    BY <2>2, <2>3 DEF StoreInv, TodoOK
<1>9. CASE FlashFails
  BY <1>9, RestFacts DEF FlashFails, OwnInv
<1>10. CASE PowerCut
  <2>1. todo' \in Seq(OwnOps)
    BY <1>10, CutKeeps, EmptySeq
  <2>2. CASE flash' = flash
    BY <2>1, <2>2 DEF OwnInv
  <2>3. CASE flash' # flash
    <3>1. PICK r \in Records, i \in Faces, g \in Face :
            g.text = Garbled /\ flash' = [flash EXCEPT ![r][i] = g]
      BY <1>10, <2>3, CutKeeps
    <3>2. OwnFace(r, g)
      BY <3>1, FaceFacts DEF OwnFace, Verifies
    <3> QED
      BY <2>1, <3>1, <3>2, OwnWrite DEF OwnInv
  <2> QED
    BY <2>2, <2>3
<1> QED
  BY <1>3, <1>4, <1>5, <1>6, <1>7, <1>8, <1>9, <1>10 DEF StoreMove

(* So a load hands out the slot's own.                                     *)
LEMMA OwnLoads ==
  ASSUME StoreTypeOK, OwnInv, NEW s \in Slots
  PROVE  {Load(s), DraftLoad(s)} \subseteq Mine(s) \cup {Empty, None}
<1>1. /\ flash[s] \in [Faces -> Face] /\ flash[Draft] \in [Faces -> Face]
      /\ s \in Records /\ Draft \in Records /\ s # Draft
  BY StoreAssumption DEF StoreTypeOK, Records
<1>2. Load(s) \in Mine(s) \cup {Empty, None}
  BY <1>1, LoadFaceFacts DEF Load, OwnInv, OwnFace, Owner
<1>3. DraftLoad(s) \in Mine(s) \cup {Empty, None}
  BY <1>1, LoadFaceFacts DEF DraftLoad, OwnInv, OwnFace, Owner
<1> QED
  BY <1>2, <1>3

(* Where the document comes from.                                          *)
LEMMA DocMoves ==
  ASSUME TypeOK, [Next]_vars
  PROVE  \/ /\ doc'.slot = doc.slot
            /\ doc'.text \in {doc.text, Empty} \cup Mine(doc.slot)
         \/ doc'.slot = doc.slot /\ Bytes(doc'.text)
            /\ doc'.text = Load(doc.slot)
         \/ \E s \in Slots, live \in BOOLEAN : doc' = Opened(s, live)
         \/ doc' = NoDoc
<1>1. doc \in Doc
  BY DEF TypeOK
<1>2. CASE UNCHANGED vars
  BY <1>2 DEF vars, editVars
<1>3. CASE CodeOpen \/ OpenEditor
  BY <1>1, <1>3, EditAssumption
     DEF CodeOpen, OpenEditor, OpenSlot, Buffers, Chapters
<1>4. CASE \E t \in Texts : Type(t)
  BY <1>1, <1>4 DEF Type, Doc
<1>5. CASE New
  BY <1>1, <1>5 DEF New, Doc
<1>6. CASE Saved \/ Closed \/ RunSaved \/ BeginRun \/ Run
  BY <1>1, <1>6, CleanFacts DEF Saved, Closed, RunSaved, BeginRun, Run
<1>7. CASE EndRun
  BY <1>1, <1>7 DEF EndRun, Doc
<1>8. CASE PowerLost
  BY <1>8 DEF PowerLost
<1>9. CASE \/ TutorialOpen \/ Retired \/ Quit \/ GoHome
           \/ \E q \in BOOLEAN : Save(q)
           \/ \E s \in Chapters : Reset(s)
           \/ ResetDone \/ Store \/ StoreFails
  BY <1>9 DEF TutorialOpen, Retired, Quit, GoHome, Save, Reset, ResetDone,
              Store, StoreFails, editVars
<1> QED
  BY <1>2, <1>3, <1>4, <1>5, <1>6, <1>7, <1>8, <1>9 DEF Next

LEMMA OwnInvNext ==
  ASSUME EditInv, OwnInv, [Next]_vars
  PROVE  OwnInv'
<1>1. StoreMove /\ doc \in Doc /\ StoreInv /\ StoreTypeOK
  BY NextMovesStore DEF EditInv, TypeOK
<1>2. /\ \A r \in Records, i \in Faces : OwnFace(r, flash'[r][i])
      /\ todo' \in Seq(OwnOps)
  BY <1>1, OwnFlash
<1>3. doc'.text \in Mine(doc'.slot) \cup {Empty}
  <2>1. CASE /\ doc'.slot = doc.slot
             /\ doc'.text \in {doc.text, Empty} \cup Mine(doc.slot)
    BY <2>1 DEF OwnInv
  <2>2. CASE /\ doc'.slot = doc.slot /\ Bytes(doc'.text)
             /\ doc'.text = Load(doc.slot)
    <3>1. doc'.text \in Mine(doc.slot) \cup {Empty, None} /\ doc'.text # None
      BY <1>1, <2>2, OwnLoads, StoreAssumption DEF Doc, Bytes
    <3> QED
      BY <2>2, <3>1
  <2>3. CASE \E s \in Slots, live \in BOOLEAN : doc' = Opened(s, live)
    <3>1. PICK s \in Slots, live \in BOOLEAN : doc' = Opened(s, live)
      BY <2>3
    <3>2. /\ doc'.slot = s /\ doc'.text \in Written
          /\ \/ doc'.text \in {Load(s), DraftLoad(s), Empty}
             \/ s \in Seeded /\ doc'.text = Seed(s)
      BY <1>1, <3>1, OpenedFacts DEF Doc
    <3>3. s \in Seeded => Seed(s) \in Mine(s)
      BY EditAssumption DEF Seed, Mine
    <3> QED
      BY <1>1, <3>2, <3>3, OwnLoads, FaceFacts
  <2>4. CASE doc' = NoDoc
    BY <2>4 DEF NoDoc
  <2> QED
    BY <1>1, <2>1, <2>2, <2>3, <2>4, DocMoves DEF EditInv
<1> QED
  BY <1>2, <1>3 DEF OwnInv

(* srcstore.h and codeedit.c: a lesson never reaches the person's own      *)
(* program and a draft of one slot is never handed to another.             *)
THEOREM OwnTextsTheorem == Spec => []OwnTextsOnly
<1>1. Init => EditInv /\ OwnInv
  <2> SUFFICES ASSUME Init PROVE OwnInv
    BY EditInvInit
  <2>1. \A r \in Records, i \in Faces : OwnFace(r, flash[r][i])
    BY FaceFacts DEF Init, StoreInit, OwnFace, Verifies
  <2> QED
    BY <2>1, EmptySeq DEF Init, StoreInit, OwnInv, NoDoc
<1>2. EditInv /\ OwnInv /\ [Next]_vars => EditInv' /\ OwnInv'
  BY EditInvNext, OwnInvNext
<1>3. EditInv /\ OwnInv => OwnTextsOnly
  BY OwnLoads DEF EditInv, StoreInv, OwnInv, OwnTextsOnly
<1> QED
  BY <1>1, <1>2, <1>3, PTL DEF Spec

-----------------------------------------------------------------------------
(* What is kept, when no loss of power leaves an operation half done.      *)
Whole == \A r \in Records, i \in Faces :
           Present(flash[r][i]) => flash[r][i].text \in Written

(* The last save that reached flash is the newest face.                    *)
NewestIsKept(r) ==
  \E i \in Faces : Leads(flash[r], i) /\ flash[r][i].text = kept[r]

KeptInv ==
  /\ Whole
  /\ \A r \in Records : kept[r] # None => NewestIsKept(r)

(* One face leads at most.                                                 *)
LEMMA OneLeads ==
  ASSUME NEW fs \in [Faces -> Face], Consecutive(fs), NEW i \in Faces,
         Leads(fs, i)
  PROVE  ~Leads(fs, Other(i))
BY NewestFacts, OtherFacts

(* How a step changes a record, when nothing is half done.                 *)
Rewrite(r, i, g) ==
  /\ flash' = [flash EXCEPT ![r][i] = g]
  /\ \/ g = Blank /\ kept' = kept /\ (kept[r] = None \/ Spare(flash[r], i))
     \/ ~Present(flash[r][i]) /\ ~Present(g) /\ kept' = kept
     \/ /\ g \in NewFaces /\ ~Present(flash[r][i])
        /\ Present(flash[r][Other(i)]) => g.seq = Succ(flash[r][Other(i)].seq)
        /\ kept' = [kept EXCEPT ![r] = g.text]

LEMMA FlashRewrites ==
  ASSUME StoreInv, ~Torn, StoreMove
  PROVE  \/ flash' = flash /\ \A r \in Records : kept'[r] \in {kept[r], None}
         \/ \E r \in Records, i \in Faces, g \in Face : Rewrite(r, i, g)
<1>1. kept \in [Records -> Written \cup {None}]
  BY DEF StoreInv, StoreTypeOK
<1>2. CASE UNCHANGED storeVars
  BY <1>2 DEF storeVars
<1>3. ASSUME NEW ops, NEW forgotten, Called(ops, forgotten)
      PROVE  flash' = flash /\ \A r \in Records : kept'[r] \in {kept[r], None}
  BY <1>1, <1>3 DEF Called
<1>4. CASE \/ SaveCall(doc.slot, doc.text) \/ DraftSaveCall(doc.slot, doc.text)
           \/ DraftClearCall \/ \E s \in Slots : ClearCall(s)
  BY <1>3, <1>4 DEF SaveCall, DraftSaveCall, DraftClearCall, ClearCall
<1>5. CASE FlashDoes
  <2>1. CASE todo \in Seq(Erasures)
    BY <1>5, <2>1, ErasureDoes, FaceFacts DEF Rewrite
  <2>2. CASE \E r \in Records, i \in Faces, f \in NewFaces : SaveOf(r, i, f)
    <3>1. PICK r \in Records, i \in Faces, f \in NewFaces : SaveOf(r, i, f)
      BY <2>2
    <3>2. PICK g \in Face : SaveStep(r, i, f, g)
      BY <1>5, <3>1, SaveDoes
    <3>3. Rewrite(r, i, g)
      BY <3>2 DEF SaveStep, Rewrite
    <3> QED
      BY <3>3
  <2> QED
    BY <2>1, <2>2 DEF StoreInv, TodoOK
<1>6. CASE FlashFails
  BY <1>6 DEF FlashFails
<1>7. CASE PowerCut
  BY <1>7, CutKeeps
<1> QED
  BY <1>2, <1>4, <1>5, <1>6, <1>7 DEF StoreMove

LEMMA KeptNext ==
  ASSUME StoreInv, StoreInv', KeptInv, ~Torn, StoreMove
  PROVE  KeptInv'
<1>1. CASE flash' = flash /\ \A r \in Records : kept'[r] \in {kept[r], None}
  BY <1>1 DEF KeptInv, Whole, NewestIsKept
<1>2. CASE \E r \in Records, i \in Faces, g \in Face : Rewrite(r, i, g)
  <2>1. PICK r \in Records, i \in Faces, g \in Face : Rewrite(r, i, g)
    BY <1>2
  <2>2. /\ flash'[r][i] = g /\ flash'[r][Other(i)] = flash[r][Other(i)]
        /\ \A q \in Records \ {r} : flash'[q] = flash[q]
    BY <2>1, FaceWritten DEF Rewrite
  <2>3. \A q \in Records, j \in Faces :
          flash'[q][j] = flash[q][j] \/ (q = r /\ j = i)
    BY <2>2, OtherFacts DEF Faces, Other
  <2>4. Present(g) => g.text \in Written
    BY <2>1, FaceFacts DEF Rewrite, NewFaces
  <2>5. Whole'
    BY <2>2, <2>3, <2>4 DEF Whole, KeptInv
  <2>6. \A q \in Records \ {r} : kept'[q] = kept[q]
    BY <2>1 DEF Rewrite, StoreInv, StoreTypeOK
  <2>7. \A q \in Records \ {r} : kept'[q] # None => NewestIsKept(q)'
    BY <2>2, <2>6 DEF KeptInv, NewestIsKept
  <2>8. ASSUME kept'[r] # None PROVE NewestIsKept(r)'
    <3>1. CASE g \in NewFaces /\ kept' = [kept EXCEPT ![r] = g.text]
               /\ (Present(flash[r][Other(i)])
                     => g.seq = Succ(flash[r][Other(i)].seq))
      <4>1. kept'[r] = g.text
        BY <3>1 DEF StoreInv, StoreTypeOK
      <4>2. Leads(flash'[r], i)
        BY <2>2, <3>1, FaceFacts DEF Leads
      <4> QED
        BY <2>2, <4>1, <4>2 DEF NewestIsKept
    <3>2. CASE /\ kept' = kept /\ ~Present(g)
               /\ ~Present(flash[r][i]) \/ Spare(flash[r], i)
      <4>1. PICK j \in Faces : Leads(flash[r], j) /\ flash[r][j].text = kept[r]
        BY <2>8, <3>2 DEF KeptInv, NewestIsKept
      <4>2. j # i
        <5>1. flash[r] \in [Faces -> Face] /\ Consecutive(flash[r])
          BY DEF StoreInv, StoreTypeOK
        <5> QED
          BY <3>2, <4>1, <5>1, OneLeads DEF Leads, Spare
      <4>3. j = Other(i)
        BY <4>2 DEF Faces, Other
      <4>4. Leads(flash'[r], j)
        BY <2>2, <3>2, <4>1, <4>3, OtherFacts DEF Leads
      <4> QED
        BY <2>2, <3>2, <4>1, <4>3, <4>4 DEF NewestIsKept
    <3> QED
      BY <2>1, <2>8, <3>1, <3>2, FaceFacts DEF Rewrite
  <2> QED
    BY <2>5, <2>7, <2>8 DEF KeptInv
<1> QED
  BY <1>1, <1>2, FlashRewrites

(* The face a load takes is the newest.                                    *)
LEMMA LoadsNewest ==
  ASSUME NEW fs \in [Faces -> Face], Consecutive(fs), NEW i \in Faces,
         Leads(fs, i), fs[i].text \in Written
  PROVE  LoadFace(fs) = i /\ i # NoFace
<1>1. Newest(fs) = i /\ i # NoFace
  BY NewestFacts
<1>2. Verifies(fs[i])
  BY DEF Leads, Verifies
<1> QED
  BY <1>1, <1>2 DEF LoadFace

(* srcstore.c, on its two faces: losing power mid-write costs the last     *)
(* save rather than the whole source.  What the last save to reach flash   *)
(* wrote is what a load returns until somebody forgets it.  The flash is   *)
(* one whose operations power does not cut in half.                        *)
THEOREM KeptTheorem ==
  ASSUME ~Torn
  PROVE  Spec => []KeptIsLoaded
<1>1. Init => EditInv /\ KeptInv
  <2> SUFFICES ASSUME Init PROVE KeptInv
    BY EditInvInit
  <2> QED
    BY FaceFacts DEF Init, StoreInit, KeptInv, Whole
<1>2. EditInv /\ KeptInv /\ [Next]_vars => EditInv' /\ KeptInv'
  <2> SUFFICES ASSUME EditInv, KeptInv, [Next]_vars PROVE EditInv' /\ KeptInv'
    OBVIOUS
  <2>1. EditInv'
    BY EditInvNext
  <2> QED
    BY <2>1, NextMovesStore, KeptNext DEF EditInv
<1>3. EditInv /\ KeptInv => KeptIsLoaded
  <2> SUFFICES ASSUME EditInv, KeptInv PROVE KeptIsLoaded
    OBVIOUS
  <2>1. ASSUME NEW r \in Records, kept[r] # None
        PROVE  /\ LoadFace(flash[r]) # NoFace
               /\ flash[r][LoadFace(flash[r])].text = kept[r]
    <3>1. PICK i \in Faces : Leads(flash[r], i) /\ flash[r][i].text = kept[r]
      BY <2>1 DEF KeptInv, NewestIsKept
    <3>2. flash[r][i].text \in Written
      BY <3>1 DEF KeptInv, Whole, Leads
    <3>3. flash[r] \in [Faces -> Face] /\ Consecutive(flash[r])
      BY DEF EditInv, StoreInv, StoreTypeOK
    <3> QED
      BY <3>1, <3>2, <3>3, LoadsNewest
  <2> QED
    BY <2>1 DEF KeptIsLoaded, Load, Records
<1> QED
  BY <1>1, <1>2, <1>3, PTL DEF Spec

-----------------------------------------------------------------------------
(* The store is a history of versions.                                     *)
LEMMA VersionsAre ==
  ASSUME NEW fs \in [Faces -> Face], Consecutive(fs),
         \A i \in Faces : Present(fs[i]) => fs[i].text \in Written
  PROVE  /\ (\A i \in Faces : ~Present(fs[i])) => VersionsOf(fs) = <<>>
         /\ \A i \in Faces : Leads(fs, i) =>
              VersionsOf(fs) = IF Present(fs[Other(i)])
                               THEN <<fs[i].text, fs[Other(i)].text>>
                               ELSE <<fs[i].text>>
<1>1. ASSUME \A i \in Faces : ~Present(fs[i])
      PROVE  VersionsOf(fs) = <<>>
  <2>1. Newest(fs) = NoFace
    BY <1>1, NewestFacts
  <2> QED
    BY <2>1 DEF LoadFace, VersionsOf
<1>2. ASSUME NEW i \in Faces, Leads(fs, i)
      PROVE  VersionsOf(fs) = IF Present(fs[Other(i)])
                              THEN <<fs[i].text, fs[Other(i)].text>>
                              ELSE <<fs[i].text>>
  <2>1. Newest(fs) = i /\ i # NoFace
    BY <1>2, NewestFacts
  <2>2. Verifies(fs[i])
    BY <1>2 DEF Leads, Verifies
  <2>3. LoadFace(fs) = i
    BY <2>1, <2>2 DEF LoadFace
  <2>4. Verifies(fs[Other(i)]) <=> Present(fs[Other(i)])
    BY OtherFacts DEF Verifies
  <2> QED
    BY <2>1, <2>3, <2>4 DEF VersionsOf
<1> QED
  BY <1>1, <1>2

(* A record's versions over one rewriting of a face: nothing changes, the  *)
(* older one goes, one of a forgotten record goes, or one comes.           *)
VersionsStep(r, old, new) ==
  \/ new = old
  \/ Len(old) = 2 /\ new = <<Head(old)>>
  \/ kept[r] = None /\ old # <<>> /\ new = Tail(old)
  \/ Len(old) < 2 /\ \E v \in Written : new = <<v>> \o old

LEMMA RewriteVersions ==
  ASSUME StoreInv, StoreInv', Whole, Whole',
         NEW r \in Records, NEW i \in Faces, NEW g \in Face, Rewrite(r, i, g)
  PROVE  VersionsStep(r, VersionsOf(flash[r]), VersionsOf(flash'[r]))
<1>11. PICK old, new : old = VersionsOf(flash[r]) /\ new = VersionsOf(flash'[r])
  OBVIOUS
<1>12. SUFFICES VersionsStep(r, old, new)
  BY <1>11
<1> USE DEF VersionsStep
<1>10. PICK fs, hs : fs = flash[r] /\ hs = flash'[r]
  OBVIOUS
<1>1. PICK j \in Faces : fs = flash[r] /\ hs = flash'[r] /\ j = Other(i)
  BY <1>10, OtherFacts
<1>2. /\ fs \in [Faces -> Face] /\ Consecutive(fs)
      /\ hs \in [Faces -> Face] /\ Consecutive(hs)
      /\ \A k \in Faces : Present(fs[k]) => fs[k].text \in Written
      /\ \A k \in Faces : Present(hs[k]) => hs[k].text \in Written
  BY <1>1 DEF StoreInv, StoreTypeOK, Whole
<1>3. /\ hs[i] = g /\ hs[j] = fs[j] /\ Other(i) = j /\ Other(j) = i /\ i # j
      /\ \A k \in Faces : k = i \/ k = j
  BY <1>1, FaceWritten, OtherFacts DEF Rewrite, Faces, Other
<1>4. /\ (~Present(fs[i]) /\ ~Present(fs[j])) => old = <<>>
      /\ Leads(fs, i) => old = IF Present(fs[j]) THEN <<fs[i].text, fs[j].text>>
                                                 ELSE <<fs[i].text>>
      /\ Leads(fs, j) => old = IF Present(fs[i]) THEN <<fs[j].text, fs[i].text>>
                                                 ELSE <<fs[j].text>>
  BY <1>1, <1>2, <1>3, <1>11, VersionsAre
<1>5. /\ (~Present(g) /\ ~Present(fs[j])) => new = <<>>
      /\ Leads(hs, i) => new = IF Present(fs[j]) THEN <<g.text, fs[j].text>>
                                                 ELSE <<g.text>>
      /\ Leads(hs, j) => new = IF Present(g) THEN <<fs[j].text, g.text>>
                                             ELSE <<fs[j].text>>
  BY <1>1, <1>2, <1>3, <1>11, VersionsAre
<1>6. /\ Present(fs[j]) /\ ~Present(fs[i]) => Leads(fs, j)
      /\ Present(fs[j]) /\ ~Present(g) => Leads(hs, j)
  BY <1>3 DEF Leads
<1>7. CASE ~Present(fs[i]) /\ ~Present(g)
  BY <1>4, <1>5, <1>6, <1>7
<1>8. CASE /\ Present(fs[i]) /\ ~Present(g)
           /\ kept[r] = None \/ Spare(fs, i)
  <2>1. Leads(fs, i) \/ Leads(fs, j)
    BY <1>2, <1>3, <1>8, NewestFacts
  <2>2. CASE Leads(fs, j)
    <3>1. Present(fs[j]) /\ old = <<fs[j].text, fs[i].text>>
      BY <1>4, <1>8, <2>2 DEF Leads
    <3>2. new = <<fs[j].text>>
      BY <1>5, <1>6, <1>8, <3>1
    <3> QED
      BY <3>1, <3>2
  <2>3. CASE Leads(fs, i)
    <3>1. kept[r] = None
      BY <1>2, <1>3, <1>8, <2>3, OneLeads DEF Spare
    <3>2. CASE Present(fs[j])
      <4>1. old = <<fs[i].text, fs[j].text>> /\ new = <<fs[j].text>>
        BY <1>4, <1>5, <1>6, <1>8, <2>3, <3>2
      <4>2. old # <<>> /\ Tail(old) = new
        BY <4>1
      <4> QED
        BY <3>1, <4>2
    <3>3. CASE ~Present(fs[j])
      <4>1. old = <<fs[i].text>> /\ new = <<>>
        BY <1>4, <1>5, <1>8, <2>3, <3>3
      <4>2. old # <<>> /\ Tail(old) = new
        BY <4>1
      <4> QED
        BY <3>1, <4>2
    <3> QED
      BY <3>2, <3>3
  <2> QED
    BY <2>1, <2>2, <2>3
<1>9. CASE /\ g \in NewFaces /\ ~Present(fs[i])
           /\ Present(fs[j]) => g.seq = Succ(fs[j].seq)
  <2>1. Leads(hs, i) /\ g.text \in Written
    BY <1>3, <1>9, FaceFacts DEF Leads, NewFaces
  <2>2. CASE Present(fs[j])
    <3>1. old = <<fs[j].text>> /\ new = <<g.text, fs[j].text>>
      BY <1>4, <1>5, <1>6, <1>9, <2>1, <2>2
    <3>2. Len(old) < 2 /\ new = <<g.text>> \o old
      BY <3>1
    <3> QED
      BY <2>1, <3>2
  <2>3. CASE ~Present(fs[j])
    <3>1. old = <<>> /\ new = <<g.text>>
      BY <1>4, <1>5, <1>9, <2>1, <2>3
    <3>2. Len(old) < 2 /\ new = <<g.text>> \o old
      BY <3>1
    <3> QED
      BY <2>1, <3>2
  <2> QED
    BY <2>2, <2>3
<1> QED
  BY <1>1, <1>3, <1>7, <1>8, <1>9, FaceFacts DEF Rewrite

(* The variables of the history, as the store carries them.                *)
Versions == [r \in Records |-> VersionsOf(flash[r])]
Forgetting == {r \in Records : kept[r] = None}

LEMMA HistoryStep ==
  ASSUME StoreInv, StoreInv', Whole, Whole', ~Torn, StoreMove
  PROVE  [History!Next]_<<Versions, Forgetting>>
<1>1. Forgetting' \in SUBSET Records
  BY DEF Forgetting
<1>2. CASE flash' = flash
  BY <1>1, <1>2 DEF Versions, Forgetting, History!Next
<1>3. CASE \E r \in Records, i \in Faces, g \in Face : Rewrite(r, i, g)
  <2>1. PICK r \in Records, i \in Faces, g \in Face : Rewrite(r, i, g)
    BY <1>3
  <2>2. PICK old, new :
          old = VersionsOf(flash[r]) /\ new = VersionsOf(flash'[r])
    OBVIOUS
  <2>3. \A q \in Records \ {r} : flash'[q] = flash[q]
    BY <2>1, FaceWritten DEF Rewrite
  <2>4. Versions' = [Versions EXCEPT ![r] = new] /\ Versions[r] = old
    BY <2>2, <2>3 DEF Versions
  <2>5. \/ new = old
        \/ Len(old) = 2 /\ new = <<Head(old)>>
        \/ kept[r] = None /\ old # <<>> /\ new = Tail(old)
        \/ Len(old) < 2 /\ \E v \in Written : new = <<v>> \o old
    BY <2>1, <2>2, RewriteVersions DEF VersionsStep
  <2>6. CASE new = old
    <3>1. Versions' = Versions
      BY <2>4, <2>6 DEF Versions
    <3> QED
      BY <1>1, <3>1 DEF History!Next, Versions, Forgetting
  <2>7. CASE Len(old) = 2 /\ new = <<Head(old)>>
    <3>1. History!Trim(r)
      BY <2>4, <2>7 DEF History!Trim, Versions
    <3> QED
      BY <1>1, <3>1 DEF History!Next, Forgetting
  <2>8. CASE kept[r] = None /\ old # <<>> /\ new = Tail(old)
    <3>1. History!Forget(r)
      BY <2>4, <2>8 DEF History!Forget, Versions, Forgetting
    <3> QED
      BY <1>1, <3>1 DEF History!Next, Forgetting
  <2>9. CASE Len(old) < 2 /\ \E v \in Written : new = <<v>> \o old
    <3>1. PICK v \in Written : new = <<v>> \o old
      BY <2>9
    <3>2. History!Add(r, v)
      BY <2>4, <2>9, <3>1 DEF History!Add, Versions
    <3> QED
      BY <1>1, <3>2 DEF History!Next, Forgetting
  <2> QED
    BY <2>5, <2>6, <2>7, <2>8, <2>9
<1> QED
  BY <1>2, <1>3, FlashRewrites

(* srcstore.c keeps of a record its last version and at most one before    *)
(* it; a version is added whole or not at all, and the last one goes only  *)
(* while the record is being forgotten: the store on its two faces         *)
(* implements the history of SourceHistory.                                *)
THEOREM HistoryTheorem ==
  ASSUME ~Torn
  PROVE  Spec => HistorySpec
<1>1. Init => EditInv /\ KeptInv
  <2> SUFFICES ASSUME Init PROVE KeptInv
    BY EditInvInit
  <2> QED
    BY FaceFacts DEF Init, StoreInit, KeptInv, Whole
<1>2. EditInv /\ KeptInv /\ [Next]_vars => EditInv' /\ KeptInv'
  <2> SUFFICES ASSUME EditInv, KeptInv, [Next]_vars PROVE EditInv' /\ KeptInv'
    OBVIOUS
  <2>1. EditInv'
    BY EditInvNext
  <2> QED
    BY <2>1, NextMovesStore, KeptNext DEF EditInv
<1>3. Init => History!Init
  <2> SUFFICES ASSUME Init PROVE History!Init
    OBVIOUS
  <2>1. \A r \in Records : flash[r] = [i \in Faces |-> Blank] /\ kept[r] = None
    BY DEF Init, StoreInit
  <2>2. VersionsOf([i \in Faces |-> Blank]) = <<>>
    BY FaceFacts DEF VersionsOf, LoadFace, Newest, Faces, NoFace
  <2> QED
    BY <2>1, <2>2 DEF History!Init
<1>4. EditInv /\ KeptInv /\ EditInv' /\ KeptInv' /\ [Next]_vars
      => [History!Next]_<<Versions, Forgetting>>
  BY NextMovesStore, HistoryStep DEF EditInv, KeptInv
<1> QED
  BY <1>1, <1>2, <1>3, <1>4, PTL
     DEF Spec, HistorySpec, History!Spec, Versions, Forgetting

-----------------------------------------------------------------------------
(* The editor and its calls: which screen a call is made from, and when    *)
(* there is a call at all.                                                 *)
DraftErases == {o \in Operation : o.op = "erase" /\ o.at = Draft}

ShapeInv ==
  /\ ed \in {"ready", "running"} => Idle
  /\ screen = "home" => ed = "ready" /\ ~doc.live
  /\ ed = "resetting" => screen = "reading"
  /\ screen = "writing" => doc.slot # User
  /\ ed \in {"retiring", "runRetiring"} => todo \in Seq(DraftErases)

LEMMA DraftErasesBegin ==
  ASSUME DraftClearCall
  PROVE  /\ todo' = EraseOps(Draft) /\ todo' \in Seq(DraftErases)
         /\ flash' = flash /\ ok' = TRUE
<1>1. Draft \in Records
  BY DEF Records
<1>2. \A i \in Faces : Op("erase", Draft, i, Blank) \in DraftErases
  BY <1>1, OpFacts, FaceFacts DEF DraftErases
<1>3. EraseOps(Draft) = <<Op("erase", Draft, 0, Blank),
                          Op("erase", Draft, 1, Blank)>>
  BY DEF EraseOps, Op
<1> QED
  BY <1>2, <1>3 DEF DraftClearCall, Called, Faces

LEMMA ShapeNext ==
  ASSUME EditInv, ShapeInv, [Next]_vars
  PROVE  ShapeInv'
<1>1. /\ doc \in Doc /\ ed \in Steps
      /\ screen \in {"home", "code", "reading", "writing"}
  BY DEF EditInv, TypeOK
<1>2. CASE UNCHANGED vars
  BY <1>2 DEF vars, storeVars, editVars, ShapeInv, Idle
<1>3. CASE CodeOpen
  BY <1>3 DEF CodeOpen, OpenSlot, storeVars, ShapeInv, Idle
<1>4. CASE TutorialOpen
  BY <1>4 DEF TutorialOpen, storeVars, ShapeInv, Idle
<1>5. CASE OpenEditor
  <2>1. PICK s \in Chapters, live \in Buffers :
          /\ doc' = Opened(s, live) /\ ed' = ed /\ ed = "ready" /\ Idle
          /\ UNCHANGED storeVars /\ screen' = "writing"
    BY <1>5 DEF OpenEditor, OpenSlot, Ready
  <2>2. doc'.slot = s /\ s # User
    BY <2>1 DEF Opened, Chapters
  <2> QED
    BY <2>1, <2>2 DEF storeVars, ShapeInv, Idle
<1>6. CASE \E t \in Texts : Type(t)
  BY <1>1, <1>6 DEF Type, Editing, Ready, Doc, storeVars, ShapeInv, Idle
<1>7. CASE New
  BY <1>1, <1>7 DEF New, Editing, Ready, Doc, storeVars, ShapeInv, Idle
<1>8. CASE \E q \in BOOLEAN : Save(q)
  BY <1>8 DEF Save, Editing, ShapeInv
<1>9. ASSUME NEW d, d.live = doc.live, d.slot = doc.slot, LeaveEditor(d),
             Idle, doc' = d, screen # "home"
      PROVE  ShapeInv'
  <2>1. CASE screen = "writing"
    BY <1>9, <2>1 DEF LeaveEditor, storeVars, ShapeInv, Idle
  <2>2. CASE screen # "writing" /\ d.live
    BY <1>9, <2>2 DEF LeaveEditor, Close, ShapeInv
  <2>3. CASE screen # "writing" /\ ~d.live
    BY <1>9, <2>3 DEF LeaveEditor, storeVars, ShapeInv, Idle
  <2> QED
    BY <2>1, <2>2, <2>3
<1>10. /\ Clean(doc).live = doc.live /\ Clean(doc).slot = doc.slot
       /\ GivenBack(doc).live = FALSE /\ GivenBack(doc).slot = doc.slot
       /\ GivenBack(Clean(doc)).live = FALSE
       /\ GivenBack(Clean(doc)).slot = doc.slot
  BY <1>1 DEF Clean, GivenBack, Doc
<1>11. CASE Saved
  <2>1. CASE ok
    BY <1>10, <1>11, <2>1, DraftErasesBegin DEF Saved, ShapeInv
  <2>2. CASE ~ok /\ quit
    BY <1>9, <1>10, <1>11, <2>2 DEF Saved, ShapeInv
  <2>3. CASE ~ok /\ ~quit
    BY <1>10, <1>11, <2>3 DEF Saved, storeVars, ShapeInv, Idle
  <2> QED
    BY <2>1, <2>2, <2>3
<1>12. CASE Retired
  <2>1. CASE quit
    BY <1>9, <1>12, <2>1 DEF Retired, ShapeInv
  <2>2. CASE ~quit
    BY <1>12, <2>2 DEF Retired, storeVars, ShapeInv, Idle
  <2> QED
    BY <2>1, <2>2
<1>13. CASE Quit
  BY <1>9, <1>13 DEF Quit, Editing, Ready
<1>14. CASE GoHome
  BY <1>14 DEF GoHome, Ready, Close, storeVars, ShapeInv, Idle
<1>15. CASE Closed
  BY <1>10, <1>15 DEF Closed, storeVars, ShapeInv, Idle
<1>16. CASE Run
  BY <1>10, <1>16 DEF Run, Editing, Ready, storeVars, ShapeInv, Idle
<1>17. CASE RunSaved
  <2>1. CASE ok
    BY <1>10, <1>17, <2>1, DraftErasesBegin DEF RunSaved, ShapeInv
  <2>2. CASE ~ok
    BY <1>10, <1>17, <2>2 DEF RunSaved, storeVars, ShapeInv, Idle
  <2> QED
    BY <2>1, <2>2
<1>18. CASE BeginRun
  BY <1>10, <1>18 DEF BeginRun, storeVars, ShapeInv, Idle
<1>19. CASE EndRun
  <2>1. doc'.slot = doc.slot
    BY <1>1, <1>19 DEF EndRun, Doc
  <2> QED
    BY <1>19, <2>1 DEF EndRun, storeVars, ShapeInv, Idle
<1>20. CASE \E s \in Chapters : Reset(s)
  BY <1>20 DEF Reset, ShapeInv
<1>21. CASE ResetDone
  BY <1>21 DEF ResetDone, storeVars, ShapeInv, Idle
<1>22. CASE Store
  <2>1. todo # <<>> /\ todo' = Tail(todo) /\ UNCHANGED editVars
    BY <1>22 DEF Store, FlashDoes
  <2>2. todo \in Seq(DraftErases) => todo' \in Seq(DraftErases)
    BY <2>1, HeadTailProperties
  <2> QED
    BY <2>1, <2>2 DEF editVars, ShapeInv, Idle
<1>23. CASE StoreFails
  <2>1. /\ todo # <<>> /\ FlashFails /\ StoreInv
        /\ UNCHANGED <<screen, ed, quit, doc, typed, ran>>
    BY <1>23 DEF StoreFails, FlashFails, EditInv
  <2>2. todo \in Seq(DraftErases) => todo' \in Seq(DraftErases)
    BY <2>1, RestFacts
  <2> QED
    BY <2>1, <2>2 DEF ShapeInv, Idle
<1>24. CASE PowerLost
  BY <1>24 DEF PowerLost, PowerCut, NoDoc, ShapeInv, Idle
<1> QED
  BY <1>2, <1>3, <1>4, <1>5, <1>6, <1>7, <1>8, <1>11, <1>12, <1>13, <1>14,
     <1>15, <1>16, <1>17, <1>18, <1>19, <1>20, <1>21, <1>22, <1>23, <1>24
     DEF Next

LEMMA ShapeInit == Init => ShapeInv
BY DEF Init, StoreInit, ShapeInv, Idle, NoDoc

-----------------------------------------------------------------------------
(* What an editor that loads the two faces of a slot shows.                *)
ShownOf(fs) ==
  IF LoadFace(fs) # NoFace /\ Bytes(fs[LoadFace(fs)].text)
  THEN fs[LoadFace(fs)].text ELSE Empty

LEMMA ShownIs ==
  ASSUME NEW s \in Slots
  PROVE  (IF Bytes(Load(s)) THEN Load(s) ELSE Empty) = ShownOf(flash[s])
BY StoreAssumption DEF Load, ShownOf, Bytes

LEMMA ShownNewest ==
  ASSUME NEW fs \in [Faces -> Face], Consecutive(fs), NEW i \in Faces,
         Leads(fs, i), fs[i].text \in Written
  PROVE  ShownOf(fs) = fs[i].text
BY LoadsNewest DEF ShownOf, Written, Bytes

(* A save of the text is on its way to its slot, or has reached it.        *)
Pending(s, t) ==
  /\ ok
  /\ \/ \E i \in Faces, f \in NewFaces : SaveOf(s, i, f) /\ f.text = t
     \/ Idle /\ ShownOf(flash[s]) = t

LEMMA PendingBegins ==
  ASSUME StoreInv, NEW s \in Slots, NEW t \in Written, SaveCall(s, t)
  PROVE  Pending(s, t)'
<1>1. s \in Records
  BY DEF Records
<1>2. ok' = TRUE
  BY DEF SaveCall, Called
<1> QED
  BY <1>1, <1>2, SaveBegins DEF SaveCall, Pending

LEMMA PendingDone ==
  ASSUME NEW s, NEW t, Pending(s, t), Idle
  PROVE  ok /\ ShownOf(flash[s]) = t
BY DEF Pending, SaveOf, Idle

LEMMA PendingDoes ==
  ASSUME StoreInv, NEW s \in Slots, NEW t \in Written, Pending(s, t), FlashDoes
  PROVE  Pending(s, t)'
<1>1. s \in Records
  BY DEF Records
<1>2. ok' = ok /\ ~Idle
  BY DEF FlashDoes, Idle
<1>3. PICK i \in Faces, f \in NewFaces : SaveOf(s, i, f) /\ f.text = t
  BY <1>2 DEF Pending
<1>4. /\ StoreInv' /\ (todo' = <<>> \/ SaveOf(s, i, f)')
      /\ todo' = <<>> => flash'[s][i] = f
  BY <1>1, <1>3, SaveDoes
<1>5. CASE todo' = <<>>
  <2>1. PICK g \in Face : SaveStep(s, i, f, g)
    BY <1>1, <1>3, SaveDoes
  <2>2. flash'[s][i] = g /\ flash'[s][Other(i)] = flash[s][Other(i)]
    BY <1>1, <2>1, FaceWritten DEF SaveStep
  <2>3. Leads(flash'[s], i)
    BY <1>3, <1>4, <1>5, <2>2, FaceFacts DEF SaveOf, Leads
  <2>4. flash'[s][i].text = t
    BY <1>3, <1>4, <1>5
  <2>5. ShownOf(flash'[s]) = t
    <3>1. flash'[s] \in [Faces -> Face] /\ Consecutive(flash'[s])
      BY <1>1, <1>4 DEF StoreInv, StoreTypeOK
    <3> QED
      BY <2>3, <2>4, <3>1, ShownNewest
  <2> QED
    BY <1>2, <1>5, <2>5 DEF Pending, Idle
<1> QED
  BY <1>2, <1>3, <1>4, <1>5 DEF Pending

(* While flash works, what the editor holds for saved is in its slot, and  *)
(* what a run was started with is too.                                     *)
SlotHolds ==
  /\ /\ ed = "ready" /\ screen \in {"code", "writing"}
     /\ doc.live /\ ~doc.changed /\ doc.stored
     => ShownOf(flash[doc.slot]) = doc.text
  /\ ed \in {"saving", "runSaving"} => Pending(doc.slot, doc.text)
  /\ ed \in {"retiring", "runRetiring"} => ShownOf(flash[doc.slot]) = doc.text
  /\ ed \in {"runSaving", "runRetiring"} /\ ran # None => ran = doc.text
  /\ ed = "running" /\ ran # None => ShownOf(flash[doc.slot]) = ran

RunInv == faults # "now" => SlotHolds

LEMMA OpenedClean ==
  ASSUME NEW s \in Slots, NEW live \in BOOLEAN,
         Opened(s, live).live, ~Opened(s, live).changed, Opened(s, live).stored
  PROVE  Opened(s, live).text = ShownOf(flash[s])
<1>1. live /\ ~Bytes(DraftLoad(s))
  BY DEF Opened
<1>2. Opened(s, live).text = IF Bytes(Load(s)) THEN Load(s) ELSE Empty
  BY <1>1 DEF Opened
<1> QED
  BY <1>2, ShownIs

(* A call that forgets the draft leaves the slot as it is.                 *)
LEMMA RunNext ==
  ASSUME EditInv, ShapeInv, RunInv, [Next]_vars
  PROVE  RunInv'
<1> SUFFICES ASSUME faults' # "now" PROVE SlotHolds'
  BY DEF RunInv
<1>1. /\ doc \in Doc /\ ed \in Steps /\ StoreInv
      /\ screen \in {"home", "code", "reading", "writing"}
      /\ doc.slot \in Slots /\ doc.text \in Written
  BY DEF EditInv, TypeOK, Doc
<1>2. CASE UNCHANGED vars
  BY <1>2 DEF vars, storeVars, editVars, RunInv, SlotHolds, Pending, SaveOf,
              Idle
<1>3. ASSUME NEW s \in Slots, OpenSlot(s), ed = "ready"
      PROVE  SlotHolds'
  <2>1. PICK live \in BOOLEAN : doc' = Opened(s, live)
    BY <1>3 DEF OpenSlot, Buffers
  <2>2. flash' = flash /\ ed' = "ready" /\ doc'.slot = s
    BY <1>3, <2>1 DEF OpenSlot, storeVars, Opened
  <2> QED
    BY <2>1, <2>2, OpenedClean DEF SlotHolds
<1>4. CASE CodeOpen \/ OpenEditor
  BY <1>3, <1>4, EditAssumption
     DEF CodeOpen, OpenEditor, Ready, Chapters, ShapeInv
<1>5. CASE TutorialOpen \/ \E s \in Chapters : Reset(s)
  BY <1>5 DEF TutorialOpen, Reset, ShapeInv, SlotHolds
<1>6. CASE New \/ \E t \in Texts : Type(t)
  <2>1. doc'.changed /\ ed' = "ready"
    BY <1>1, <1>6 DEF New, Type, Editing, Ready, Doc
  <2> QED
    BY <2>1 DEF SlotHolds
<1>7. CASE \E q \in BOOLEAN : Save(q)
  <2>1. PICK s, t : s = doc.slot /\ t = doc.text
    OBVIOUS
  <2>2. doc' = doc /\ ed' = "saving" /\ SaveCall(s, t)
    BY <1>7, <2>1 DEF Save
  <2>3. Pending(s, t)'
    BY <1>1, <2>1, <2>2, PendingBegins
  <2>4. Pending(doc.slot, doc.text)'
    BY <2>1, <2>2, <2>3 DEF Pending, SaveOf, Idle
  <2> QED
    BY <2>2, <2>4 DEF SlotHolds
<1>8. ASSUME ed \in {"saving", "runSaving"}, Idle, faults' = faults
      PROVE  ok /\ ShownOf(flash[doc.slot]) = doc.text
  BY <1>8, PendingDone DEF RunInv, SlotHolds
<1>9. CASE Saved
  <2>1. ok /\ ShownOf(flash[doc.slot]) = doc.text
    BY <1>8, <1>9 DEF Saved
  <2>2. doc' = Clean(doc) /\ DraftClearCall /\ ed' = "retiring"
    BY <1>9, <2>1 DEF Saved
  <2>3. flash' = flash
    BY <2>2, DraftErasesBegin
  <2> QED
    BY <1>1, <2>1, <2>2, <2>3, CleanFacts DEF SlotHolds
<1>10. CASE Retired
  <2>1. ShownOf(flash[doc.slot]) = doc.text
    BY <1>10 DEF Retired, RunInv, SlotHolds
  <2>2. \/ ed' = "ready" /\ flash' = flash /\ doc' = doc
        \/ ed' = "closing"
    BY <1>10 DEF Retired, LeaveEditor, Close, storeVars
  <2> QED
    BY <2>1, <2>2 DEF SlotHolds
<1>11. CASE Quit \/ GoHome
  <2>1. ed' = "closing" \/ (ed' = "ready" /\ screen' \in {"reading", "home"})
    BY <1>11 DEF Quit, GoHome, LeaveEditor, Close, Editing, Ready
  <2> QED
    BY <2>1 DEF SlotHolds
<1>12. CASE Closed \/ PowerLost
  BY <1>12 DEF Closed, PowerLost, SlotHolds
<1>13. CASE Run
  <2>1. PICK s, t : s = doc.slot /\ t = doc.text
    OBVIOUS
  <2>2. ran' = (IF doc.live THEN doc.text ELSE None) /\ Editing
        /\ faults' = faults
    BY <1>13 DEF Run
  <2>3. CASE doc.changed \/ ~doc.stored
    <3>1. SaveCall(s, t) /\ ed' = "runSaving" /\ doc' = doc
      BY <1>13, <2>1, <2>3 DEF Run
    <3>2. Pending(s, t)'
      BY <1>1, <2>1, <3>1, PendingBegins
    <3>3. Pending(doc.slot, doc.text)'
      BY <2>1, <3>1, <3>2 DEF Pending, SaveOf, Idle
    <3> QED
      BY <2>2, <3>1, <3>3 DEF SlotHolds
  <2>4. CASE ~doc.changed /\ doc.stored
    <3>1. ed' = "running" /\ doc' = GivenBack(doc) /\ flash' = flash
      BY <1>13, <2>4 DEF Run, storeVars
    <3>2. doc'.slot = doc.slot
      BY <1>1, <3>1, CleanFacts
    <3>3. doc.live => ShownOf(flash[doc.slot]) = doc.text
      BY <2>2, <2>4 DEF Editing, Ready, RunInv, SlotHolds
    <3> QED
      BY <2>2, <3>1, <3>2, <3>3 DEF SlotHolds
  <2> QED
    BY <1>1, <2>3, <2>4 DEF Doc
<1>14. CASE RunSaved
  <2>1. ok /\ ShownOf(flash[doc.slot]) = doc.text
        /\ (ran # None => ran = doc.text)
    BY <1>8, <1>14 DEF RunSaved, RunInv, SlotHolds
  <2>2. doc' = Clean(doc) /\ DraftClearCall /\ ed' = "runRetiring" /\ ran' = ran
    BY <1>14, <2>1 DEF RunSaved
  <2>3. flash' = flash
    BY <2>2, DraftErasesBegin
  <2> QED
    BY <1>1, <2>1, <2>2, <2>3, CleanFacts DEF SlotHolds
<1>15. CASE BeginRun
  <2>1. ShownOf(flash[doc.slot]) = doc.text /\ (ran # None => ran = doc.text)
    BY <1>15 DEF BeginRun, RunInv, SlotHolds
  <2>2. ed' = "running" /\ doc' = GivenBack(doc) /\ flash' = flash /\ ran' = ran
    BY <1>15 DEF BeginRun, storeVars
  <2> QED
    BY <1>1, <2>1, <2>2, CleanFacts DEF SlotHolds
<1>16. CASE EndRun
  <2>1. ed' = "ready" /\ flash' = flash /\ doc'.slot = doc.slot
    BY <1>1, <1>16 DEF EndRun, storeVars, Doc
  <2>2. doc'.live =>
          doc'.text = IF Bytes(Load(doc.slot)) THEN Load(doc.slot) ELSE Empty
    BY <1>1, <1>16 DEF EndRun, Doc
  <2> QED
    BY <1>1, <2>1, <2>2, ShownIs DEF SlotHolds
<1>17. CASE ResetDone
  BY <1>17 DEF ResetDone, ShapeInv, SlotHolds
<1>18. CASE Store
  <2>1. /\ FlashDoes /\ ~Idle /\ ed' = ed /\ doc' = doc /\ ran' = ran
        /\ faults' = faults /\ todo # <<>>
    BY <1>18 DEF Store, FlashDoes, editVars, Idle
  <2>2. ed \notin {"ready", "running"} /\ SlotHolds
    BY <2>1 DEF ShapeInv, RunInv
  <2>3. PICK s, t : s = doc.slot /\ t = doc.text
    OBVIOUS
  <2>4. CASE ed \in {"saving", "runSaving"}
    <3>1. Pending(s, t)
      BY <2>2, <2>3, <2>4 DEF SlotHolds
    <3>2. Pending(s, t)'
      BY <1>1, <2>1, <2>3, <3>1, PendingDoes
    <3>3. Pending(doc.slot, doc.text)'
      BY <2>1, <2>3, <3>2 DEF Pending, SaveOf, Idle
    <3> QED
      BY <2>1, <2>2, <2>4, <3>3 DEF SlotHolds
  <2>5. CASE ed \in {"retiring", "runRetiring"}
    <3>1. todo \in Seq(DraftErases)
      BY <2>5 DEF ShapeInv
    <3>2. Head(todo) \in DraftErases
      BY <2>1, <3>1, HeadTailProperties
    <3>3. Head(todo).at = Draft /\ doc.slot # Draft
      BY <1>1, <3>2, StoreAssumption DEF DraftErases
    <3>4. flash'[doc.slot] = flash[doc.slot]
      BY <1>1, <2>1, <3>3
         DEF FlashDoes, StoreInv, StoreTypeOK, Records
    <3> QED
      BY <2>1, <2>2, <2>5, <3>4 DEF SlotHolds
  <2> QED
    BY <2>1, <2>2, <2>4, <2>5 DEF SlotHolds
<1>19. CASE StoreFails
  BY <1>19 DEF StoreFails
<1> QED
  BY <1>2, <1>4, <1>5, <1>6, <1>7, <1>9, <1>10, <1>11, <1>12, <1>13, <1>14,
     <1>15, <1>16, <1>17, <1>18, <1>19 DEF Next

(* codeedit.c, on code_run_restore(): the document comes back as it was.   *)
(* After a run the editor has the text the run was started with, unless a  *)
(* flash operation failed since it was opened or there is no memory for it.*)
THEOREM RunTheorem == Spec => RunComesBack
<1>1. Init => EditInv /\ ShapeInv /\ RunInv
  <2> SUFFICES ASSUME Init PROVE RunInv
    BY EditInvInit, ShapeInit
  <2> QED
    BY DEF Init, NoDoc, RunInv, SlotHolds
<1>2. EditInv /\ ShapeInv /\ RunInv /\ [Next]_vars
      => EditInv' /\ ShapeInv' /\ RunInv'
  BY EditInvNext, ShapeNext, RunNext
<1>3. EditInv /\ ShapeInv /\ RunInv /\ [Next]_vars
      => [EndRun /\ doc'.live /\ faults # "now" /\ ran # None
            => doc'.text = ran]_vars
  <2> SUFFICES ASSUME EditInv, RunInv, EndRun, doc'.live, faults # "now",
                      ran # None
               PROVE  doc'.text = ran
    OBVIOUS
  <2>1. doc \in Doc /\ doc.slot \in Slots
    BY DEF EditInv, TypeOK, Doc
  <2>2. doc'.text = IF Bytes(Load(doc.slot)) THEN Load(doc.slot) ELSE Empty
    BY <2>1 DEF EndRun, Doc
  <2>3. ShownOf(flash[doc.slot]) = ran
    BY DEF EndRun, RunInv, SlotHolds
  <2> QED
    BY <2>1, <2>2, <2>3, ShownIs
<1> QED
  BY <1>1, <1>2, <1>3, PTL DEF Spec, RunComesBack

-----------------------------------------------------------------------------
(* The draft the Playground would restore, and whether it is what the      *)
(* person last had there.                                                  *)
DraftOf(fs) ==
  IF LoadFace(fs) # NoFace /\ fs[LoadFace(fs)].slot = User
  THEN fs[LoadFace(fs)].text ELSE None

Fits(fs, t) == Bytes(DraftOf(fs)) => DraftOf(fs) = t

LEMMA DraftIs == DraftLoad(User) = DraftOf(flash[Draft])
BY DEF DraftLoad, DraftOf

(* Only erases are to come, and they take every face the draft has.        *)
EraseSteps == {o \in Operation : o.op = "erase"}
SlotErases == {o \in EraseSteps : o.at # Draft}

Going(ops, fs) ==
  /\ ops \in Seq(EraseSteps)
  /\ \A i \in Faces : Present(fs[i])
       => \E k \in 1 .. Len(ops) : ops[k].at = Draft /\ ops[k].face = i

LEMMA GoingDone ==
  ASSUME NEW fs, Going(<<>>, fs), NEW t
  PROVE  Fits(fs, t)
<1>1. ~Present(fs[0]) /\ ~Present(fs[1])
  BY DEF Going, Faces
<1>2. LoadFace(fs) = NoFace
  BY <1>1 DEF LoadFace, Newest
<1> QED
  BY <1>2, StoreAssumption DEF DraftOf, Fits, Bytes

LEMMA GoingBegins ==
  ASSUME DraftClearCall
  PROVE  Going(todo', flash'[Draft]) /\ flash' = flash
<1>1. todo' = EraseOps(Draft) /\ todo' \in Seq(DraftErases) /\ flash' = flash
  BY DraftErasesBegin
<1>2. todo' \in Seq(EraseSteps)
  BY <1>1, SeqMonotonic DEF DraftErases, EraseSteps
<1>3. /\ Len(todo') = 2 /\ todo'[1].at = Draft /\ todo'[1].face = 0
      /\ todo'[2].at = Draft /\ todo'[2].face = 1
  BY <1>1 DEF EraseOps
<1> QED
  BY <1>1, <1>2, <1>3 DEF Going, Faces

(* An erase is carried out.                                                *)
LEMMA EraseDone ==
  ASSUME StoreInv, FlashDoes, Head(todo) \in EraseSteps
  PROVE  flash' = [flash EXCEPT ![Head(todo).at][Head(todo).face] = Blank]
<1>1. PICK o : o = Head(todo)
  OBVIOUS
<1>2. /\ o \in Operation /\ o.op = "erase" /\ o.at \in Records
      /\ o.face \in Faces
  BY <1>1, HeadFacts DEF FlashDoes, EraseSteps
<1>3. flash[o.at][o.face] \in Face
  BY <1>2 DEF StoreInv, StoreTypeOK
<1>4. Done(o, flash[o.at][o.face]) = Blank
  BY <1>2, <1>3, DoneFacts
<1> QED
  BY <1>1, <1>2, <1>4 DEF FlashDoes, StoreInv, StoreTypeOK

LEMMA GoingDoes ==
  ASSUME StoreInv, FlashDoes, Going(todo, flash[Draft])
  PROVE  Going(todo', flash'[Draft])
<1>1. PICK o : o = Head(todo)
  OBVIOUS
<1>2. /\ todo # <<>> /\ todo' = Tail(todo) /\ todo \in Seq(EraseSteps)
      /\ Draft \in Records
  BY DEF FlashDoes, Going, Records
<1>3. /\ o \in EraseSteps /\ todo' \in Seq(EraseSteps) /\ o = todo[1]
      /\ Len(todo') = Len(todo) - 1 /\ Len(todo) \in Nat
      /\ \A k \in 1 .. Len(todo') : todo'[k] = todo[k + 1]
  BY <1>1, <1>2, HeadTailProperties, LenProperties
<1>4. o.at \in Records /\ o.face \in Faces
  BY <1>1, <1>2, HeadFacts
<1>5. flash' = [flash EXCEPT ![o.at][o.face] = Blank]
  BY <1>1, <1>3, EraseDone
<1>6. ASSUME NEW i \in Faces, Present(flash'[Draft][i])
      PROVE  \E k \in 1 .. Len(todo') : todo'[k].at = Draft /\ todo'[k].face = i
  <2>1. ~(o.at = Draft /\ o.face = i)
    BY <1>2, <1>4, <1>5, <1>6, FaceFacts DEF StoreInv, StoreTypeOK
  <2>2. flash'[Draft][i] = flash[Draft][i]
    BY <1>2, <1>4, <1>5, <2>1 DEF StoreInv, StoreTypeOK
  <2>3. PICK k \in 1 .. Len(todo) : todo[k].at = Draft /\ todo[k].face = i
    BY <1>6, <2>2 DEF Going
  <2>4. k # 1
    BY <1>3, <2>1, <2>3
  <2>5. k - 1 \in 1 .. Len(todo') /\ (k - 1) + 1 = k
    BY <1>3, <2>4
  <2>6. todo'[k - 1] = todo[k]
    BY <1>3, <2>5
  <2> QED
    BY <2>3, <2>5, <2>6
<1> QED
  BY <1>3, <1>6 DEF Going

LEMMA SlotEraseDoes ==
  ASSUME StoreInv, FlashDoes, todo \in Seq(SlotErases)
  PROVE  todo' \in Seq(SlotErases) /\ flash'[Draft] = flash[Draft]
<1>1. PICK o : o = Head(todo)
  OBVIOUS
<1>2. /\ todo # <<>> /\ todo' = Tail(todo) /\ Draft \in Records
  BY DEF FlashDoes, Records
<1>3. o \in SlotErases /\ todo' \in Seq(SlotErases)
  BY <1>1, <1>2, HeadTailProperties
<1>4. o.at \in Records /\ o.at # Draft /\ o \in EraseSteps
  BY <1>1, <1>2, <1>3, HeadFacts DEF SlotErases
<1>5. flash' = [flash EXCEPT ![o.at][o.face] = Blank]
  BY <1>1, <1>4, EraseDone
<1> QED
  BY <1>2, <1>3, <1>4, <1>5 DEF StoreInv, StoreTypeOK

LEMMA ClearErases ==
  ASSUME NEW s \in Slots, ClearCall(s)
  PROVE  /\ flash' = flash
         /\ Going(todo', flash'[Draft]) \/ todo' \in Seq(SlotErases)
<1>1. todo' = ClearOps(s) /\ flash' = flash
  BY DEF ClearCall, Called
<1>2. s \in Records /\ Draft \in Records /\ s # Draft
  BY StoreAssumption DEF Records
<1>3. \A r \in Records, i \in Faces : Op("erase", r, i, Blank) \in EraseSteps
  BY OpFacts, FaceFacts DEF EraseSteps
<1>4. \A i \in Faces : Op("erase", s, i, Blank) \in SlotErases
  BY <1>2, <1>3, OpFacts, FaceFacts DEF SlotErases
<1>5. \A r \in Records : EraseOps(r) = <<Op("erase", r, 0, Blank),
                                         Op("erase", r, 1, Blank)>>
  BY DEF EraseOps, Op
<1>6. ASSUME NEW r \in Records, NEW S,
             \A i \in Faces : Op("erase", r, i, Blank) \in S
      PROVE  EraseOps(r) \in Seq(S)
  <2>1. EraseOps(r) = <<Op("erase", r, 0, Blank), Op("erase", r, 1, Blank)>>
    BY <1>5
  <2>2. Op("erase", r, 0, Blank) \in S /\ Op("erase", r, 1, Blank) \in S
    BY <1>6 DEF Faces
  <2> HIDE DEF Op
  <2> QED
    BY <2>1, <2>2
<1>7. EraseOps(s) \in Seq(SlotErases)
  BY <1>2, <1>4, <1>6
<1>10. EraseOps(s) \in Seq(EraseSteps) /\ EraseOps(Draft) \in Seq(EraseSteps)
  BY <1>2, <1>3, <1>6
<1>8. CASE DraftOwner # s
  BY <1>1, <1>7, <1>8, EmptySeq, ConcatEmptySeq DEF ClearOps
<1>9. CASE DraftOwner = s
  <2>1. PICK a, b : a = EraseOps(Draft) /\ b = EraseOps(s)
    OBVIOUS
  <2>2. todo' = a \o b /\ a \in Seq(EraseSteps) /\ b \in Seq(EraseSteps)
    BY <1>1, <1>9, <1>10, <2>1 DEF ClearOps
  <2>3. /\ Len(a) = 2 /\ Len(b) = 2
        /\ a[1].at = Draft /\ a[1].face = 0 /\ a[2].at = Draft /\ a[2].face = 1
    BY <2>1 DEF EraseOps
  <2>4. /\ todo' \in Seq(EraseSteps) /\ Len(todo') = 4
        /\ todo'[1] = a[1] /\ todo'[2] = a[2]
    BY <2>2, <2>3, ConcatProperties
  <2>5. 1 \in 1 .. Len(todo') /\ 2 \in 1 .. Len(todo')
    BY <2>4
  <2>6. Going(todo', flash'[Draft])
    BY <2>3, <2>4, <2>5 DEF Going, Faces
  <2> QED
    BY <1>1, <2>6
<1> QED
  BY <1>8, <1>9

(* A draft is on its way, or there: another slot's or what was last typed. *)
Coming ==
  \E i \in Faces, f \in NewFaces :
    /\ f.slot = User => f.text \in {typed, Empty}
    /\ \/ SaveOf(Draft, i, f)
       \/ Idle /\ Leads(flash[Draft], i) /\ flash[Draft][i] = f

LEMMA ComingDone ==
  ASSUME StoreInv, Coming, Idle
  PROVE  Fits(flash[Draft], typed)
<1>1. PICK i \in Faces, f \in NewFaces :
        /\ f.slot = User => f.text \in {typed, Empty}
        /\ Leads(flash[Draft], i) /\ flash[Draft][i] = f
  BY DEF Coming, SaveOf, Idle
<1>2. flash[Draft] \in [Faces -> Face] /\ Consecutive(flash[Draft])
  BY DEF StoreInv, StoreTypeOK, Records
<1>3. LoadFace(flash[Draft]) = i
  BY <1>1, <1>2, LoadsNewest DEF NewFaces
<1> QED
  BY <1>1, <1>3, StoreAssumption DEF DraftOf, Fits, Bytes

LEMMA ComingBegins ==
  ASSUME StoreInv, NEW s \in Slots, NEW t \in Written, DraftSaveCall(s, t),
         s = User => t \in {typed', Empty}
  PROVE  Coming'
<1>1. Draft \in Records
  BY DEF Records
<1>2. PICK i \in Faces, f \in NewFaces :
        f.text = t /\ f.slot = s /\ SaveOf(Draft, i, f)'
  BY <1>1, SaveBegins DEF DraftSaveCall
<1> QED
  BY <1>2 DEF Coming

LEMMA ComingDoes ==
  ASSUME StoreInv, FlashDoes, Coming, typed' = typed
  PROVE  Coming'
<1>1. Draft \in Records /\ ~Idle
  BY DEF Records, FlashDoes, Idle
<1>2. PICK i \in Faces, f \in NewFaces :
        /\ f.slot = User => f.text \in {typed, Empty}
        /\ SaveOf(Draft, i, f)
  BY <1>1 DEF Coming
<1>3. /\ todo' = <<>> \/ SaveOf(Draft, i, f)'
      /\ todo' = <<>> => flash'[Draft][i] = f
  BY <1>1, <1>2, SaveDoes
<1>4. CASE todo' = <<>>
  <2>1. PICK g \in Face : SaveStep(Draft, i, f, g)
    BY <1>1, <1>2, SaveDoes
  <2>2. flash'[Draft][Other(i)] = flash[Draft][Other(i)]
    BY <1>1, <2>1, FaceWritten DEF SaveStep
  <2>3. Leads(flash'[Draft], i)
    BY <1>2, <1>3, <1>4, <2>2, FaceFacts DEF SaveOf, Leads
  <2> QED
    BY <1>2, <1>3, <1>4, <2>3 DEF Coming, Idle
<1> QED
  BY <1>2, <1>3, <1>4 DEF Coming

(* While flash works and power stays: the Playground's parked draft is     *)
(* what was last typed there, or it is being replaced or forgotten, or the *)
(* document on the screen is newer and will replace it.                    *)
DraftSafe ==
  /\ doc.live /\ doc.changed /\ doc.slot = User => doc.text \in {typed, Empty}
  /\ ed = "ready" => \/ Fits(flash[Draft], typed)
                     \/ screen = "code" /\ doc.live /\ doc.changed
  /\ ed = "running" => Fits(flash[Draft], typed)
  /\ ed \in {"retiring", "runRetiring"} => Going(todo, flash[Draft])
  /\ ed = "closing" => Going(todo, flash[Draft]) \/ Coming
  /\ ed = "resetting" => \/ Going(todo, flash[Draft])
                         \/ /\ Fits(flash[Draft], typed)
                            /\ todo \in Seq(SlotErases)

DraftInv == cuts = 0 /\ faults = "none" => DraftSafe

LEMMA LeavingCounts ==
  ASSUME NEW d
  PROVE  LeaveEditor(d) => cuts' = cuts
BY DEF LeaveEditor, Close, DraftSaveCall, DraftClearCall, Called, storeVars

LEMMA NextCounts ==
  ASSUME TypeOK, [Next]_vars, cuts' = 0, faults' = "none"
  PROVE  cuts = 0 /\ faults = "none" /\ ~PowerLost /\ ~StoreFails
<1>1. cuts \in Nat /\ faults \in {"none", "now", "past"}
  BY StoreAssumption DEF TypeOK, StoreTypeOK
<1>10. ~PowerLost /\ ~StoreFails
  BY <1>1 DEF PowerLost, PowerCut, StoreFails
<1>2. CASE UNCHANGED vars
  BY <1>1, <1>10, <1>2 DEF vars, storeVars, editVars
<1>3. CASE CodeOpen \/ OpenEditor \/ TutorialOpen
  BY <1>1, <1>10, <1>3
     DEF CodeOpen, OpenEditor, TutorialOpen, OpenSlot, storeVars
<1>4. CASE \/ \E t \in Texts : Type(t)
           \/ New \/ Closed \/ BeginRun \/ EndRun \/ ResetDone
  BY <1>1, <1>10, <1>4
     DEF Type, New, Closed, BeginRun, EndRun, ResetDone, storeVars
<1>5. CASE Saved \/ Retired \/ Quit
  BY <1>1, <1>10, <1>5, LeavingCounts
     DEF Saved, Retired, Quit, DraftClearCall, Called, storeVars
<1>6. CASE GoHome
  BY <1>1, <1>10, <1>6 DEF GoHome, Close, DraftSaveCall, DraftClearCall, Called,
                    storeVars
<1>7. CASE \/ \E q \in BOOLEAN : Save(q)
           \/ Run \/ RunSaved \/ \E s \in Chapters : Reset(s)
  BY <1>1, <1>10, <1>7 DEF Save, Run, RunSaved, Reset, SaveCall, DraftClearCall,
                    ClearCall, Called, storeVars
<1>8. CASE Store
  BY <1>1, <1>10, <1>8 DEF Store, FlashDoes, editVars
<1>9. CASE StoreFails \/ PowerLost
  BY <1>9, <1>10
<1> QED
  BY <1>2, <1>3, <1>4, <1>5, <1>6, <1>7, <1>8, <1>9, <1>10 DEF Next

LEMMA DraftNext ==
  ASSUME EditInv, ShapeInv, RunInv, DraftInv, [Next]_vars
  PROVE  DraftInv'
<1> SUFFICES ASSUME cuts' = 0, faults' = "none" PROVE DraftSafe'
  BY DEF DraftInv
<1>1. /\ doc \in Doc /\ ed \in Steps /\ StoreInv /\ TypeOK
      /\ screen \in {"home", "code", "reading", "writing"}
      /\ doc.slot \in Slots /\ doc.text \in Written
  BY DEF EditInv, TypeOK, Doc
<1>2. /\ DraftSafe /\ faults = "none" /\ SlotHolds
      /\ ~PowerLost /\ ~StoreFails
  BY <1>1, NextCounts DEF DraftInv, RunInv
<1>3. CASE UNCHANGED vars
  BY <1>2, <1>3 DEF vars, storeVars, editVars, DraftSafe, Coming, SaveOf, Idle
<1>4. CASE CodeOpen \/ OpenEditor
  <2>1. PICK s \in Slots, live \in BOOLEAN :
          /\ doc' = Opened(s, live) /\ ed' = "ready"
          /\ UNCHANGED <<storeVars, typed>>
          /\ Fits(flash[Draft], typed)
    BY <1>1, <1>2, <1>4, EditAssumption
       DEF CodeOpen, OpenEditor, OpenSlot, Buffers, Chapters, Ready, ShapeInv,
           DraftSafe
  <2>2. doc'.changed /\ doc'.slot = User => doc'.text = typed
    <3>1. SUFFICES ASSUME doc'.changed, doc'.slot = User
                   PROVE  doc'.text = typed
      OBVIOUS
    <3>2. s = User /\ Bytes(DraftLoad(s)) /\ doc'.text = DraftLoad(s)
      BY <2>1, <3>1 DEF Opened
    <3> QED
      BY <2>1, <3>2, DraftIs DEF Fits
  <2> QED
    BY <2>1, <2>2 DEF storeVars, DraftSafe
<1>5. CASE TutorialOpen
  BY <1>2, <1>5 DEF TutorialOpen, ShapeInv, storeVars, DraftSafe
<1>6. CASE \E t \in Texts : Type(t)
  <2>1. PICK t \in Texts :
          /\ doc' = [doc EXCEPT !.text = t, !.changed = TRUE]
          /\ typed' = (IF doc.slot = User THEN t ELSE typed)
          /\ Editing /\ doc.live /\ UNCHANGED <<storeVars, screen, ed>>
    BY <1>6 DEF Type
  <2>2. /\ doc'.live /\ doc'.changed /\ doc'.text = t /\ doc'.slot = doc.slot
        /\ ed = "ready" /\ screen \in {"code", "writing"}
    BY <1>1, <2>1 DEF Doc, Editing, Ready
  <2>3. screen = "writing" => doc.slot # User /\ Fits(flash[Draft], typed)
    BY <1>2, <2>2 DEF ShapeInv, DraftSafe
  <2> QED
    BY <2>1, <2>2, <2>3 DEF storeVars, DraftSafe
<1>7. CASE New
  <2>1. /\ doc' = [doc EXCEPT !.text = Empty, !.changed = TRUE,
                               !.stored = FALSE]
        /\ typed' = (IF doc.live /\ doc.slot = User THEN None ELSE typed)
        /\ Editing /\ UNCHANGED <<storeVars, screen, ed>>
    BY <1>7 DEF New
  <2>2. /\ doc'.live = doc.live /\ doc'.changed /\ doc'.text = Empty
        /\ doc'.slot = doc.slot
        /\ ed = "ready" /\ screen \in {"code", "writing"}
    BY <1>1, <2>1 DEF Doc, Editing, Ready
  <2>3. ~(screen = "code" /\ doc.live)
          => typed' = typed /\ Fits(flash[Draft], typed)
    BY <1>2, <2>1, <2>2 DEF ShapeInv, DraftSafe
  <2> QED
    BY <2>1, <2>2, <2>3 DEF storeVars, DraftSafe
<1>8. CASE \E q \in BOOLEAN : Save(q)
  BY <1>2, <1>8 DEF Save, DraftSafe
<1>9. ASSUME ed \in {"saving", "runSaving"}, Idle
      PROVE  ok
  BY <1>2, <1>9, PendingDone DEF SlotHolds
<1>10. /\ ~Clean(doc).changed /\ Clean(doc).live = doc.live
       /\ ~GivenBack(doc).live /\ ~GivenBack(Clean(doc)).live
  BY <1>1 DEF Clean, GivenBack, Doc
<1>11. CASE Saved
  <2>1. doc' = Clean(doc) /\ DraftClearCall /\ ed' = "retiring"
    BY <1>9, <1>11 DEF Saved
  <2> QED
    BY <1>10, <2>1, GoingBegins DEF DraftSafe
<1>12. ASSUME LeaveEditor(doc), Idle, doc' = doc, typed' = typed,
              Fits(flash[Draft], typed) \/ (screen = "code" /\ doc.live)
       PROVE  DraftSafe'
  <2>1. CASE screen = "writing"
    BY <1>2, <1>12, <2>1 DEF LeaveEditor, storeVars, DraftSafe
  <2>2. CASE screen # "writing" /\ ~doc.live
    BY <1>2, <1>12, <2>2 DEF LeaveEditor, storeVars, DraftSafe
  <2>3. CASE screen # "writing" /\ doc.live /\ doc.changed
    <3>1. DraftSaveCall(doc.slot, doc.text) /\ ed' = "closing"
      BY <1>12, <2>3 DEF LeaveEditor, Close
    <3>2. Coming'
      BY <1>1, <1>2, <1>12, <2>3, <3>1, ComingBegins DEF DraftSafe
    <3> QED
      BY <1>2, <1>12, <3>1, <3>2 DEF DraftSafe
  <2>4. CASE screen # "writing" /\ doc.live /\ ~doc.changed
    <3>1. DraftClearCall /\ ed' = "closing"
      BY <1>12, <2>4 DEF LeaveEditor, Close
    <3> QED
      BY <1>2, <1>12, <3>1, GoingBegins DEF DraftSafe
  <2> QED
    BY <2>1, <2>2, <2>3, <2>4
<1>13. CASE Retired
  <2>1. Fits(flash[Draft], typed)
    <3>1. Going(<<>>, flash[Draft])
      BY <1>2, <1>13 DEF Retired, Idle, DraftSafe
    <3> QED
      BY <3>1, GoingDone
  <2>2. CASE quit
    BY <1>12, <1>13, <2>1, <2>2 DEF Retired
  <2>3. CASE ~quit
    BY <1>2, <1>13, <2>1, <2>3 DEF Retired, storeVars, DraftSafe
  <2> QED
    BY <2>2, <2>3
<1>14. CASE Quit
  BY <1>2, <1>12, <1>14 DEF Quit, Editing, Ready, DraftSafe
<1>15. CASE GoHome
  <2>1. CASE doc.live /\ doc.changed
    <3>1. DraftSaveCall(doc.slot, doc.text) /\ ed' = "closing" /\ doc' = doc
          /\ typed' = typed
      BY <1>15, <2>1 DEF GoHome, Close
    <3>2. Coming'
      BY <1>1, <1>2, <2>1, <3>1, ComingBegins DEF DraftSafe
    <3> QED
      BY <1>2, <3>1, <3>2 DEF DraftSafe
  <2>2. CASE doc.live /\ ~doc.changed
    <3>1. DraftClearCall /\ ed' = "closing" /\ doc' = doc /\ typed' = typed
      BY <1>15, <2>2 DEF GoHome, Close
    <3> QED
      BY <1>2, <3>1, GoingBegins DEF DraftSafe
  <2>3. CASE ~doc.live
    BY <1>2, <1>15, <2>3 DEF GoHome, Ready, storeVars, DraftSafe
  <2> QED
    BY <2>1, <2>2, <2>3
<1>16. CASE Closed
  <2>1. Fits(flash[Draft], typed)
    <3>1. Going(<<>>, flash[Draft]) \/ (Coming /\ Idle)
      BY <1>2, <1>16 DEF Closed, Idle, DraftSafe
    <3> QED
      BY <1>1, <3>1, GoingDone, ComingDone
  <2> QED
    BY <1>10, <1>16, <2>1 DEF Closed, storeVars, DraftSafe
<1>17. CASE Run
  <2>1. CASE doc.changed \/ ~doc.stored
    BY <1>2, <1>17, <2>1 DEF Run, DraftSafe
  <2>2. CASE ~(doc.changed \/ ~doc.stored)
    BY <1>2, <1>10, <1>17, <2>2
       DEF Run, Editing, Ready, storeVars, DraftSafe
  <2> QED
    BY <2>1, <2>2
<1>18. CASE RunSaved
  <2>1. doc' = Clean(doc) /\ DraftClearCall /\ ed' = "runRetiring"
    BY <1>9, <1>18 DEF RunSaved
  <2> QED
    BY <1>10, <2>1, GoingBegins DEF DraftSafe
<1>19. CASE BeginRun
  <2>1. Going(<<>>, flash[Draft])
    BY <1>2, <1>19 DEF BeginRun, Idle, DraftSafe
  <2>2. Fits(flash[Draft], typed)
    BY <2>1, GoingDone
  <2> QED
    BY <1>10, <1>19, <2>2 DEF BeginRun, storeVars, DraftSafe
<1>20. CASE EndRun
  <2>1. ~doc'.changed
    BY <1>1, <1>20 DEF EndRun, Doc
  <2> QED
    BY <1>2, <1>20, <2>1 DEF EndRun, storeVars, DraftSafe
<1>21. CASE \E s \in Chapters : Reset(s)
  <2>1. PICK s \in Chapters : Reset(s)
    BY <1>21
  <2>2. /\ ClearCall(s) /\ s \in Slots /\ ed' = "resetting" /\ doc' = doc
        /\ typed' = typed /\ Fits(flash[Draft], typed)
    BY <1>2, <2>1 DEF Reset, Chapters, Ready, DraftSafe
  <2> QED
    BY <1>2, <2>2, ClearErases DEF DraftSafe
<1>22. CASE ResetDone
  <2>1. Going(<<>>, flash[Draft]) \/ Fits(flash[Draft], typed)
    BY <1>2, <1>22 DEF ResetDone, Idle, DraftSafe
  <2>2. Fits(flash[Draft], typed)
    BY <2>1, GoingDone
  <2> QED
    BY <1>2, <1>22, <2>2 DEF ResetDone, storeVars, DraftSafe
<1>23. CASE Store
  <2>1. /\ FlashDoes /\ ~Idle /\ UNCHANGED <<ed, doc, typed, screen>>
    BY <1>23 DEF Store, FlashDoes, editVars, Idle
  <2>2. ed \notin {"ready", "running"}
    BY <2>1 DEF ShapeInv
  <2>3. Going(todo, flash[Draft]) => Going(todo', flash'[Draft])
    BY <1>1, <2>1, GoingDoes
  <2>4. Coming => Coming'
    BY <1>1, <2>1, ComingDoes
  <2>5. todo \in Seq(SlotErases)
          => todo' \in Seq(SlotErases) /\ flash'[Draft] = flash[Draft]
    BY <1>1, <2>1, SlotEraseDoes
  <2> QED
    BY <1>2, <2>1, <2>2, <2>3, <2>4, <2>5 DEF DraftSafe
<1> QED
  BY <1>2, <1>3, <1>4, <1>5, <1>6, <1>7, <1>8, <1>11, <1>13, <1>14, <1>15,
     <1>16, <1>17, <1>18, <1>19, <1>20, <1>21, <1>22, <1>23 DEF Next

(* codeedit.c, on code_close(): what is parked is not older than the       *)
(* record.  While flash has worked and power stayed, the Playground's      *)
(* draft, when there is one to restore, is what the person last had there. *)
THEOREM DraftTheorem == Spec => []DraftIsLatest
<1>1. Init => EditInv /\ ShapeInv /\ RunInv /\ DraftInv
  <2> SUFFICES ASSUME Init PROVE RunInv /\ DraftInv
    BY EditInvInit, ShapeInit
  <2>1. RunInv
    BY DEF Init, NoDoc, RunInv, SlotHolds
  <2>2. Going(<<>>, flash[Draft])
    BY FaceFacts, EmptySeq DEF Init, StoreInit, Going, Records
  <2>3. Fits(flash[Draft], typed)
    BY <2>2, GoingDone
  <2> QED
    BY <2>1, <2>3 DEF Init, NoDoc, DraftInv, DraftSafe
<1>2. EditInv /\ ShapeInv /\ RunInv /\ DraftInv /\ [Next]_vars
      => EditInv' /\ ShapeInv' /\ RunInv' /\ DraftInv'
  BY EditInvNext, ShapeNext, RunNext, DraftNext
<1>3. ShapeInv /\ DraftInv => DraftIsLatest
  BY DraftIs DEF ShapeInv, DraftInv, DraftSafe, DraftIsLatest, Ready, Fits
<1> QED
  BY <1>1, <1>2, <1>3, PTL DEF Spec
=============================================================================
