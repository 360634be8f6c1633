-------------------------- MODULE SysNotices_proofs --------------------------
(***************************************************************************)
(* Proofs about the notices and the timers, for any number of slots, of    *)
(* owners and of keys, any end of the order counter past the number of     *)
(* slots, and any bound on the time and the calls.                         *)
(*                                                                         *)
(* The operators of SysNotices are functions of the store, so the work is  *)
(* in lemmas about them: StoreInv says what every store has between two    *)
(* calls of the code's helpers, and each helper keeps it; Exact, the       *)
(* deadlines, is what schedule() restores at the end of a call.            *)
(*                                                                         *)
(* Two helpers go through the slots in a loop, which the model writes as a *)
(* recursive function.  The lemmas about those are inductions; they are    *)
(* done by the least counterexample, from the well-foundedness of < on the *)
(* natural numbers.                                                        *)
(***************************************************************************)
EXTENDS SysNotices, FiniteSetTheorems, WellFoundedInduction, TLAPS

(* A set of natural numbers that is not empty has a least element.         *)
LEMMA Least ==
  ASSUME NEW T, T \subseteq Nat, T # {}
  PROVE  \E n \in T : \A m \in T : n <= m
<1> DEFINE R == {p \in Nat \X Nat : p[1] < p[2]}
<1>1. R = OpToRel(<, Nat)
  BY DEF OpToRel
<1>2. IsWellFoundedOn(R, Nat)
  BY <1>1, NatLessThanWellFounded
<1> HIDE DEF R
<1>3. PICK n \in T : \A m \in T : ~(<<m, n>> \in R)
  BY <1>2, WFMin
<1>4. ASSUME NEW m \in T PROVE n <= m
  <2>1. m \in Nat /\ n \in Nat /\ <<m, n>> \in Nat \X Nat
    OBVIOUS
  <2>2. ~(<<m, n>>[1] < <<m, n>>[2])
    BY <1>3, <2>1 DEF R
  <2> QED
    BY <2>1, <2>2
<1> QED
  BY <1>4

(* Induction over the rounds of a loop: a set of round numbers that has    *)
(* the first, and each with the one before it, has them all.               *)
LEMMA AllRounds ==
  ASSUME NEW N \in Nat, NEW T, T \subseteq 0 .. N, 0 \in T,
         \A n \in 1 .. N : n - 1 \in T => n \in T
  PROVE  T = 0 .. N
<1> SUFFICES ASSUME T # 0 .. N PROVE FALSE
  OBVIOUS
<1> DEFINE U == (0 .. N) \ T
<1>1. U \subseteq Nat /\ U # {}
  <2>1. U # {}
    OBVIOUS
  <2>2. U \subseteq Nat
    OBVIOUS
  <2> QED
    BY <2>1, <2>2
<1>2. PICK n \in U : \A m \in U : n <= m
  BY <1>1, Least
<1>3. n # 0 /\ n \in 1 .. N /\ n - 1 \in 0 .. N
  BY <1>2
<1>4. n - 1 \in T
  BY <1>2, <1>3
<1> QED
  BY <1>2, <1>3, <1>4

LEMMA MinOfIs ==
  ASSUME NEW S, S \subseteq Nat, S # {}
  PROVE  MinOf(S) \in S /\ \A y \in S : MinOf(S) <= y
  BY Least DEF MinOf

(* The slots are finitely many, and so is any set of them.                 *)
LEMMA Sizes ==
  /\ NWaiting \in Nat /\ NTimers \in Nat /\ MaxTime \in Nat /\ OrderMax \in Nat
  /\ NWaiting + 1 < OrderMax
  /\ IsFiniteSet(Slots) /\ Cardinality(Slots) = NWaiting + 1
<1>1. IsFiniteSet(1 .. NWaiting + 1)
      /\ Cardinality(1 .. NWaiting + 1) = NWaiting + 1
  <2>1. 1 \in Int /\ NWaiting + 1 \in Int /\ ~(1 > NWaiting + 1)
    BY NoticeAssumption
  <2>2. NWaiting + 1 - 1 + 1 = NWaiting + 1
    BY NoticeAssumption
  <2> QED
    BY <2>1, <2>2, FS_Interval
<1> QED
  BY <1>1, NoticeAssumption DEF Slots

LEMMA SomeSlots ==
  ASSUME NEW S, S \subseteq Slots
  PROVE  /\ IsFiniteSet(S) /\ Cardinality(S) \in Nat
         /\ Cardinality(S) <= NWaiting + 1
  BY Sizes, FS_Subset, FS_CardinalityType

-----------------------------------------------------------------------------
(* What every store has.                                                   *)

Store ==
  [records : [Slots -> Notice], next_order : 0 .. OrderMax,
   deadline : 0 .. Never, changed : BOOLEAN,
   active_slot : 0 .. NWaiting + 1, before : SUBSET (Slots \X Slots)]

Used(s) == InPhase(s, Phases \ {"free"})

(* The order numbers are different and the counter is past them.           *)
Ordered(s) ==
  /\ \A i \in Used(s) : s.records[i].order \in 1 .. s.next_order
  /\ \A i, j \in Used(s) :
       s.records[i].order = s.records[j].order => i = j

InLine(s) ==
  \A i, j \in Slots :
    <<i, j>> \in s.before <=> /\ {i, j} \subseteq InPhase(s, {"queued"})
                              /\ s.records[i].order < s.records[j].order

OneActive(s) == \A i, j \in InPhase(s, {"active"}) : i = j

StoreInv(s) == s \in Store /\ Ordered(s) /\ InLine(s) /\ OneActive(s)

-----------------------------------------------------------------------------
(* A renumbering changes order numbers only.                               *)
Renumbered(s, o) ==
  /\ o \in Store /\ o.before = s.before /\ o.changed = s.changed
  /\ o.deadline = s.deadline /\ o.active_slot = s.active_slot
  /\ \A i \in Slots :
       /\ o.records[i].phase = s.records[i].phase
       /\ o.records[i].owner = s.records[i].owner
       /\ o.records[i].key = s.records[i].key
       /\ o.records[i].wake = s.records[i].wake
       /\ o.records[i].expires = s.records[i].expires

LEMMA SamePhases ==
  ASSUME NEW s, NEW o, Renumbered(s, o), NEW P
  PROVE  InPhase(o, P) = InPhase(s, P)
  BY DEF Renumbered, InPhase

(* The rank of a notice among those used: how many come before it.         *)
Before(s, i) == {j \in Used(s) : s.records[j].order < s.records[i].order}

LEMMA Ranks ==
  ASSUME NEW s, s \in Store, Ordered(s), NEW i \in Used(s)
  PROVE  /\ Cardinality(Before(s, i)) \in Nat
         /\ Cardinality(Before(s, i)) < Cardinality(Used(s))
         /\ \A j \in Used(s) :
              s.records[i].order < s.records[j].order
                <=> Cardinality(Before(s, i)) < Cardinality(Before(s, j))
<1> DEFINE ord(k) == s.records[k].order
<1>1. /\ Used(s) \subseteq Slots
      /\ \A k \in Slots : ord(k) \in Nat
  <2>1. \A k \in Slots : s.records[k] \in Notice
    BY DEF Store
  <2>2. \A k \in Slots : s.records[k].order \in 0 .. OrderMax
    BY <2>1 DEF Notice
  <2> QED
    BY <2>2, Sizes DEF Used, InPhase
<1>2. IsFiniteSet(Used(s)) /\ Cardinality(Used(s)) \in Nat
  BY <1>1, SomeSlots
<1>3. ASSUME NEW k \in Used(s), NEW T, T \subseteq Used(s), k \in T,
             \A j \in Before(s, k) : j \in T
      PROVE  /\ Cardinality(Before(s, k)) \in Nat
             /\ Cardinality(T) \in Nat
             /\ Cardinality(Before(s, k)) < Cardinality(T)
  <2>1. Before(s, k) \subseteq T /\ k \notin Before(s, k)
    BY <1>1, <1>3 DEF Before
  <2>2. IsFiniteSet(T) /\ Cardinality(T) \in Nat
    BY <1>1, <1>3, SomeSlots
  <2>3. /\ Cardinality(Before(s, k)) <= Cardinality(T)
        /\ Cardinality(T) = Cardinality(Before(s, k)) => T = Before(s, k)
    BY <2>1, <2>2, FS_Subset
  <2>4. Before(s, k) \subseteq Slots
    BY <2>1, <1>3, <1>1
  <2>5. Cardinality(Before(s, k)) \in Nat
    BY <2>4, SomeSlots
  <2>6. T # Before(s, k)
    BY <2>1, <1>3
  <2> HIDE DEF ord
  <2> QED
    BY <2>2, <2>3, <2>5, <2>6
<1>4. ASSUME NEW j \in Used(s), NEW k \in Used(s), ord(j) < ord(k)
      PROVE  /\ Cardinality(Before(s, j)) \in Nat
             /\ Cardinality(Before(s, k)) \in Nat
             /\ Cardinality(Before(s, j)) < Cardinality(Before(s, k))
  <2>1. j \in Before(s, k) /\ Before(s, k) \subseteq Used(s)
    BY <1>4 DEF Before
  <2>2. \A m \in Before(s, j) : m \in Before(s, k)
    BY <1>1, <1>4 DEF Before
  <2> QED
    BY <1>3, <2>1, <2>2
<1>6. /\ Cardinality(Before(s, i)) \in Nat
      /\ Cardinality(Before(s, i)) < Cardinality(Used(s))
  <2>1. \A j \in Before(s, i) : j \in Used(s)
    BY DEF Before
  <2> QED
    BY <2>1, <1>3
<1>5. ASSUME NEW j \in Used(s)
      PROVE  ord(i) < ord(j)
               <=> Cardinality(Before(s, i)) < Cardinality(Before(s, j))
  <2>1. CASE ord(i) < ord(j)
    BY <2>1, <1>4
  <2>2. CASE ord(j) < ord(i)
    <3>1. /\ Cardinality(Before(s, i)) \in Nat
          /\ Cardinality(Before(s, j)) \in Nat
          /\ Cardinality(Before(s, j)) < Cardinality(Before(s, i))
      BY <2>2, <1>4
    <3>2. ~(ord(i) < ord(j))
      BY <2>2, <1>1
    <3>3. ~(Cardinality(Before(s, i)) < Cardinality(Before(s, j)))
      BY <3>1
    <3> QED
      BY <3>2, <3>3
  <2>3. CASE ord(i) = ord(j)
    <3>1. i = j
      BY <2>3 DEF Ordered
    <3>2. Cardinality(Before(s, i)) \in Nat
      BY <1>6
    <3>3. ord(i) \in Nat
      BY <1>1
    <3> QED
      BY <3>1, <3>2, <3>3
  <2>4. ord(i) \in Nat /\ ord(j) \in Nat
    BY <1>1
  <2> QED
    BY <2>1, <2>2, <2>3, <2>4
<1> QED
  BY <1>5, <1>6

(* The compaction keeps the order, and leaves the counter below its end.   *)
LEMMA CompactedIs ==
  ASSUME NEW s, StoreInv(s)
  PROVE  /\ Renumbered(s, Compacted(s))
         /\ StoreInv(Compacted(s))
         /\ Compacted(s).next_order \in 0 .. OrderMax - 1
<1> DEFINE c == Compacted(s)
           u == Used(s)
<1>1. s \in Store /\ Ordered(s) /\ InLine(s) /\ OneActive(s)
  BY DEF StoreInv
<1>2. c = [s EXCEPT !.next_order = Cardinality(u),
                    !.records = [i \in Slots |-> [@[i] EXCEPT !.order =
                       IF i \notin u THEN 0
                       ELSE 1 + Cardinality(Before(s, i))]]]
  BY DEF Compacted, Used, Before
<1>3. u \subseteq Slots
  BY DEF Used, InPhase
<1>4. Cardinality(u) \in 0 .. OrderMax - 1
  BY <1>3, SomeSlots, Sizes
<1>5. \A i \in u : /\ 1 + Cardinality(Before(s, i)) \in 1 .. Cardinality(u)
                   /\ 1 + Cardinality(Before(s, i)) \in 0 .. OrderMax
  BY <1>1, <1>4, Ranks, Sizes
<1>6. \A i \in Slots : s.records[i] \in Notice
  BY <1>1 DEF Store
<1>7. \A i \in Slots :
        c.records[i] = [s.records[i] EXCEPT !.order =
                          IF i \notin u THEN 0
                          ELSE 1 + Cardinality(Before(s, i))]
  BY <1>1, <1>2 DEF Store
<1>8. /\ c.next_order = Cardinality(u) /\ c.before = s.before
      /\ c.changed = s.changed /\ c.deadline = s.deadline
      /\ c.active_slot = s.active_slot
      /\ DOMAIN c.records = Slots
  BY <1>1, <1>2 DEF Store
<1>9. \A i \in Slots :
        /\ c.records[i] \in Notice
        /\ c.records[i].phase = s.records[i].phase
        /\ c.records[i].owner = s.records[i].owner
        /\ c.records[i].key = s.records[i].key
        /\ c.records[i].wake = s.records[i].wake
        /\ c.records[i].expires = s.records[i].expires
        /\ i \in u => c.records[i].order = 1 + Cardinality(Before(s, i))
  <2> TAKE i \in Slots
  <2> DEFINE r == s.records[i]
             n == IF i \notin u THEN 0 ELSE 1 + Cardinality(Before(s, i))
  <2>1. n \in 0 .. OrderMax
    BY <1>5, Sizes
  <2>2. r \in Notice /\ c.records[i] = [r EXCEPT !.order = n]
    BY <1>6, <1>7
  <2>3. i \in u => n = 1 + Cardinality(Before(s, i))
    OBVIOUS
  <2> HIDE DEF c, n, u, r
  <2>4. /\ c.records[i] \in Notice
        /\ c.records[i].order = n
        /\ c.records[i].phase = r.phase
        /\ c.records[i].owner = r.owner
        /\ c.records[i].key = r.key
        /\ c.records[i].wake = r.wake
        /\ c.records[i].expires = r.expires
    BY <2>1, <2>2 DEF Notice
  <2> QED
    BY <2>3, <2>4 DEF r
<1>10. c \in Store
  <2>1. c = [records |-> c.records, next_order |-> c.next_order,
             deadline |-> c.deadline, changed |-> c.changed,
             active_slot |-> c.active_slot, before |-> c.before]
    BY <1>1, <1>2 DEF Store
  <2>2. c.records \in [Slots -> Notice]
    <3>1. c.records = [i \in Slots |-> c.records[i]]
      BY <1>1, <1>2 DEF Store
    <3> HIDE DEF c
    <3> QED
      BY <3>1, <1>9
  <2>3. Cardinality(u) \in 0 .. OrderMax
    BY <1>4, Sizes
  <2>4. /\ s.deadline \in 0 .. Never /\ s.changed \in BOOLEAN
        /\ s.active_slot \in 0 .. NWaiting + 1
        /\ s.before \in SUBSET (Slots \X Slots)
    BY <1>1 DEF Store
  <2> HIDE DEF c, u
  <2> QED
    BY <2>1, <2>2, <2>3, <2>4, <1>8 DEF Store
<1>11. Renumbered(s, c)
  BY <1>8, <1>9, <1>10 DEF Renumbered
<1>12. \A P : InPhase(c, P) = InPhase(s, P)
  BY <1>11, SamePhases
<1>13. Used(c) = u
  BY <1>12 DEF Used
<1>14. \A i, j \in u : c.records[i].order < c.records[j].order
                         <=> s.records[i].order < s.records[j].order
  <2> TAKE i, j \in u
  <2>1. s.records[i].order < s.records[j].order
          <=> Cardinality(Before(s, i)) < Cardinality(Before(s, j))
    BY <1>1, Ranks
  <2>2. Cardinality(Before(s, i)) \in Nat /\ Cardinality(Before(s, j)) \in Nat
    BY <1>1, Ranks
  <2> QED
    BY <2>1, <2>2, <1>3, <1>9
<1>15. \A i \in u : s.records[i].order \in Nat
  <2> TAKE i \in u
  <2>1. s.records[i] \in Notice
    BY <1>3, <1>6
  <2> QED
    BY <2>1, Sizes DEF Notice
<1>16. \A i \in u : c.records[i].order \in 1 .. c.next_order
  BY <1>3, <1>5, <1>8, <1>9
<1>17. Ordered(c)
  <2>1. ASSUME NEW i \in u, NEW j \in u,
               c.records[i].order = c.records[j].order
        PROVE  i = j
    <3>1. c.records[i].order \in Nat
      BY <1>16
    <3>2. ~(c.records[i].order < c.records[j].order)
          /\ ~(c.records[j].order < c.records[i].order)
      BY <2>1, <3>1
    <3>3. ~(s.records[i].order < s.records[j].order)
          /\ ~(s.records[j].order < s.records[i].order)
      BY <3>2, <1>14
    <3>4. s.records[i].order = s.records[j].order
      BY <3>3, <1>15
    <3> QED
      BY <3>4, <1>1 DEF Ordered
  <2> HIDE DEF c
  <2> QED
    BY <2>1, <1>13, <1>16 DEF Ordered
<1>18. InLine(c)
  <2>1. \A i \in InPhase(s, {"queued"}) : i \in u
    BY DEF Used, InPhase, Phases
  <2>2. ASSUME NEW i \in Slots, NEW j \in Slots
        PROVE  <<i, j>> \in c.before
                 <=> /\ {i, j} \subseteq InPhase(c, {"queued"})
                     /\ c.records[i].order < c.records[j].order
    <3>1. <<i, j>> \in c.before
            <=> /\ {i, j} \subseteq InPhase(s, {"queued"})
                /\ s.records[i].order < s.records[j].order
      BY <1>1, <1>8 DEF InLine
    <3>2. InPhase(c, {"queued"}) = InPhase(s, {"queued"})
      BY <1>12
    <3>3. {i, j} \subseteq InPhase(s, {"queued"}) => i \in u /\ j \in u
      BY <2>1
    <3> QED
      BY <3>1, <3>2, <3>3, <1>14
  <2> HIDE DEF c
  <2> QED
    BY <2>2 DEF InLine
<1>19. OneActive(c)
  BY <1>1, <1>12 DEF OneActive
<1>20. c.next_order \in 0 .. OrderMax - 1
  BY <1>4, <1>8
<1> HIDE DEF c
<1> QED
  <2>1. StoreInv(c)
    BY <1>10, <1>17, <1>18, <1>19 DEF StoreInv
  <2> QED
    BY <2>1, <1>11, <1>20 DEF c

(* A fresh order number is past those in use.                              *)
LEMMA NextOrderIs ==
  ASSUME NEW s, StoreInv(s)
  PROVE  /\ Renumbered(s, NextOrder(s))
         /\ StoreInv(NextOrder(s))
         /\ NextOrder(s).next_order \in 1 .. OrderMax
         /\ \A i \in Used(NextOrder(s)) :
              NextOrder(s).records[i].order < NextOrder(s).next_order
<1> DEFINE c == IF s.next_order = OrderMax THEN Compacted(s) ELSE s
           o == NextOrder(s)
<1>1. /\ Renumbered(s, c) /\ StoreInv(c)
      /\ c.next_order \in 0 .. OrderMax - 1
  <2>1. CASE s.next_order = OrderMax
    BY <2>1, CompactedIs
  <2>2. CASE s.next_order # OrderMax
    <3>1. s \in Store
      BY DEF StoreInv
    <3>2. s.next_order \in 0 .. OrderMax - 1
      BY <2>2, <3>1, Sizes DEF Store
    <3> QED
      BY <2>2, <3>1, <3>2 DEF Renumbered
  <2> QED
    BY <2>1, <2>2
<1> HIDE DEF c
<1>2. o = [c EXCEPT !.next_order = @ + 1]
  BY DEF NextOrder, c
<1>3. c \in Store /\ Ordered(c) /\ InLine(c) /\ OneActive(c)
  BY <1>1 DEF StoreInv
<1>4. /\ o \in Store /\ o.next_order = c.next_order + 1
      /\ o.records = c.records /\ o.before = c.before
      /\ o.changed = c.changed /\ o.deadline = c.deadline
      /\ o.active_slot = c.active_slot
  <2>1. c.next_order + 1 \in 0 .. OrderMax
    BY <1>1, Sizes
  <2> HIDE DEF o
  <2> QED
    BY <2>1, <1>2, <1>3 DEF Store
<1> HIDE DEF o
<1>5. Renumbered(s, o)
  BY <1>1, <1>4 DEF Renumbered
<1>6. \A P : InPhase(o, P) = InPhase(c, P)
  BY <1>4 DEF InPhase
<1>7. Used(o) = Used(c)
  BY <1>6 DEF Used
<1>8. \A i \in Used(o) : /\ o.records[i].order \in 1 .. c.next_order
                         /\ o.records[i].order \in 1 .. o.next_order
                         /\ o.records[i].order < o.next_order
  BY <1>1, <1>3, <1>4, <1>7 DEF Ordered
<1>9. StoreInv(o)
  <2>1. Ordered(o)
    BY <1>3, <1>4, <1>7, <1>8 DEF Ordered
  <2>2. InLine(o)
    BY <1>3, <1>4, <1>6 DEF InLine
  <2>3. OneActive(o)
    BY <1>3, <1>6 DEF OneActive
  <2> QED
    BY <1>4, <2>1, <2>2, <2>3 DEF StoreInv
<1>10. o.next_order \in 1 .. OrderMax
  BY <1>1, <1>4, Sizes
<1> QED
  BY <1>5, <1>8, <1>9, <1>10 DEF o

(* A notice that joins the queue with a fresh number is its last.          *)
Joins(s, i, x) ==
  /\ \A j \in Used(s) : s.records[j].order < s.next_order
  /\ s.next_order \in 1 .. OrderMax
  /\ s.records[i].phase \in {"free", "snoozed"}
  /\ x \in Store /\ x.next_order = s.next_order
  /\ \A j \in Slots \ {i} : x.records[j] = s.records[j]
  /\ x.records[i].phase = "queued" /\ x.records[i].order = s.next_order
  /\ x.before = s.before \cup (InPhase(s, {"queued"}) \X {i})

LEMMA JoinKeeps ==
  ASSUME NEW s, StoreInv(s), NEW i \in Slots, NEW x, Joins(s, i, x)
  PROVE  StoreInv(x)
<1> USE DEF Joins
<1>1. s \in Store /\ Ordered(s) /\ InLine(s) /\ OneActive(s)
  BY DEF StoreInv
<1>2. \A j \in Used(x) \ {i} : j \in Used(s) /\ j \in Slots
  BY DEF Used, InPhase
<1>3. i \notin InPhase(s, {"queued"}) /\ i \notin InPhase(x, {"active"})
  BY DEF InPhase
<1>4. \A j \in Slots : s.records[j].order \in Nat
  <2> TAKE j \in Slots
  <2>1. s.records[j] \in Notice
    BY <1>1 DEF Store
  <2> QED
    BY <2>1, Sizes DEF Notice
<1>5. \A j \in Slots \ {i} : j \in InPhase(x, {"queued"})
                               <=> j \in InPhase(s, {"queued"})
  BY DEF InPhase
<1>6. i \in InPhase(x, {"queued"}) /\ InPhase(s, {"queued"}) \subseteq Used(s)
  BY DEF InPhase, Used, Phases
<1>7. Ordered(x)
  <2>1. \A j \in Used(x) : x.records[j].order \in 1 .. x.next_order
    BY <1>1, <1>2 DEF Ordered, Used, InPhase
  <2>2. \A j \in Used(x) \ {i} : x.records[j].order # x.records[i].order
    <3> TAKE j \in Used(x) \ {i}
    <3>1. s.records[j].order < s.next_order /\ s.records[j].order \in Nat
      BY <1>2, <1>4
    <3> QED
      BY <3>1, <1>2
  <2> QED
    BY <1>1, <1>2, <2>1, <2>2 DEF Ordered
<1>8. InLine(x)
  <2> SUFFICES ASSUME NEW j \in Slots, NEW k \in Slots
               PROVE  <<j, k>> \in x.before
                        <=> /\ {j, k} \subseteq InPhase(x, {"queued"})
                            /\ x.records[j].order < x.records[k].order
    BY DEF InLine
  <2>1. <<j, k>> \in s.before
          <=> /\ {j, k} \subseteq InPhase(s, {"queued"})
              /\ s.records[j].order < s.records[k].order
    BY <1>1 DEF InLine
  <2>2. CASE j # i /\ k # i
    BY <2>1, <2>2, <1>5
  <2>3. CASE k = i /\ j # i
    <3>1. j \in InPhase(s, {"queued"}) => x.records[j].order
                                            < x.records[i].order
      BY <2>3, <1>6
    <3>2. <<j, i>> \notin s.before
      BY <2>1, <2>3, <1>3
    <3>3. j \in InPhase(s, {"queued"}) <=> j \in InPhase(x, {"queued"})
      BY <2>3, <1>5
    <3> QED
      BY <2>3, <3>1, <3>2, <3>3, <1>6
  <2>4. CASE j = i
    <3>1. <<j, k>> \notin x.before
      BY <2>1, <2>4, <1>3
    <3>2. k \in InPhase(x, {"queued"})
            => ~(x.records[i].order < x.records[k].order)
      <4>1. CASE k = i
        BY <4>1
      <4>2. CASE k # i /\ k \in InPhase(x, {"queued"})
        <5>1. k \in Used(s)
          BY <4>2, <1>5, <1>6
        <5>2. s.records[k].order < s.next_order
          BY <5>1
        <5>3. s.records[k].order \in Nat /\ s.next_order \in Nat
          BY <1>4
        <5> QED
          BY <4>2, <5>2, <5>3
      <4> QED
        BY <4>1, <4>2
    <3> QED
      BY <2>4, <3>1, <3>2
  <2> QED
    BY <2>2, <2>3, <2>4
<1>9. OneActive(x)
  <2>1. \A j \in InPhase(x, {"active"}) : j \in InPhase(s, {"active"})
    BY <1>3 DEF InPhase
  <2> QED
    BY <1>1, <2>1 DEF OneActive
<1> QED
  BY <1>7, <1>8, <1>9 DEF StoreInv

(* Notices that leave the queue, or leave altogether, leave the others in  *)
(* their order.                                                            *)
LEMMA LeaveKeeps ==
  ASSUME NEW s, StoreInv(s), NEW gone,
         NEW x, x \in Store, x.next_order = s.next_order,
         \A j \in Slots \ gone : x.records[j] = s.records[j],
         \A j \in Slots \cap gone :
           /\ x.records[j].phase # "queued"
           /\ x.records[j].phase = "free"
              \/ /\ s.records[j].phase # "free"
                 /\ x.records[j].order = s.records[j].order,
         x.before = Left(s, gone),
         OneActive(x)
  PROVE  StoreInv(x)
<1>1. s \in Store /\ Ordered(s) /\ InLine(s) /\ OneActive(s)
  BY DEF StoreInv
<1>2. \A j \in Used(x) : /\ j \in Used(s) /\ j \in Slots
                         /\ x.records[j].order = s.records[j].order
  BY <1>1 DEF Used, InPhase, Phases, Store, Notice
<1>3. Ordered(x)
  BY <1>1, <1>2 DEF Ordered
<1>4. InLine(x)
  <2> SUFFICES ASSUME NEW j \in Slots, NEW k \in Slots
               PROVE  <<j, k>> \in x.before
                        <=> /\ {j, k} \subseteq InPhase(x, {"queued"})
                            /\ x.records[j].order < x.records[k].order
    BY DEF InLine
  <2>1. <<j, k>> \in s.before
          <=> /\ {j, k} \subseteq InPhase(s, {"queued"})
              /\ s.records[j].order < s.records[k].order
    BY <1>1 DEF InLine
  <2>2. <<j, k>> \in x.before
          <=> <<j, k>> \in s.before /\ j \notin gone /\ k \notin gone
    BY DEF Left
  <2>3. \A m \in Slots : m \in InPhase(x, {"queued"})
          <=> m \in InPhase(s, {"queued"}) /\ m \notin gone
    BY DEF InPhase
  <2> QED
    BY <2>1, <2>2, <2>3
<1> QED
  BY <1>3, <1>4 DEF StoreInv

-----------------------------------------------------------------------------
(* schedule().                                                             *)

(* NoticeDue of any store.                                                 *)
Due(s, t) ==
  \/ \E i \in Slots : LET r == s.records[i] IN
       \/ r.phase = "snoozed" /\ r.wake <= t
       \/ r.phase \in {"queued", "active"} /\ r.expires \in 1 .. t
  \/ InPhase(s, {"queued"}) # {} /\ InPhase(s, {"active"}) = {}

(* The deadline is exact and the cached slot is the active notice's.       *)
Exact(s) ==
  /\ InPhase(s, {"active"}) = {s.active_slot} \ {0}
  /\ \A t \in Times : /\ Due(s, t) => s.deadline <= t
                      /\ s.deadline \in 1 .. t => Due(s, t)

LEMMA RecordTypes ==
  ASSUME NEW s, s \in Store, NEW i \in Slots
  PROVE  /\ s.records[i] \in Notice
         /\ s.records[i].order \in Nat /\ s.records[i].wake \in 0 .. MaxTime
         /\ s.records[i].expires \in 0 .. MaxTime
         /\ s.records[i].phase \in Phases
<1>1. s.records[i] \in Notice
  BY DEF Store
<1> QED
  BY <1>1, Sizes DEF Notice

Dues(s) ==
  {Never}
  \cup {s.records[i].wake : i \in InPhase(s, {"snoozed"})}
  \cup ({s.records[i].expires :
           i \in InPhase(s, {"active"}) \cup InPhase(s, {"queued"})} \ {0})

LEMMA ScheduledIs ==
  ASSUME NEW s, StoreInv(s)
  PROVE  /\ StoreInv(Scheduled(s)) /\ Exact(Scheduled(s))
         /\ Scheduled(s).records = s.records
         /\ Scheduled(s).changed = s.changed
<1> DEFINE x == Scheduled(s)
           active == InPhase(s, {"active"})
           queued == InPhase(s, {"queued"})
           slot == IF active = {} THEN 0
                   ELSE CHOOSE i \in active : \A j \in active : j <= i
           next == IF active = {} /\ queued # {} THEN 0 ELSE MinOf(Dues(s))
<1>1. s \in Store /\ Ordered(s) /\ InLine(s) /\ OneActive(s)
  BY DEF StoreInv
<1>2. x = [s EXCEPT !.active_slot = slot, !.deadline = next]
  BY DEF Scheduled, Dues
<1>3. active \subseteq Slots /\ \A i \in active : i \in Nat
  BY Sizes DEF InPhase, Slots
<1>4. active = {slot} \ {0} /\ slot \in 0 .. NWaiting + 1
  <2>1. CASE active = {}
    BY <2>1, Sizes
  <2>2. CASE active # {}
    <3>1. PICK a \in active : active = {a}
      BY <2>2, <1>1 DEF OneActive
    <3>2. \A j \in active : j <= a
      BY <3>1, <1>3
    <3>3. slot = a
      BY <2>2, <3>1, <3>2
    <3>4. a \in 1 .. NWaiting + 1
      BY <3>1, <1>3 DEF Slots
    <3> QED
      BY <3>1, <3>3, <3>4, Sizes
  <2> QED
    BY <2>1, <2>2
<1>5. /\ Dues(s) \subseteq 0 .. Never /\ Never \in Dues(s)
      /\ Never \in Nat /\ Dues(s) \subseteq Nat
  <2>1. Never \in Nat /\ \A n \in 0 .. MaxTime : n \in 0 .. Never
    BY Sizes DEF Never
  <2>2. \A i \in Slots : /\ s.records[i].wake \in 0 .. MaxTime
                         /\ s.records[i].expires \in 0 .. MaxTime
    BY <1>1, RecordTypes
  <2>3. \A i \in InPhase(s, {"snoozed"}) \cup active \cup queued : i \in Slots
    BY DEF InPhase
  <2>4. Dues(s) \subseteq 0 .. Never /\ Never \in Dues(s)
    BY <2>1, <2>2, <2>3 DEF Dues
  <2> QED
    BY <2>1, <2>4
<1>6. MinOf(Dues(s)) \in Dues(s) /\ \A d \in Dues(s) : MinOf(Dues(s)) <= d
  BY <1>5, MinOfIs
<1>7. next \in 0 .. Never
  BY <1>5, <1>6
<1> HIDE DEF slot, next, x
<1>8. /\ x \in Store /\ x.records = s.records /\ x.before = s.before
      /\ x.next_order = s.next_order /\ x.changed = s.changed
      /\ x.active_slot = slot /\ x.deadline = next
  BY <1>1, <1>2, <1>4, <1>7 DEF Store
<1>9. \A P : InPhase(x, P) = InPhase(s, P)
  BY <1>8 DEF InPhase
<1>10. StoreInv(x)
  <2>1. Used(x) = Used(s)
    BY <1>9 DEF Used
  <2>2. Ordered(x)
    BY <1>1, <1>8, <2>1 DEF Ordered
  <2>3. InLine(x)
    BY <1>1, <1>8, <1>9 DEF InLine
  <2>4. OneActive(x)
    BY <1>1, <1>9 DEF OneActive
  <2> QED
    BY <1>8, <2>2, <2>3, <2>4 DEF StoreInv
<1>11. ASSUME NEW t \in Times
       PROVE  (Due(x, t) => next <= t) /\ (next \in 1 .. t => Due(x, t))
  <2>1. t \in Nat /\ t < Never /\ 0 <= t
    BY Sizes DEF Times, Never
  <2>2. CASE active = {} /\ queued # {}
    <3>1. next = 0
      BY <2>2 DEF next
    <3> QED
      BY <3>1, <2>1
  <2>3. CASE ~(active = {} /\ queued # {})
    <3>1. next = MinOf(Dues(s))
      BY <2>3 DEF next
    <3>2. Due(x, t) <=> \E i \in Slots : LET r == s.records[i] IN
            \/ r.phase = "snoozed" /\ r.wake <= t
            \/ r.phase \in {"queued", "active"} /\ r.expires \in 1 .. t
      BY <2>3, <1>8, <1>9 DEF Due
    <3>3. Due(x, t) <=> \E d \in Dues(s) : d <= t
      <4>1. ASSUME Due(x, t) PROVE \E d \in Dues(s) : d <= t
        <5>1. PICK i \in Slots : LET r == s.records[i] IN
                \/ r.phase = "snoozed" /\ r.wake <= t
                \/ r.phase \in {"queued", "active"} /\ r.expires \in 1 .. t
          BY <4>1, <3>2
        <5>2. CASE s.records[i].phase = "snoozed"
                   /\ s.records[i].wake <= t
          <6>1. i \in InPhase(s, {"snoozed"})
            BY <5>2 DEF InPhase
          <6>2. s.records[i].wake \in Dues(s)
            BY <6>1 DEF Dues
          <6> QED
            BY <5>2, <6>2
        <5>3. CASE s.records[i].phase \in {"queued", "active"}
                   /\ s.records[i].expires \in 1 .. t
          <6>1. i \in active \cup queued
            BY <5>3 DEF InPhase
          <6>2. s.records[i].expires \in Dues(s)
            BY <5>3, <6>1 DEF Dues
          <6>3. s.records[i].expires <= t
            BY <5>3
          <6> QED
            BY <6>2, <6>3
        <5> QED
          BY <5>1, <5>2, <5>3
      <4>2. ASSUME NEW d \in Dues(s), d <= t PROVE Due(x, t)
        <5>1. d # Never
          BY <4>2, <2>1, <1>5
        <5>2. CASE \E i \in InPhase(s, {"snoozed"}) : d = s.records[i].wake
          BY <5>2, <4>2, <3>2 DEF InPhase
        <5>3. CASE d # 0 /\ \E i \in active \cup queued :
                              d = s.records[i].expires
          <6>1. PICK i \in active \cup queued : d = s.records[i].expires
            BY <5>3
          <6>2. i \in Slots /\ s.records[i].phase \in {"queued", "active"}
            BY <6>1 DEF InPhase
          <6>3. d \in 1 .. t
            BY <5>3, <4>2, <2>1, <1>5
          <6> QED
            BY <6>1, <6>2, <6>3, <3>2
        <5> QED
          BY <5>1, <5>2, <5>3 DEF Dues
      <4> QED
        BY <4>1, <4>2
    <3>4. next \in Nat /\ \A d \in Dues(s) : d \in Nat
      BY <3>1, <1>5, <1>6
    <3>5. (\E d \in Dues(s) : d <= t) <=> next <= t
      BY <3>1, <3>4, <1>6, <2>1
    <3> QED
      BY <3>3, <3>4, <3>5, <2>1
  <2> QED
    BY <2>2, <2>3
<1>12. Exact(x)
  BY <1>4, <1>8, <1>9, <1>11 DEF Exact
<1> QED
  BY <1>8, <1>10, <1>12 DEF x

-----------------------------------------------------------------------------
(* The helpers that change a notice.                                       *)

LEMMA FreeNoticeType == FreeNotice \in Notice
  BY Sizes DEF FreeNotice, Notice, Phases, Nobody

(* No notice becomes active that was not.                                  *)
LEMMA StillOneActive ==
  ASSUME NEW s, OneActive(s), NEW x,
         \A j \in Slots : x.records[j].phase = "active"
                            => s.records[j].phase = "active"
  PROVE  OneActive(x)
  BY DEF OneActive, InPhase

LEMMA ClearedIs ==
  ASSUME NEW s, StoreInv(s), NEW i \in Slots
  PROVE  StoreInv(Cleared(s, i))
<1> DEFINE x == Cleared(s, i)
<1>1. s \in Store /\ OneActive(s)
  BY DEF StoreInv
<1>2. /\ x.records = [s.records EXCEPT ![i] = FreeNotice]
      /\ x.before = Left(s, {i}) /\ x.next_order = s.next_order
  BY <1>1 DEF Cleared, Store
<1>3. x \in Store
  <2>1. Left(s, {i}) \in SUBSET (Slots \X Slots)
    BY <1>1 DEF Left, Store
  <2>2. [s.records EXCEPT ![i] = FreeNotice] \in [Slots -> Notice]
    BY <1>1, FreeNoticeType DEF Store
  <2> QED
    BY <1>1, <2>1, <2>2 DEF Cleared, Store
<1> HIDE DEF x
<1>4. /\ \A j \in Slots \ {i} : x.records[j] = s.records[j]
      /\ x.records[i] = FreeNotice
  BY <1>1, <1>2 DEF Store
<1>5. FreeNotice.phase = "free"
  BY DEF FreeNotice
<1>6. OneActive(x)
  BY <1>1, <1>4, <1>5, StillOneActive
<1>7. \A j \in Slots \cap {i} :
        /\ x.records[j].phase # "queued"
        /\ x.records[j].phase = "free"
           \/ /\ s.records[j].phase # "free"
              /\ x.records[j].order = s.records[j].order
  BY <1>4, <1>5
<1>8. /\ x.next_order = s.next_order /\ x.before = Left(s, {i})
      /\ \A j \in Slots \ {i} : x.records[j] = s.records[j]
  BY <1>2, <1>4
<1>9. StoreInv(x)
  BY <1>3, <1>6, <1>7, <1>8, LeaveKeeps
<1> QED
  BY <1>9 DEF x

LEMMA PostedIs ==
  ASSUME NEW s, StoreInv(s), CanPost(s), NEW owner \in Owners \cup {Nobody},
         NEW key \in Keys \cup {0}, NEW expiry \in 0 .. MaxTime
  PROVE  StoreInv(Posted(s, owner, key, expiry))
         /\ Exact(Posted(s, owner, key, expiry))
<1> DEFINE i == MinOf(InPhase(s, {"free"}))
           o == NextOrder(s)
           r == [FreeNotice EXCEPT !.phase = "queued", !.owner = owner,
                   !.key = key, !.order = o.next_order, !.expires = expiry]
           x == [o EXCEPT !.records[i] = r, !.changed = TRUE,
                          !.before = Joined(s, i)]
<1>1. i \in Slots /\ s.records[i].phase = "free"
  <2>1. InPhase(s, {"free"}) \subseteq Nat /\ InPhase(s, {"free"}) # {}
    BY Sizes DEF InPhase, Slots, CanPost
  <2>2. i \in InPhase(s, {"free"})
    BY <2>1, MinOfIs
  <2> QED
    BY <2>2 DEF InPhase
<1>2. /\ Renumbered(s, o) /\ StoreInv(o) /\ o.next_order \in 1 .. OrderMax
      /\ \A j \in Used(o) : o.records[j].order < o.next_order
  BY NextOrderIs
<1>3. o \in Store /\ OneActive(o) /\ o.before = s.before
      /\ o.records[i].phase = "free"
  BY <1>1, <1>2 DEF StoreInv, Renumbered
<1>4. Posted(s, owner, key, expiry) = Scheduled(x)
  BY DEF Posted
<1> HIDE DEF i, o
<1>5. r \in Notice /\ r.phase = "queued" /\ r.order = o.next_order
  <2>1. o.next_order \in 0 .. OrderMax
    BY <1>2
  <2> QED
    BY <2>1, FreeNoticeType DEF Notice, Phases
<1>6. Joined(s, i) = o.before \cup (InPhase(o, {"queued"}) \X {i})
  BY <1>2, <1>3, SamePhases DEF Joined
<1>7. Joined(s, i) \in SUBSET (Slots \X Slots)
  BY <1>1, <1>3, <1>6 DEF Store, InPhase
<1> HIDE DEF r
<1>8. x \in Store
  <2>1. [o.records EXCEPT ![i] = r] \in [Slots -> Notice]
    BY <1>3, <1>5 DEF Store
  <2> QED
    BY <1>3, <1>7, <2>1 DEF Store
<1>9. /\ x.records = [o.records EXCEPT ![i] = r]
      /\ x.next_order = o.next_order
      /\ x.before = o.before \cup (InPhase(o, {"queued"}) \X {i})
  BY <1>3, <1>6 DEF Store
<1> HIDE DEF x
<1>10. /\ x.records[i] = r
       /\ \A j \in Slots \ {i} : x.records[j] = o.records[j]
  BY <1>1, <1>3, <1>9 DEF Store
<1>11. StoreInv(x)
  <2>1. /\ o.records[i].phase \in {"free", "snoozed"}
        /\ x.records[i].phase = "queued"
        /\ x.records[i].order = o.next_order
    BY <1>3, <1>5, <1>10
  <2>2. StoreInv(o) /\ \A j \in Used(o) : o.records[j].order < o.next_order
    BY <1>2
  <2>3. o.next_order \in 1 .. OrderMax
    BY <1>2
  <2>4. \A j \in Slots \ {i} : x.records[j] = o.records[j]
    BY <1>10
  <2>5. Joins(o, i, x)
    BY <1>8, <1>9, <2>1, <2>2, <2>3, <2>4 DEF Joins
  <2> QED
    BY <1>1, <2>2, <2>5, JoinKeeps
<1> QED
  BY <1>4, <1>11, ScheduledIs

LEMMA WokenIs ==
  ASSUME NEW s, StoreInv(s), NEW i \in Slots, NEW t
  PROVE  StoreInv(Woken(s, i, t))
<1> DEFINE o == NextOrder(s)
           r == [o.records[i] EXCEPT !.order = o.next_order,
                                     !.phase = "queued", !.wake = 0]
           x == [o EXCEPT !.records[i].order = o.next_order,
                          !.records[i].phase = "queued", !.records[i].wake = 0,
                          !.changed = TRUE, !.before = Joined(s, i)]
<1> SUFFICES ASSUME s.records[i].phase = "snoozed" /\ t >= s.records[i].wake
             PROVE  StoreInv(x)
  BY DEF Woken
<1>2. /\ Renumbered(s, o) /\ StoreInv(o) /\ o.next_order \in 1 .. OrderMax
      /\ \A j \in Used(o) : o.records[j].order < o.next_order
  BY NextOrderIs
<1>3. o \in Store /\ OneActive(o) /\ o.before = s.before
      /\ o.records[i].phase = "snoozed"
  BY <1>2 DEF StoreInv, Renumbered
<1> HIDE DEF o
<1>4. o.records[i] \in Notice
  BY <1>3, RecordTypes
<1>5. r \in Notice /\ r.phase = "queued" /\ r.order = o.next_order
  <2>1. o.next_order \in 0 .. OrderMax /\ 0 \in 0 .. MaxTime
    BY <1>2, Sizes
  <2> QED
    BY <2>1, <1>4 DEF Notice, Phases
<1>6. Joined(s, i) = o.before \cup (InPhase(o, {"queued"}) \X {i})
  BY <1>2, <1>3, SamePhases DEF Joined
<1>7. Joined(s, i) \in SUBSET (Slots \X Slots)
  BY <1>3, <1>6 DEF Store, InPhase
<1>8. /\ x.records = [o.records EXCEPT ![i] = r]
      /\ x.next_order = o.next_order
      /\ x.before = o.before \cup (InPhase(o, {"queued"}) \X {i})
      /\ x = [o EXCEPT !.records = [o.records EXCEPT ![i] = r],
                       !.changed = TRUE, !.before = Joined(s, i)]
  BY <1>3, <1>4, <1>6 DEF Store, Notice
<1> HIDE DEF r
<1>9. x \in Store
  <2>1. [o.records EXCEPT ![i] = r] \in [Slots -> Notice]
    BY <1>3, <1>5 DEF Store
  <2> QED
    BY <1>3, <1>7, <1>8, <2>1 DEF Store
<1> HIDE DEF x
<1>10. /\ x.records[i] = r
       /\ \A j \in Slots \ {i} : x.records[j] = o.records[j]
  BY <1>3, <1>8 DEF Store
<1>11. /\ o.records[i].phase \in {"free", "snoozed"}
       /\ x.records[i].phase = "queued"
       /\ x.records[i].order = o.next_order
  BY <1>3, <1>5, <1>10
<1>12. StoreInv(o) /\ \A j \in Used(o) : o.records[j].order < o.next_order
  BY <1>2
<1>13. o.next_order \in 1 .. OrderMax
  BY <1>2
<1>14. \A j \in Slots \ {i} : x.records[j] = o.records[j]
  BY <1>10
<1>15. Joins(o, i, x)
  BY <1>8, <1>9, <1>11, <1>12, <1>13, <1>14 DEF Joins
<1> QED
  BY <1>12, <1>15, JoinKeeps

LEMMA ExpiredIs ==
  ASSUME NEW s, StoreInv(s), NEW i \in Slots, NEW t
  PROVE  StoreInv(Expired(s, i, t))
  BY ClearedIs DEF Expired

-----------------------------------------------------------------------------
(* sys_notify_step().                                                      *)

(* g is the sequence of stores of the first n rounds of the loop.          *)
Sweeps(s, t, g, n) ==
  g = [i \in 0 .. n |-> IF i = 0 THEN s
                        ELSE Expired(Woken(g[i - 1], i, t), i, t)]

LEMMA SweepExists ==
  ASSUME NEW s, NEW t
  PROVE  \E g : Sweeps(s, t, g, NWaiting + 1)
<1> DEFINE N == NWaiting + 1
           T == {n \in 0 .. N : \E g : Sweeps(s, t, g, n)}
<1>1. N \in Nat
  BY Sizes
<1> HIDE DEF N
<1>2. 0 \in T
  <2>1. Sweeps(s, t, [i \in 0 .. 0 |-> s], 0)
    BY DEF Sweeps
  <2> QED
    BY <2>1, <1>1
<1>3. ASSUME NEW n \in 1 .. N, n - 1 \in T PROVE n \in T
  <2>1. PICK g : Sweeps(s, t, g, n - 1)
    BY <1>3
  <2> DEFINE h == [i \in 0 .. n |->
                     IF i = n THEN Expired(Woken(g[n - 1], n, t), n, t)
                     ELSE g[i]]
  <2>2. \A i \in 0 .. n :
          h[i] = IF i = 0 THEN s ELSE Expired(Woken(h[i - 1], i, t), i, t)
    BY <1>1, <2>1 DEF Sweeps
  <2>3. Sweeps(s, t, h, n)
    BY <2>2, <1>1 DEF Sweeps
  <2> QED
    BY <2>3
<1>4. T \subseteq 0 .. N
  OBVIOUS
<1> HIDE DEF T
<1>5. T = 0 .. N
  BY <1>1, <1>2, <1>3, <1>4, AllRounds
<1>6. N \in T
  BY <1>1, <1>5
<1> QED
  BY <1>6 DEF T, N

LEMMA SweptIs ==
  ASSUME NEW s, StoreInv(s), NEW t
  PROVE  StoreInv(Swept(s, t))
<1> DEFINE N == NWaiting + 1
           g == CHOOSE f : Sweeps(s, t, f, N)
           T == {n \in 0 .. N : StoreInv(g[n])}
<1>1. N \in Nat /\ Slots = 1 .. N
  BY Sizes DEF Slots
<1>2. Swept(s, t) = g[N]
  BY DEF Swept, Sweeps
<1>3. Sweeps(s, t, g, N)
  BY SweepExists
<1> HIDE DEF g, N
<1>4. \A n \in 0 .. N :
        g[n] = IF n = 0 THEN s ELSE Expired(Woken(g[n - 1], n, t), n, t)
  BY <1>3 DEF Sweeps
<1>5. 0 \in T
  BY <1>1, <1>4
<1>6. ASSUME NEW n \in 1 .. N, n - 1 \in T PROVE n \in T
  <2>1. g[n] = Expired(Woken(g[n - 1], n, t), n, t) /\ n \in 0 .. N
    BY <1>1, <1>4
  <2>2. StoreInv(g[n - 1]) /\ n \in Slots
    BY <1>1, <1>6
  <2>3. StoreInv(Woken(g[n - 1], n, t))
    BY <2>2, WokenIs
  <2>4. StoreInv(g[n])
    BY <2>1, <2>2, <2>3, ExpiredIs
  <2> QED
    BY <2>1, <2>4
<1>7. T \subseteq 0 .. N
  OBVIOUS
<1> HIDE DEF T
<1>8. T = 0 .. N
  BY <1>1, <1>5, <1>6, <1>7, AllRounds
<1>9. N \in T
  BY <1>1, <1>8
<1> QED
  BY <1>2, <1>9 DEF T

(* The first of a queue: the one with the least order number.              *)
LEMMA FirstIs ==
  ASSUME NEW s, s \in Store, NEW Q, Q \subseteq Slots, Q # {}
  PROVE  \E i \in Q : \A j \in Q : s.records[i].order <= s.records[j].order
<1> DEFINE T == {s.records[i].order : i \in Q}
<1>1. T \subseteq Nat
  BY RecordTypes
<1>2. T # {}
  OBVIOUS
<1>3. PICK n \in T : \A m \in T : n <= m
  BY <1>1, <1>2, Least
<1> QED
  BY <1>3

LEMMA ActivatedIs ==
  ASSUME NEW s, StoreInv(s)
  PROVE  StoreInv(Activated(s))
<1> DEFINE queued == InPhase(s, {"queued"})
           first == CHOOSE i \in queued : \A j \in queued :
                      s.records[i].order <= s.records[j].order
           x == [s EXCEPT !.records[first].phase = "active", !.changed = TRUE,
                          !.before = Left(s, {first})]
           r == [s.records[first] EXCEPT !.phase = "active"]
<1> SUFFICES ASSUME queued # {}, InPhase(s, {"active"}) = {}
             PROVE  StoreInv(x)
  BY DEF Activated
<1>1. s \in Store /\ OneActive(s)
  BY DEF StoreInv
<1>2. first \in Slots /\ s.records[first].phase = "queued"
  <2>1. queued \subseteq Slots
    BY DEF InPhase
  <2>2. first \in queued
    BY <1>1, <2>1, FirstIs
  <2> QED
    BY <2>2 DEF InPhase
<1> HIDE DEF first
<1>3. r \in Notice /\ r.phase = "active" /\ r.order = s.records[first].order
  <2>1. s.records[first] \in Notice
    BY <1>1, <1>2, RecordTypes
  <2> QED
    BY <2>1 DEF Notice, Phases
<1>4. /\ x.records = [s.records EXCEPT ![first] = r]
      /\ x.before = Left(s, {first}) /\ x.next_order = s.next_order
      /\ x = [s EXCEPT !.records = [s.records EXCEPT ![first] = r],
                       !.changed = TRUE, !.before = Left(s, {first})]
  BY <1>1, <1>2 DEF Store
<1> HIDE DEF r
<1>5. x \in Store
  <2>1. [s.records EXCEPT ![first] = r] \in [Slots -> Notice]
    BY <1>1, <1>3 DEF Store
  <2>2. Left(s, {first}) \in SUBSET (Slots \X Slots)
    BY <1>1 DEF Left, Store
  <2> QED
    BY <1>1, <1>4, <2>1, <2>2 DEF Store
<1> HIDE DEF x
<1>6. /\ \A j \in Slots \ {first} : x.records[j] = s.records[j]
      /\ x.records[first] = r
  BY <1>1, <1>2, <1>4 DEF Store
<1>7. OneActive(x)
  <2>1. \A j \in InPhase(x, {"active"}) : j = first
    BY <1>6 DEF InPhase
  <2> QED
    BY <2>1 DEF OneActive
<1>8. \A j \in Slots \cap {first} :
        /\ x.records[j].phase # "queued"
        /\ x.records[j].phase = "free"
           \/ /\ s.records[j].phase # "free"
              /\ x.records[j].order = s.records[j].order
  BY <1>2, <1>3, <1>6
<1>9. /\ x.next_order = s.next_order /\ x.before = Left(s, {first})
      /\ \A j \in Slots \ {first} : x.records[j] = s.records[j]
  BY <1>4, <1>6
<1> QED
  BY <1>5, <1>7, <1>8, <1>9, LeaveKeeps

LEMMA NotifyStepIs ==
  ASSUME NEW s, StoreInv(s), Exact(s), NEW t
  PROVE  StoreInv(NotifyStep(s, t)) /\ Exact(NotifyStep(s, t))
<1>1. StoreInv(Activated(Swept(s, t)))
  BY SweptIs, ActivatedIs
<1> QED
  BY <1>1, ScheduledIs DEF NotifyStep

LEMMA TakeChangedIs ==
  ASSUME NEW s, StoreInv(s), Exact(s)
  PROVE  StoreInv(TakeChanged(s)) /\ Exact(TakeChanged(s))
<1> DEFINE x == TakeChanged(s)
<1>1. s \in Store
  BY DEF StoreInv
<1>2. /\ x \in Store /\ x.records = s.records /\ x.before = s.before
      /\ x.next_order = s.next_order /\ x.deadline = s.deadline
      /\ x.active_slot = s.active_slot
  BY <1>1 DEF TakeChanged, Store
<1> HIDE DEF x
<1>3. \A P : InPhase(x, P) = InPhase(s, P)
  BY <1>2 DEF InPhase
<1>4. Used(x) = Used(s)
  BY <1>3 DEF Used
<1>5. StoreInv(x)
  BY <1>2, <1>3, <1>4 DEF StoreInv, Ordered, InLine, OneActive
<1>6. \A t : Due(x, t) <=> Due(s, t)
  BY <1>2, <1>3 DEF Due
<1>7. Exact(x)
  BY <1>2, <1>3, <1>6 DEF Exact
<1> QED
  BY <1>5, <1>7 DEF x

-----------------------------------------------------------------------------
(* The timers.                                                             *)

TimerStore == [records : [TimerSlots -> Timer], deadline : 0 .. Never]

(* TimerDue of any timers.                                                 *)
DueTimer(t, at) ==
  \E i \in TimerSlots : ~t.records[i].blocked /\ t.records[i].due \in 1 .. at

TimersExact(t) ==
  \A at \in Times : /\ DueTimer(t, at) => t.deadline <= at
                    /\ t.deadline \in 1 .. at => DueTimer(t, at)

LEMMA FreeTimerType == FreeTimer \in Timer
  BY Sizes DEF FreeTimer, Timer, Nobody

TimerDues(t) ==
  {Never} \cup {t.records[i].due : i \in {k \in TimerSlots :
                  t.records[k].due # 0 /\ ~t.records[k].blocked}}

LEMMA TimerScheduledIs ==
  ASSUME NEW t, t \in TimerStore
  PROVE  /\ TimerScheduled(t) \in TimerStore
         /\ TimersExact(TimerScheduled(t))
<1> DEFINE x == TimerScheduled(t)
           next == MinOf(TimerDues(t))
<1>1. x = [t EXCEPT !.deadline = next]
  BY DEF TimerScheduled, TimerDues
<1>2. /\ Never \in Nat
      /\ \A i \in TimerSlots : t.records[i].due \in 0 .. MaxTime
  BY Sizes DEF Never, TimerStore, Timer
<1>3. TimerDues(t) \subseteq 0 .. Never /\ Never \in TimerDues(t)
      /\ TimerDues(t) \subseteq Nat
  <2>1. \A n \in 0 .. MaxTime : n \in 0 .. Never
    BY Sizes DEF Never
  <2>2. TimerDues(t) \subseteq 0 .. Never
    BY <2>1, <1>2 DEF TimerDues
  <2>3. Never \in TimerDues(t)
    BY DEF TimerDues
  <2> QED
    BY <2>2, <2>3, <1>2
<1>4. next \in TimerDues(t) /\ \A d \in TimerDues(t) : next <= d
  BY <1>3, MinOfIs
<1> HIDE DEF next, x
<1>5. x \in TimerStore /\ x.records = t.records /\ x.deadline = next
  BY <1>1, <1>3, <1>4 DEF TimerStore
<1>6. ASSUME NEW at \in Times
      PROVE  /\ DueTimer(x, at) => next <= at
             /\ next \in 1 .. at => DueTimer(x, at)
  <2>1. at \in Nat /\ at < Never
    BY Sizes DEF Times, Never
  <2>2. ASSUME NEW i \in TimerSlots, ~t.records[i].blocked,
               t.records[i].due \in 1 .. at
        PROVE  next <= at
    <3>1. t.records[i].due \in TimerDues(t)
      BY <2>2 DEF TimerDues
    <3>2. next <= t.records[i].due /\ next \in Nat
      BY <3>1, <1>3, <1>4
    <3> QED
      BY <3>2, <2>1, <2>2
  <2>3. ASSUME next \in 1 .. at PROVE DueTimer(x, at)
    <3>1. next # Never
      BY <2>1, <2>3, <1>2
    <3>2. PICK i \in TimerSlots : /\ t.records[i].due # 0
                                  /\ ~t.records[i].blocked
                                  /\ next = t.records[i].due
      BY <3>1, <1>4 DEF TimerDues
    <3> QED
      BY <3>2, <2>3, <1>5 DEF DueTimer
  <2> QED
    BY <2>2, <2>3, <1>5 DEF DueTimer
<1> QED
  BY <1>5, <1>6 DEF TimersExact, x

(* What holds between two rounds of sys_timer_step().                      *)
RoundInv(st) ==
  /\ st \in [timers : TimerStore, notices : Store]
  /\ StoreInv(st.notices) /\ Exact(st.notices)

LEMMA TimerRoundIs ==
  ASSUME NEW st, RoundInv(st), NEW i \in TimerSlots, NEW at,
         NEW changed
  PROVE  RoundInv(TimerRound(st, i, at, changed))
<1> DEFINE r == st.timers.records[i]
           x == TimerRound(st, i, at, changed)
<1>1. /\ st \in [timers : TimerStore, notices : Store]
      /\ StoreInv(st.notices) /\ Exact(st.notices)
  BY DEF RoundInv
<1>2. r \in Timer /\ r.owner \in Owners \cup {Nobody}
  BY <1>1 DEF TimerStore, Timer
<1>3. CASE x = st
  BY <1>3
<1>4. CASE /\ CanPost(st.notices)
           /\ x = [timers  |-> [st.timers EXCEPT !.records[i] = FreeTimer],
                   notices |-> Posted(st.notices, r.owner, 0, 0)]
  <2>1. StoreInv(x.notices) /\ Exact(x.notices)
    <3>1. 0 \in Keys \cup {0} /\ 0 \in 0 .. MaxTime
      BY Sizes
    <3>2. /\ StoreInv(Posted(st.notices, r.owner, 0, 0))
          /\ Exact(Posted(st.notices, r.owner, 0, 0))
      BY <3>1, <1>1, <1>2, <1>4, PostedIs
    <3> QED
      BY <3>2, <1>4
  <2>2. [st.timers EXCEPT !.records[i] = FreeTimer] \in TimerStore
    BY <1>1, FreeTimerType DEF TimerStore
  <2>3. x.notices \in Store
    BY <2>1 DEF StoreInv
  <2>4. x \in [timers : TimerStore, notices : Store]
    BY <2>2, <2>3, <1>4
  <2> QED
    BY <2>1, <2>4 DEF RoundInv
<1>5. CASE x = [st EXCEPT !.timers.records[i].blocked = TRUE]
  <2>1. [r EXCEPT !.blocked = TRUE] \in Timer
    BY <1>2 DEF Timer
  <2>2. x.notices = st.notices
        /\ x.timers = [st.timers EXCEPT !.records[i] =
                         [r EXCEPT !.blocked = TRUE]]
        /\ x = [timers |-> x.timers, notices |-> x.notices]
    BY <1>1, <1>5 DEF TimerStore
  <2>3. x.timers \in TimerStore
    BY <2>1, <2>2, <1>1 DEF TimerStore
  <2>4. x.notices \in Store
    BY <2>2, <1>1
  <2> HIDE DEF x
  <2>5. x \in [timers : TimerStore, notices : Store]
    BY <2>2, <2>3, <2>4
  <2>6. RoundInv(x)
    BY <2>2, <2>5, <1>1 DEF RoundInv
  <2> QED
    BY <2>6 DEF x
<1>6. \/ x = st
      \/ /\ CanPost(st.notices)
         /\ x = [timers  |-> [st.timers EXCEPT !.records[i] = FreeTimer],
                 notices |-> Posted(st.notices, r.owner, 0, 0)]
      \/ x = [st EXCEPT !.timers.records[i].blocked = TRUE]
  BY Zenon DEF TimerRound
<1> QED
  BY <1>3, <1>4, <1>5, <1>6

(* f is the sequence of what the first n rounds of the loop leave.         *)
TimerRounds(both, at, changed, f, n) ==
  f = [i \in 0 .. n |-> IF i = 0 THEN both
                        ELSE TimerRound(f[i - 1], i, at, changed)]

LEMMA TimerRoundsExist ==
  ASSUME NEW both, NEW at, NEW changed
  PROVE  \E f : TimerRounds(both, at, changed, f, NTimers)
<1> DEFINE T == {n \in 0 .. NTimers :
                   \E f : TimerRounds(both, at, changed, f, n)}
<1>1. NTimers \in Nat
  BY Sizes
<1>2. 0 \in T
  <2>1. TimerRounds(both, at, changed, [i \in 0 .. 0 |-> both], 0)
    BY DEF TimerRounds
  <2> QED
    BY <2>1, <1>1
<1>3. ASSUME NEW n \in 1 .. NTimers, n - 1 \in T PROVE n \in T
  <2>1. PICK f : TimerRounds(both, at, changed, f, n - 1)
    BY <1>3
  <2> DEFINE h == [i \in 0 .. n |->
                     IF i = n THEN TimerRound(f[n - 1], n, at, changed)
                     ELSE f[i]]
  <2>2. \A i \in 0 .. n :
          h[i] = IF i = 0 THEN both ELSE TimerRound(h[i - 1], i, at, changed)
    BY <1>1, <2>1 DEF TimerRounds
  <2>3. TimerRounds(both, at, changed, h, n)
    BY <2>2, <1>1 DEF TimerRounds
  <2> QED
    BY <2>3
<1>4. T \subseteq 0 .. NTimers
  OBVIOUS
<1> HIDE DEF T
<1>5. T = 0 .. NTimers
  BY <1>1, <1>2, <1>3, <1>4, AllRounds
<1>6. NTimers \in T
  BY <1>1, <1>5
<1> QED
  BY <1>6 DEF T

LEMMA TimerStepIs ==
  ASSUME NEW t, t \in TimerStore, TimersExact(t),
         NEW s, StoreInv(s), Exact(s), NEW at, NEW changed
  PROVE  /\ RoundInv(TimerStep(t, s, at, changed))
         /\ TimersExact(TimerStep(t, s, at, changed).timers)
<1> DEFINE both == [timers |-> t, notices |-> s]
           g == CHOOSE f : TimerRounds(both, at, changed, f, NTimers)
           T == {n \in 0 .. NTimers : RoundInv(g[n])}
           x == TimerStep(t, s, at, changed)
<1>1. NTimers \in Nat /\ TimerSlots = 1 .. NTimers
  BY Sizes DEF TimerSlots
<1>2. x = IF ~changed /\ at < t.deadline THEN both
          ELSE [g[NTimers] EXCEPT !.timers = TimerScheduled(@)]
  BY DEF TimerStep, TimerRounds
<1>3. TimerRounds(both, at, changed, g, NTimers)
  BY TimerRoundsExist
<1>4. RoundInv(both) /\ both.timers = t
  <2>1. s \in Store
    BY DEF StoreInv
  <2> QED
    BY <2>1 DEF RoundInv
<1> HIDE DEF g, both, x
<1>5. \A n \in 0 .. NTimers :
        g[n] = IF n = 0 THEN both ELSE TimerRound(g[n - 1], n, at, changed)
  BY <1>3 DEF TimerRounds
<1>6. 0 \in T
  BY <1>1, <1>4, <1>5
<1>7. ASSUME NEW n \in 1 .. NTimers, n - 1 \in T PROVE n \in T
  <2>1. g[n] = TimerRound(g[n - 1], n, at, changed) /\ n \in 0 .. NTimers
    BY <1>1, <1>5
  <2>2. RoundInv(g[n - 1]) /\ n \in TimerSlots
    BY <1>1, <1>7
  <2>3. RoundInv(g[n])
    BY <2>1, <2>2, TimerRoundIs
  <2> QED
    BY <2>1, <2>3
<1>8. T \subseteq 0 .. NTimers
  OBVIOUS
<1>9. RoundInv(g[NTimers])
  <2> HIDE DEF T
  <2>1. T = 0 .. NTimers
    BY <1>1, <1>6, <1>7, <1>8, AllRounds
  <2>2. NTimers \in T
    BY <1>1, <2>1
  <2> QED
    BY <2>2 DEF T
<1>10. ASSUME x = both
       PROVE  RoundInv(x) /\ TimersExact(x.timers)
  BY <1>4, <1>10
<1>11. ASSUME x = [g[NTimers] EXCEPT !.timers = TimerScheduled(@)]
       PROVE  RoundInv(x) /\ TimersExact(x.timers)
  <2>1. g[NTimers] \in [timers : TimerStore, notices : Store]
    BY <1>9 DEF RoundInv
  <2>2. /\ x.notices = g[NTimers].notices
        /\ x.timers = TimerScheduled(g[NTimers].timers)
        /\ x = [timers |-> x.timers, notices |-> x.notices]
    BY <2>1, <1>11
  <2>3. x.timers \in TimerStore /\ TimersExact(x.timers)
    BY <2>1, <2>2, TimerScheduledIs
  <2>4. StoreInv(x.notices) /\ Exact(x.notices) /\ x.notices \in Store
    BY <2>1, <2>2, <1>9 DEF RoundInv
  <2>5. x \in [timers : TimerStore, notices : Store]
    BY <2>2, <2>3, <2>4
  <2> QED
    BY <2>3, <2>4, <2>5 DEF RoundInv
<1>12. x = both \/ x = [g[NTimers] EXCEPT !.timers = TimerScheduled(@)]
  BY <1>2
<1> QED
  BY <1>10, <1>11, <1>12 DEF x

-----------------------------------------------------------------------------
(* The specification.                                                      *)

NoticesInv ==
  /\ TypeOK
  /\ StoreInv(notices) /\ Exact(notices) /\ TimersExact(timers)

LEMMA InitInv == Init => NoticesInv
<1> SUFFICES ASSUME Init PROVE NoticesInv
  OBVIOUS
<1> USE DEF Init
<1>1. /\ notices.records = [i \in Slots |-> FreeNotice]
      /\ notices.before = {} /\ notices.deadline = 0
      /\ notices.active_slot = 0 /\ notices.next_order = 0
      /\ timers.records = [i \in TimerSlots |-> FreeTimer]
      /\ timers.deadline = 0
  OBVIOUS
<1>2. 0 \in 0 .. OrderMax /\ 0 \in 0 .. Never /\ 0 \in 0 .. NWaiting + 1
      /\ 0 \in 0 .. MaxCalls /\ 1 \in Times
  BY NoticeAssumption DEF Never, Times
<1>3. notices \in Store
  <2>1. [i \in Slots |-> FreeNotice] \in [Slots -> Notice]
    BY FreeNoticeType
  <2>2. {} \in SUBSET (Slots \X Slots)
    OBVIOUS
  <2> QED
    BY <2>1, <2>2, <1>2 DEF Store
<1>4. timers \in TimerStore
  <2>1. [i \in TimerSlots |-> FreeTimer] \in [TimerSlots -> Timer]
    BY FreeTimerType
  <2> QED
    BY <2>1, <1>2 DEF TimerStore
<1>5. TypeOK
  BY <1>2, <1>3, <1>4 DEF TypeOK, Store, TimerStore
<1>6. \A P : "free" \notin P => InPhase(notices, P) = {}
  BY <1>1 DEF InPhase, FreeNotice
<1>7. Used(notices) = {} /\ InPhase(notices, {"queued"}) = {}
      /\ InPhase(notices, {"active"}) = {}
  <2>1. /\ "free" \notin Phases \ {"free"} /\ "free" \notin {"queued"}
        /\ "free" \notin {"active"}
    OBVIOUS
  <2> QED
    BY <2>1, <1>6 DEF Used
<1>8. StoreInv(notices)
  BY <1>1, <1>3, <1>7 DEF StoreInv, Ordered, InLine, OneActive
<1>9. \A t : ~Due(notices, t)
  BY <1>1, <1>7 DEF Due, FreeNotice
<1>10. Exact(notices)
  <2>1. {0} \ {0} = {}
    OBVIOUS
  <2>2. \A t : ~(0 \in 1 .. t)
    OBVIOUS
  <2> QED
    BY <2>1, <2>2, <1>1, <1>7, <1>9 DEF Exact
<1>11. \A t : ~DueTimer(timers, t)
  <2> TAKE t
  <2>1. ~(0 \in 1 .. t)
    OBVIOUS
  <2> QED
    BY <2>1, <1>1 DEF DueTimer, FreeTimer
<1>12. TimersExact(timers)
  BY <1>1, <1>11 DEF TimersExact
<1> QED
  BY <1>5, <1>8, <1>10, <1>12 DEF NoticesInv

(* The types of the two stores are what TypeOK says of them.               *)
LEMMA TypesSplit ==
  TypeOK <=> /\ now \in Times /\ notices \in Store /\ timers \in TimerStore
             /\ calls \in 0 .. MaxCalls /\ frame \in BOOLEAN
  BY DEF TypeOK, Store, TimerStore

(* The part of the invariant that says what the stores have.               *)
StoresInv ==
  /\ StoreInv(notices) /\ Exact(notices)
  /\ timers \in TimerStore /\ TimersExact(timers)

LEMMA NextStores ==
  ASSUME StoreInv(notices'), Exact(notices'),
         timers' \in TimerStore, TimersExact(timers')
  PROVE  StoresInv'
  BY DEF StoresInv, StoreInv, Store, Ordered, InLine, OneActive,
     Used, InPhase, Exact, Due, TimerStore, TimersExact, DueTimer

LEMMA SameNotices ==
  ASSUME StoresInv, notices' = notices
  PROVE  StoreInv(notices') /\ Exact(notices')
  BY DEF StoresInv

LEMMA SameTimers ==
  ASSUME StoresInv, timers' = timers
  PROVE  timers' \in TimerStore /\ TimersExact(timers')
  BY DEF StoresInv

LEMMA PostKeeps ==
  ASSUME StoresInv, NEW owner \in Owners, NEW key \in Keys,
         NEW expiry \in {0, MaxTime}, Post(owner, key, expiry)
  PROVE  StoresInv'
<1>1. expiry \in 0 .. MaxTime /\ owner \in Owners \cup {Nobody}
      /\ key \in Keys \cup {0}
  BY Sizes
<1>2. /\ notices' = Posted(notices, owner, key, expiry)
      /\ timers' = timers /\ CanPost(notices)
  BY DEF Post
<1>3. StoreInv(notices') /\ Exact(notices')
  BY <1>1, <1>2, PostedIs DEF StoresInv
<1> QED
  BY <1>2, <1>3, SameTimers, NextStores

LEMMA CancelKeeps ==
  ASSUME StoresInv, NEW i \in Slots, Cancel(i)
  PROVE  StoresInv'
<1>1. notices' = Scheduled(Cleared(notices, i)) /\ timers' = timers
  BY DEF Cancel
<1>2. StoreInv(notices') /\ Exact(notices')
  BY <1>1, ClearedIs, ScheduledIs DEF StoresInv
<1> QED
  BY <1>1, <1>2, SameTimers, NextStores

LEMMA SnoozeKeeps ==
  ASSUME StoresInv, NEW i \in Slots, NEW wake \in Times, Snooze(i, wake)
  PROVE  StoresInv'
<1> DEFINE s == notices
           x == [s EXCEPT !.records[i].phase = "snoozed",
                          !.records[i].wake = wake, !.changed = TRUE]
           r == [s.records[i] EXCEPT !.phase = "snoozed", !.wake = wake]
<1>1. /\ notices' = Scheduled(x) /\ timers' = timers
      /\ s.records[i].phase = "active"
  BY DEF Snooze
<1>2. StoreInv(s) /\ s \in Store /\ InLine(s) /\ OneActive(s)
  BY DEF StoresInv, StoreInv
<1>3. /\ r \in Notice /\ r.phase = "snoozed"
      /\ r.order = s.records[i].order
  <2>1. s.records[i] \in Notice /\ wake \in 0 .. MaxTime
    BY <1>2, RecordTypes, Sizes DEF Times
  <2> QED
    BY <2>1 DEF Notice, Phases
<1> HIDE DEF s
<1>4. /\ x.records = [s.records EXCEPT ![i] = r]
      /\ x.before = s.before /\ x.next_order = s.next_order
      /\ x = [s EXCEPT !.records = [s.records EXCEPT ![i] = r],
                       !.changed = TRUE]
  BY <1>2 DEF Store, Notice
<1> HIDE DEF r
<1>5. x \in Store
  <2>1. [s.records EXCEPT ![i] = r] \in [Slots -> Notice]
    BY <1>2, <1>3 DEF Store
  <2> QED
    BY <1>2, <1>4, <2>1 DEF Store
<1> HIDE DEF x
<1>6. /\ \A j \in Slots \ {i} : x.records[j] = s.records[j]
      /\ x.records[i] = r
  BY <1>2, <1>4 DEF Store
<1>7. OneActive(x)
  <2>1. \A j \in Slots : x.records[j].phase = "active"
                           => s.records[j].phase = "active"
    BY <1>3, <1>6
  <2> QED
    BY <2>1, <1>2, StillOneActive
<1>8. \A j \in Slots \cap {i} :
        /\ x.records[j].phase # "queued"
        /\ x.records[j].phase = "free"
           \/ /\ s.records[j].phase # "free"
              /\ x.records[j].order = s.records[j].order
  BY <1>1, <1>3, <1>6
<1>9. x.before = Left(s, {i})
  <2>1. s.before \subseteq Slots \X Slots /\ i \notin InPhase(s, {"queued"})
    BY <1>1, <1>2 DEF Store, InPhase
  <2>2. ASSUME NEW p \in s.before PROVE p[1] # i /\ p[2] # i
    <3>1. p = <<p[1], p[2]>> /\ p[1] \in Slots /\ p[2] \in Slots
      BY <2>1
    <3>2. {p[1], p[2]} \subseteq InPhase(s, {"queued"})
      BY <3>1, <1>2 DEF InLine
    <3> QED
      BY <3>2, <2>1
  <2> QED
    BY <2>2, <1>4 DEF Left
<1>10. StoreInv(x)
  <2>1. /\ x.next_order = s.next_order
        /\ \A j \in Slots \ {i} : x.records[j] = s.records[j]
    BY <1>4, <1>6
  <2> QED
    BY <2>1, <1>2, <1>5, <1>7, <1>8, <1>9, LeaveKeeps
<1>11. StoreInv(notices') /\ Exact(notices')
  BY <1>1, <1>10, ScheduledIs
<1> QED
  BY <1>1, <1>11, SameTimers, NextStores

LEMMA TimerSetKeeps ==
  ASSUME StoresInv, NEW owner \in Owners, NEW due \in Times,
         TimerSet(owner, due)
  PROVE  StoresInv'
<1> DEFINE own   == {i \in TimerSlots : timers.records[i].due # 0
                                        /\ timers.records[i].owner = owner}
           free  == {i \in TimerSlots : timers.records[i].due = 0}
           slots == IF own # {} THEN own ELSE free
           set   == [FreeTimer EXCEPT !.owner = owner, !.due = due]
           i     == MinOf(slots)
           x     == [timers EXCEPT !.records[i] = set]
<1>1. /\ notices' = notices /\ timers' = TimerScheduled(x)
      /\ slots # {}
  BY DEF TimerSet
<1>2. set \in Timer
  <2>1. due \in 0 .. MaxTime /\ owner \in Owners \cup {Nobody}
    BY Sizes DEF Times
  <2> QED
    BY <2>1, FreeTimerType DEF Timer
<1> HIDE DEF set
<1>3. x \in TimerStore
  <2>1. timers \in TimerStore
    BY DEF StoresInv
  <2>2. [timers.records EXCEPT ![i] = set] \in [TimerSlots -> Timer]
    BY <2>1, <1>2 DEF TimerStore
  <2> HIDE DEF i
  <2> QED
    BY <2>1, <2>2 DEF TimerStore
<1>4. timers' \in TimerStore /\ TimersExact(timers')
  BY <1>1, <1>3, TimerScheduledIs
<1> QED
  BY <1>1, <1>4, SameNotices, NextStores

LEMMA TimerCancelKeeps ==
  ASSUME StoresInv, NEW owner \in Owners, TimerCancel(owner)
  PROVE  StoresInv'
<1>1. PICK i \in TimerSlots :
        timers' = TimerScheduled([timers EXCEPT !.records[i] = FreeTimer])
  BY DEF TimerCancel
<1>2. notices' = notices
  BY DEF TimerCancel
<1>3. [timers EXCEPT !.records[i] = FreeTimer] \in TimerStore
  BY FreeTimerType DEF StoresInv, TimerStore
<1>4. timers' \in TimerStore /\ TimersExact(timers')
  BY <1>1, <1>3, TimerScheduledIs
<1> QED
  BY <1>2, <1>4, SameNotices, NextStores

LEMMA ReleaseOwnerKeeps ==
  ASSUME StoresInv, NEW owner \in Owners, ReleaseOwner(owner)
  PROVE  StoresInv'
<1> DEFINE s == notices
           own == {i \in Slots : notices.records[i].owner = owner}
           ownTimers == {i \in TimerSlots : timers.records[i].owner = owner}
           recs == [i \in Slots |-> IF i \in own THEN FreeNotice
                                    ELSE s.records[i]]
           x == [s EXCEPT !.records = recs, !.changed = @ \/ own # {},
                          !.before = Left(s, own)]
           y == [timers EXCEPT
                   !.records = [i \in TimerSlots |->
                                  IF i \in ownTimers THEN FreeTimer
                                  ELSE @[i]]]
<1>1. notices' = Scheduled(x) /\ timers' = TimerScheduled(y)
  BY DEF ReleaseOwner
<1>2. StoreInv(s) /\ s \in Store /\ OneActive(s) /\ timers \in TimerStore
  BY DEF StoresInv, StoreInv
<1>3. y \in TimerStore
  <2>1. [i \in TimerSlots |-> IF i \in ownTimers THEN FreeTimer
                              ELSE timers.records[i]]
          \in [TimerSlots -> Timer]
    BY <1>2, FreeTimerType DEF TimerStore
  <2> HIDE DEF ownTimers
  <2> QED
    BY <2>1, <1>2 DEF TimerStore
<1>4. timers' \in TimerStore /\ TimersExact(timers')
  BY <1>1, <1>3, TimerScheduledIs
<1>5. recs \in [Slots -> Notice]
  BY <1>2, FreeNoticeType DEF Store
<1>6. Left(s, own) \in SUBSET (Slots \X Slots)
  BY <1>2 DEF Left, Store
<1> HIDE DEF s, own
<1>7. /\ \A j \in Slots \ own : recs[j] = s.records[j]
      /\ \A j \in Slots \cap own : recs[j].phase = "free"
  BY DEF FreeNotice
<1> HIDE DEF recs
<1>8. /\ x \in Store /\ x.records = recs /\ x.next_order = s.next_order
      /\ x.before = Left(s, own)
  BY <1>2, <1>5, <1>6 DEF Store
<1> HIDE DEF x
<1>9. OneActive(x)
  <2>1. \A j \in Slots : x.records[j].phase = "active"
                           => s.records[j].phase = "active"
    BY <1>7, <1>8
  <2> QED
    BY <2>1, <1>2, StillOneActive
<1>10. StoreInv(x)
  <2>1. \A j \in Slots \cap own :
          /\ x.records[j].phase # "queued"
          /\ x.records[j].phase = "free"
             \/ /\ s.records[j].phase # "free"
                /\ x.records[j].order = s.records[j].order
    BY <1>7, <1>8
  <2>2. \A j \in Slots \ own : x.records[j] = s.records[j]
    BY <1>7, <1>8
  <2> QED
    BY <2>1, <2>2, <1>2, <1>8, <1>9, LeaveKeeps
<1>11. StoreInv(notices') /\ Exact(notices')
  BY <1>1, <1>10, ScheduledIs
<1> QED
  BY <1>4, <1>11, NextStores

LEMMA DeviceStepKeeps ==
  ASSUME StoresInv, DeviceStep
  PROVE  StoresInv'
<1> DEFINE first  == NotifyStep(notices, now)
           taken  == TakeChanged(first)
           fed    == TimerStep(timers, taken, now, first.changed)
           second == NotifyStep(fed.notices, now)
<1>1. StoreInv(first) /\ Exact(first)
  BY NotifyStepIs DEF StoresInv
<1>2. StoreInv(taken) /\ Exact(taken)
  BY <1>1, TakeChangedIs
<1>3. RoundInv(fed) /\ TimersExact(fed.timers)
  <2> HIDE DEF first, taken
  <2> QED
    BY <1>2, TimerStepIs DEF StoresInv
<1>4. /\ StoreInv(fed.notices) /\ Exact(fed.notices)
      /\ fed.timers \in TimerStore
  <2> HIDE DEF fed
  <2> QED
    BY <1>3 DEF RoundInv
<1>5. StoreInv(second) /\ Exact(second)
  <2> HIDE DEF fed
  <2> QED
    BY <1>4, NotifyStepIs
<1>6. StoreInv(TakeChanged(second)) /\ Exact(TakeChanged(second))
  <2> HIDE DEF second
  <2> QED
    BY <1>5, TakeChangedIs
<1>7. \/ notices' = TakeChanged(second) /\ timers' = fed.timers
      \/ notices' = notices /\ timers' = timers
  BY DEF DeviceStep
<1> HIDE DEF second, fed
<1>8. CASE notices' = TakeChanged(second) /\ timers' = fed.timers
  BY <1>3, <1>4, <1>6, <1>8, NextStores
<1>9. CASE notices' = notices /\ timers' = timers
  BY <1>9, SameNotices, SameTimers, NextStores
<1> QED
  BY <1>7, <1>8, <1>9

(* The scalars keep their types.                                           *)
LEMMA ScalarTypes ==
  ASSUME now \in Times, calls \in 0 .. MaxCalls, frame \in BOOLEAN,
         [Next]_vars
  PROVE  now' \in Times /\ calls' \in 0 .. MaxCalls /\ frame' \in BOOLEAN
<1>1. CASE UNCHANGED <<now, calls, frame>>
  BY <1>1
<1>2. CASE calls < MaxCalls /\ calls' = calls + 1 /\ UNCHANGED <<now, frame>>
  <2>1. calls + 1 \in 0 .. MaxCalls
    BY <1>2, NoticeAssumption
  <2> QED
    BY <1>2, <2>1
<1>3. CASE DeviceStep
  BY <1>3 DEF DeviceStep
<1>4. CASE Tick
  <2>1. now < MaxTime /\ now' = now + 1 /\ UNCHANGED <<calls, frame>>
    BY <1>4 DEF Tick
  <2>2. now + 1 \in Times
    BY <2>1, Sizes DEF Times
  <2> QED
    BY <2>1, <2>2
<1>5. ASSUME NEW owner, NEW key, NEW expiry, Post(owner, key, expiry)
      PROVE  calls < MaxCalls /\ calls' = calls + 1 /\ UNCHANGED <<now, frame>>
  BY <1>5 DEF Post
<1>6. ASSUME NEW owner, NEW due, TimerSet(owner, due)
      PROVE  calls < MaxCalls /\ calls' = calls + 1 /\ UNCHANGED <<now, frame>>
  BY <1>6 DEF TimerSet
<1>7. ASSUME NEW owner, TimerCancel(owner) \/ ReleaseOwner(owner)
      PROVE  UNCHANGED <<now, calls, frame>>
  BY <1>7 DEF TimerCancel, ReleaseOwner
<1>8. ASSUME NEW i, Cancel(i) \/ \E wake \in Times : Snooze(i, wake)
      PROVE  UNCHANGED <<now, calls, frame>>
  BY <1>8 DEF Cancel, Snooze
<1>9. CASE UNCHANGED vars
  BY <1>9 DEF vars
<1> QED
  BY <1>1, <1>2, <1>3, <1>4, <1>5, <1>6, <1>7, <1>8, <1>9 DEF Next

LEMMA StoresKeep ==
  ASSUME StoresInv, [Next]_vars
  PROVE  StoresInv'
<1>1. ASSUME NEW owner \in Owners, NEW key \in Keys,
             NEW expiry \in {0, MaxTime}, Post(owner, key, expiry)
      PROVE  StoresInv'
  BY <1>1, PostKeeps
<1>2. ASSUME NEW owner \in Owners, NEW due \in Times, TimerSet(owner, due)
      PROVE  StoresInv'
  BY <1>2, TimerSetKeeps
<1>3. ASSUME NEW owner \in Owners, TimerCancel(owner) PROVE StoresInv'
  BY <1>3, TimerCancelKeeps
<1>4. ASSUME NEW owner \in Owners, ReleaseOwner(owner) PROVE StoresInv'
  BY <1>4, ReleaseOwnerKeeps
<1>5. ASSUME NEW i \in Slots, Cancel(i) PROVE StoresInv'
  BY <1>5, CancelKeeps
<1>6. ASSUME NEW i \in Slots, NEW wake \in Times, Snooze(i, wake)
      PROVE  StoresInv'
  BY <1>6, SnoozeKeeps
<1>7. CASE DeviceStep
  BY <1>7, DeviceStepKeeps
<1>8. CASE Tick \/ UNCHANGED vars
  <2>1. notices' = notices /\ timers' = timers
    BY <1>8 DEF Tick, vars
  <2> QED
    BY <2>1, SameNotices, SameTimers, NextStores
<1> QED
  BY <1>1, <1>2, <1>3, <1>4, <1>5, <1>6, <1>7, <1>8 DEF Next

LEMMA NextKeeps == NoticesInv /\ [Next]_vars => NoticesInv'
<1> SUFFICES ASSUME NoticesInv, [Next]_vars PROVE NoticesInv'
  OBVIOUS
<1>1. StoresInv /\ now \in Times /\ calls \in 0 .. MaxCalls /\ frame \in BOOLEAN
  BY TypesSplit DEF NoticesInv, StoresInv
<1>2. StoresInv'
  BY <1>1, StoresKeep
<1>3. now' \in Times /\ calls' \in 0 .. MaxCalls /\ frame' \in BOOLEAN
  BY <1>1, ScalarTypes
<1>4. StoreInv(notices)' /\ Exact(notices)' /\ TimersExact(timers)'
      /\ timers' \in TimerStore
  BY <1>2 DEF StoresInv, TimerStore
<1>5. notices' \in Store
  BY <1>4 DEF StoreInv, Store
<1>6. TypeOK'
  BY <1>3, <1>4, <1>5 DEF TypeOK, Store, TimerStore
<1> QED
  BY <1>4, <1>6 DEF NoticesInv

LEMMA NoticesInvariant == Spec => []NoticesInv
  BY InitInv, NextKeeps, PTL DEF Spec

-----------------------------------------------------------------------------
(* The theorems.                                                           *)

(* Every variable stays in its set: among others, the order counter of     *)
(* sys_notify.c never passes its end, however often notices are posted and *)
(* snoozed.                                                                *)
THEOREM NoticeTypes == Spec => []TypeOK
<1>1. NoticesInv => TypeOK
  BY DEF NoticesInv
<1> QED
  BY <1>1, NoticesInvariant, PTL

(* sys_notify_post() finds a free slot whenever fewer notices wait than    *)
(* may, and the slot schedule() caches is that of the active notice, the   *)
(* only one.                                                               *)
THEOREM RoomTheorem == Spec => []RoomForAll
<1>1. NoticesInv => RoomForAll
  <2> SUFFICES ASSUME NoticesInv PROVE RoomForAll
    OBVIOUS
  <2> DEFINE waiting == InPhase(notices, {"queued", "snoozed"})
             active  == InPhase(notices, {"active"})
             free    == InPhase(notices, {"free"})
  <2>1. /\ notices \in Store /\ OneActive(notices)
        /\ active = {notices.active_slot} \ {0}
    BY DEF NoticesInv, StoreInv, Exact
  <2>2. ASSUME Cardinality(waiting) < NWaiting, free = {} PROVE FALSE
    <3>1. waiting \cup active = Slots
      <4>1. \A i \in Slots : notices.records[i].phase \in Phases
        BY <2>1, RecordTypes
      <4> QED
        BY <4>1, <2>2 DEF InPhase, Phases
    <3>2. waiting \subseteq Slots /\ active \subseteq Slots
      BY DEF InPhase
    <3>3. /\ IsFiniteSet(waiting) /\ Cardinality(waiting) \in Nat
          /\ Cardinality(Slots) = NWaiting + 1 /\ NWaiting \in Nat
      BY <3>2, SomeSlots, Sizes
    <3>4. Cardinality(waiting \cup active) <= Cardinality(waiting) + 1
      <4>1. CASE active = {}
        <5>1. waiting \cup active = waiting
          BY <4>1
        <5> HIDE DEF waiting, active
        <5> QED
          BY <5>1, <3>3
      <4>2. CASE active # {}
        <5>1. PICK a \in active : active = {a}
          BY <4>2, <2>1 DEF OneActive
        <5> HIDE DEF waiting, active
        <5>2. Cardinality(waiting \cup {a})
                = IF a \in waiting THEN Cardinality(waiting)
                  ELSE Cardinality(waiting) + 1
          BY <3>3, FS_AddElement
        <5> QED
          BY <5>1, <5>2, <3>3
      <4> QED
        BY <4>1, <4>2
    <3>5. NWaiting + 1 <= Cardinality(waiting) + 1
      BY <3>1, <3>3, <3>4
    <3>6. Cardinality(waiting) < NWaiting
      BY <2>2
    <3> HIDE DEF waiting
    <3> QED
      BY <3>3, <3>5, <3>6
  <2> QED
    BY <2>1, <2>2 DEF RoomForAll, Waiting
<1> QED
  BY <1>1, NoticesInvariant, PTL

(* The deadlines the owner sleeps by are exact, for the notices and for    *)
(* the timers: schedule() and its like in sys_timer.c are called wherever  *)
(* something they depend on changes.                                       *)
THEOREM DeadlinesTheorem == Spec => []DeadlinesExact
<1>1. NoticesInv => DeadlinesExact
  BY DEF NoticesInv, DeadlinesExact, Exact, TimersExact, Due, DueTimer,
     NoticeDue, TimerDue
<1> QED
  BY <1>1, NoticesInvariant, PTL

(* Notices are shown in the order they joined the queue, across every      *)
(* compaction of the order numbers by next_order().                        *)
THEOREM FirstComeTheorem == Spec => []FirstComeFirstShown
<1>1. NoticesInv => FirstComeFirstShown
  BY DEF NoticesInv, StoreInv, InLine, FirstComeFirstShown
<1> QED
  BY <1>1, NoticesInvariant, PTL
=============================================================================
