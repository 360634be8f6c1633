----------------------------- MODULE SysNotices -----------------------------
(***************************************************************************)
(* The notification store of sys_notify.c, the timers of sys_timer.c that  *)
(* feed it, and the step of sys_device.c that drives both once a frame.    *)
(* One task owns all of it, so every call is one action; what is hard here *)
(* is long sequences of legal calls: deadlines kept by hand, an order      *)
(* counter that is compacted when it runs out, timers that wait for room.  *)
(*                                                                         *)
(* A notice is its slot (ids are unique and never reused); labels are left *)
(* out, and so is the publishing of a change to subscribers.  The 64-bit   *)
(* clock and order counter have small ranges.                              *)
(***************************************************************************)
EXTENDS Integers, FiniteSets

CONSTANTS
  NWaiting,    \* SYS_NOTICE_WAITING; there is one more slot than that
  NTimers,     \* SYS_TIMER_SLOTS
  Owners,      \* who posts and sets timers; each has one timer key
  Keys,        \* the keys of clients' posts; 0 disables deduplication
  OrderMax,    \* the last value of next_order (UINT64_MAX)
  MaxTime,     \* bound: the last instant of the clock
  MaxCalls     \* bound: posts and timer settings made by clients

ASSUME NoticeAssumption ==
  /\ NWaiting \in Nat \ {0} /\ NTimers \in Nat \ {0}
  /\ MaxTime \in Nat \ {0} /\ MaxCalls \in Nat
  /\ OrderMax \in Nat /\ OrderMax > NWaiting + 1

Slots      == 1 .. NWaiting + 1   \* SYS_NOTICE_SLOTS
TimerSlots == 1 .. NTimers
Times      == 1 .. MaxTime
Never      == MaxTime + 1         \* UINT64_MAX
Nobody     == "nobody"

VARIABLES
  now,      \* esp_timer_get_time()
  notices,  \* the sys_notify; `before` is a history: who joined the queue
            \* before whom, of those in it
  timers,   \* the sys_timer
  calls,    \* how many posts and timer settings clients have made
  frame     \* flips with every frame

vars == <<now, notices, timers, calls, frame>>

Phases == {"free", "queued", "active", "snoozed"}
Notice == [phase : Phases, owner : Owners \cup {Nobody}, key : Keys \cup {0},
           order : 0 .. OrderMax, wake : 0 .. MaxTime, expires : 0 .. MaxTime]
FreeNotice == [phase |-> "free", owner |-> Nobody, key |-> 0, order |-> 0,
               wake |-> 0, expires |-> 0]

Timer == [due : 0 .. MaxTime, owner : Owners \cup {Nobody}, blocked : BOOLEAN]
FreeTimer == [due |-> 0, owner |-> Nobody, blocked |-> FALSE]

TypeOK ==
  /\ now \in Times
  /\ notices \in [records : [Slots -> Notice], next_order : 0 .. OrderMax,
                  deadline : 0 .. Never, changed : BOOLEAN,
                  active_slot : 0 .. NWaiting + 1,
                  before : SUBSET (Slots \X Slots)]
  /\ timers \in [records : [TimerSlots -> Timer], deadline : 0 .. Never]
  /\ calls \in 0 .. MaxCalls
  /\ frame \in BOOLEAN

Init ==
  /\ now = 1
  /\ notices = [records |-> [i \in Slots |-> FreeNotice], next_order |-> 0,
                deadline |-> 0, changed |-> FALSE, active_slot |-> 0,
                before |-> {}]
  /\ timers = [records |-> [i \in TimerSlots |-> FreeTimer], deadline |-> 0]
  /\ calls = 0
  /\ frame = FALSE

-----------------------------------------------------------------------------
(* sys_notify.c, as functions of the store.                                *)

InPhase(s, phases) == {i \in Slots : s.records[i].phase \in phases}
Waiting(s) == Cardinality(InPhase(s, {"queued", "snoozed"}))
MinOf(S) == CHOOSE x \in S : \A y \in S : x <= y

(* next_order(): when the counter is at its end, the notices are numbered  *)
(* afresh from 1 in the order they have.                                   *)
Compacted(s) ==
  LET used == InPhase(s, Phases \ {"free"}) IN
  [s EXCEPT !.next_order = Cardinality(used),
            !.records = [i \in Slots |-> [@[i] EXCEPT !.order =
              IF i \notin used THEN 0
              ELSE 1 + Cardinality({j \in used :
                         s.records[j].order < s.records[i].order})]]]

(* Mutant: the counter is not compacted.                                   *)
NextOrderUnbounded(s) == [s EXCEPT !.next_order = @ + 1]

NextOrder(s) ==
  LET c == IF s.next_order = OrderMax THEN Compacted(s) ELSE s
  IN  [c EXCEPT !.next_order = @ + 1]

(* schedule(): the active slot and the next instant something happens.     *)
Scheduled(s) ==
  LET active == InPhase(s, {"active"})
      queued == InPhase(s, {"queued"})
      dues   == {Never}
                \cup {s.records[i].wake : i \in InPhase(s, {"snoozed"})}
                \cup ({s.records[i].expires : i \in active \cup queued} \ {0})
  IN  [s EXCEPT !.active_slot = IF active = {} THEN 0
                                ELSE CHOOSE i \in active :
                                       \A j \in active : j <= i,
                !.deadline = IF active = {} /\ queued # {} THEN 0
                             ELSE MinOf(dues)]

(* The queue's history when a notice joins it or some leave it.            *)
Joined(s, i) == s.before \cup (InPhase(s, {"queued"}) \X {i})
Left(s, gone) == {p \in s.before : p[1] \notin gone /\ p[2] \notin gone}

(* A slot is cleared; the caller schedules.                                *)
Cleared(s, i) ==
  [s EXCEPT !.records[i] = FreeNotice, !.changed = TRUE,
            !.before = Left(s, {i})]

(* sys_notify_post() into the first free slot.                             *)
CanPost(s) == Waiting(s) < NWaiting /\ InPhase(s, {"free"}) # {}

Posted(s, owner, key, expiry) ==
  LET i == MinOf(InPhase(s, {"free"}))
      o == NextOrder(s)
      r == [FreeNotice EXCEPT !.phase = "queued", !.owner = owner, !.key = key,
                              !.order = o.next_order, !.expires = expiry]
  IN  Scheduled([o EXCEPT !.records[i] = r, !.changed = TRUE,
                          !.before = Joined(s, i)])

Duplicate(s, owner, key) ==
  key # 0 /\ \E i \in Slots : /\ s.records[i].phase # "free"
                              /\ s.records[i].owner = owner
                              /\ s.records[i].key = key

(* Mutant: a snoozed notice comes back in its old place.                   *)
WokenInPlace(s, i, t) ==
  IF s.records[i].phase = "snoozed" /\ t >= s.records[i].wake
    THEN [s EXCEPT !.records[i].phase = "queued", !.records[i].wake = 0,
                   !.changed = TRUE, !.before = Joined(s, i)]
    ELSE s

(* One round of sys_notify_step()'s loop: a snooze that is over joins the  *)
(* queue at its end, then a notice that has expired goes.  (wake is only   *)
(* read while snoozed, so it is dropped.)                                  *)
Woken(s, i, t) ==
  LET o == NextOrder(s) IN
  IF s.records[i].phase = "snoozed" /\ t >= s.records[i].wake
    THEN [o EXCEPT !.records[i].order = o.next_order,
                   !.records[i].phase = "queued", !.records[i].wake = 0,
                   !.changed = TRUE, !.before = Joined(s, i)]
    ELSE s

Expired(s, i, t) ==
  LET r == s.records[i] IN
  IF r.phase \in {"queued", "active"} /\ r.expires # 0 /\ t >= r.expires
    THEN Cleared(s, i) ELSE s

Swept(s, t) ==
  LET sweep[i \in 0 .. NWaiting + 1] ==
        IF i = 0 THEN s ELSE Expired(Woken(sweep[i - 1], i, t), i, t)
  IN  sweep[NWaiting + 1]

(* Mutant: a notice is shown although another one is.                      *)
ActivatedOver(s) ==
  LET queued == InPhase(s, {"queued"})
      first  == CHOOSE i \in queued : \A j \in queued :
                  s.records[i].order <= s.records[j].order
  IN  IF queued # {}
        THEN [s EXCEPT !.records[first].phase = "active", !.changed = TRUE,
                       !.before = Left(s, {first})]
        ELSE s

(* After the loop the first of the queue becomes active if nothing is.     *)
Activated(s) ==
  LET queued == InPhase(s, {"queued"})
      first  == CHOOSE i \in queued : \A j \in queued :
                  s.records[i].order <= s.records[j].order
  IN  IF queued # {} /\ InPhase(s, {"active"}) = {}
        THEN [s EXCEPT !.records[first].phase = "active", !.changed = TRUE,
                       !.before = Left(s, {first})]
        ELSE s

NotifyStep(s, t) ==
  IF t < s.deadline THEN s ELSE Scheduled(Activated(Swept(s, t)))

TakeChanged(s) == [s EXCEPT !.changed = FALSE]

-----------------------------------------------------------------------------
(* sys_timer.c.                                                            *)

TimerScheduled(t) ==
  [t EXCEPT !.deadline =
     MinOf({Never} \cup {t.records[i].due : i \in {k \in TimerSlots :
              t.records[k].due # 0 /\ ~t.records[k].blocked}})]

(* Mutant: a blocked timer is not retried.                                 *)
TimerRoundNoRetry(st, i, at, noticeChanged) ==
  LET r == st.timers.records[i] IN
  IF r.due = 0 \/ at < r.due \/ r.blocked THEN st
  ELSE IF CanPost(st.notices)
    THEN [timers  |-> [st.timers EXCEPT !.records[i] = FreeTimer],
          notices |-> Posted(st.notices, r.owner, 0, 0)]
    ELSE [st EXCEPT !.timers.records[i].blocked = TRUE]

(* sys_timer_step(): every due timer posts; one that finds no room is      *)
(* kept, blocked, until the notices have changed.                          *)
TimerRound(st, i, at, noticeChanged) ==
  LET r == st.timers.records[i] IN
  IF r.due = 0 \/ at < r.due \/ (r.blocked /\ ~noticeChanged) THEN st
  ELSE IF CanPost(st.notices)
    THEN [timers  |-> [st.timers EXCEPT !.records[i] = FreeTimer],
          notices |-> Posted(st.notices, r.owner, 0, 0)]
    ELSE [st EXCEPT !.timers.records[i].blocked = TRUE]

TimerStep(t, s, at, noticeChanged) ==
  LET both == [timers |-> t, notices |-> s]
      round[i \in 0 .. NTimers] ==
        IF i = 0 THEN both ELSE TimerRound(round[i - 1], i, at, noticeChanged)
  IN  IF ~noticeChanged /\ at < t.deadline THEN both
      ELSE [round[NTimers] EXCEPT !.timers = TimerScheduled(@)]

-----------------------------------------------------------------------------
(* The actions: the clients' calls and the frame.                          *)

Post(owner, key, expiry) ==
  /\ calls < MaxCalls
  /\ ~Duplicate(notices, owner, key) /\ CanPost(notices)
  /\ notices' = Posted(notices, owner, key, expiry)
  /\ calls' = calls + 1
  /\ UNCHANGED <<now, timers, frame>>

(* sys_notify_cancel() of any notice; sys_notify_ack() is the same call    *)
(* for the active one.                                                     *)
Cancel(i) ==
  /\ notices.records[i].phase # "free"
  /\ notices' = Scheduled(Cleared(notices, i))
  /\ UNCHANGED <<now, timers, calls, frame>>

Ack == notices.active_slot # 0 /\ Cancel(notices.active_slot)

(* Mutant: a snooze does not move the deadline.                            *)
SnoozeUnscheduled(i, wake) ==
  /\ notices.records[i].phase = "active"
  /\ Waiting(notices) < NWaiting
  /\ notices' = [notices EXCEPT !.records[i].phase = "snoozed",
                                !.records[i].wake = wake,
                                !.changed = TRUE, !.active_slot = 0]
  /\ UNCHANGED <<now, timers, calls, frame>>

(* sys_notify_snooze() of the active notice.                               *)
Snooze(i, wake) ==
  /\ notices.records[i].phase = "active"
  /\ Waiting(notices) < NWaiting
  /\ notices' = Scheduled([notices EXCEPT !.records[i].phase = "snoozed",
                                          !.records[i].wake = wake,
                                          !.changed = TRUE])
  /\ UNCHANGED <<now, timers, calls, frame>>

(* sys_timer_set(): the owner's timer is replaced, or the first free slot  *)
(* taken; nothing happens when it is already set to that instant.          *)
TimerSet(owner, due) ==
  LET own   == {i \in TimerSlots : timers.records[i].due # 0
                                   /\ timers.records[i].owner = owner}
      free  == {i \in TimerSlots : timers.records[i].due = 0}
      slots == IF own # {} THEN own ELSE free
      set   == [FreeTimer EXCEPT !.owner = owner, !.due = due]
  IN  /\ calls < MaxCalls
      /\ slots # {}
      /\ timers.records[MinOf(slots)].due # due
      /\ timers' = TimerScheduled([timers EXCEPT
                                     !.records[MinOf(slots)] = set])
      /\ calls' = calls + 1
      /\ UNCHANGED <<now, notices, frame>>

(* due = 0.                                                                *)
TimerCancel(owner) ==
  /\ \E i \in TimerSlots :
       /\ timers.records[i].due # 0 /\ timers.records[i].owner = owner
       /\ timers' = TimerScheduled([timers EXCEPT !.records[i] = FreeTimer])
  /\ UNCHANGED <<now, notices, calls, frame>>

(* sys_timer_release_owner() and sys_notify_release_owner(), as an owner's *)
(* end calls them.                                                         *)
ReleaseOwner(owner) ==
  LET own == {i \in Slots : notices.records[i].owner = owner}
      ownTimers == {i \in TimerSlots : timers.records[i].owner = owner}
  IN  /\ own # {} \/ ownTimers # {}
      /\ timers' = TimerScheduled([timers EXCEPT
           !.records = [i \in TimerSlots |-> IF i \in ownTimers THEN FreeTimer
                                             ELSE @[i]]])
      /\ notices' = Scheduled([notices EXCEPT
           !.records = [i \in Slots |-> IF i \in own THEN FreeNotice
                                        ELSE @[i]],
           !.changed = @ \/ own # {},
           !.before = Left(notices, own)])
      /\ UNCHANGED <<now, calls, frame>>

(* sys_device_step(): the notices, the timers with what changed, and the   *)
(* notices again.                                                          *)
DeviceStep ==
  LET first  == NotifyStep(notices, now)
      fed    == TimerStep(timers, TakeChanged(first), now, first.changed)
      second == NotifyStep(fed.notices, now)
  IN  /\ IF notices.deadline # Never \/ timers.deadline # Never
             \/ notices.changed
           THEN notices' = TakeChanged(second) /\ timers' = fed.timers
           ELSE UNCHANGED <<notices, timers>>
      /\ frame' = ~frame
      /\ UNCHANGED <<now, calls>>

Tick ==
  /\ now < MaxTime
  /\ now' = now + 1
  /\ UNCHANGED <<notices, timers, calls, frame>>

Next ==
  \/ \E owner \in Owners :
       \/ \E key \in Keys, expiry \in {0, MaxTime} :
            Post(owner, key, expiry)
       \/ \E due \in Times : TimerSet(owner, due)
       \/ TimerCancel(owner)
       \/ ReleaseOwner(owner)
  \/ \E i \in Slots : Cancel(i) \/ \E wake \in Times : Snooze(i, wake)
  \/ DeviceStep \/ Tick

Spec == Init /\ [][Next]_vars

(* Frames keep coming, time passes, and whoever looks at the screen ends   *)
(* the notice that is shown.                                               *)
FairSpec ==
  Spec /\ []<><<frame' # frame>>_vars /\ WF_vars(Tick) /\ WF_vars(Ack)

-----------------------------------------------------------------------------
(* sys_notify_post() has a second "full" behind its loop: it is never      *)
(* reached, since at most one notice is active and the slots are one more  *)
(* than may wait.  The cached active slot is that notice.                  *)
RoomForAll ==
  /\ Waiting(notices) < NWaiting => InPhase(notices, {"free"}) # {}
  /\ InPhase(notices, {"active"}) = {notices.active_slot} \ {0}

(* The deadlines the owner sleeps by are exact: at every instant something *)
(* is due if and only if the deadline has come, so no expiry, snooze or    *)
(* activation is slept through and none is spun for.  (A zeroed store has  *)
(* not been scheduled yet and is due at once.)                             *)
NoticeDue(t) ==
  \/ \E i \in Slots : LET r == notices.records[i] IN
       \/ r.phase = "snoozed" /\ r.wake <= t
       \/ r.phase \in {"queued", "active"} /\ r.expires \in 1 .. t
  \/ InPhase(notices, {"queued"}) # {} /\ InPhase(notices, {"active"}) = {}

TimerDue(t) ==
  \E i \in TimerSlots : ~timers.records[i].blocked
                        /\ timers.records[i].due \in 1 .. t

DeadlinesExact ==
  \A t \in Times :
    /\ NoticeDue(t) => notices.deadline <= t
    /\ notices.deadline \in 1 .. t => NoticeDue(t)
    /\ TimerDue(t) => timers.deadline <= t
    /\ timers.deadline \in 1 .. t => TimerDue(t)

(* Notices are shown in the order they joined the queue, a snoozed one at  *)
(* the end, also across a compaction of the order numbers.                 *)
FirstComeFirstShown ==
  \A i, j \in Slots :
    <<i, j>> \in notices.before
      <=> /\ {i, j} \subseteq InPhase(notices, {"queued"})
          /\ notices.records[i].order < notices.records[j].order

(* sys_timer.h: a full store retains due timers, and a change of the       *)
(* notices is what retries them.  After a frame, then, a timer is blocked  *)
(* only while the store is full or a change is still to be taken.          *)
RetainedOnlyWhileFull ==
  (\E i \in TimerSlots : timers.records[i].blocked)
    => ~CanPost(notices) \/ notices.changed

(* A timer that was set becomes a notice, unless it is cancelled, however  *)
(* full the store is when it falls due.                                    *)
EveryTimerEnds ==
  \A i \in TimerSlots :
    timers.records[i].due # 0 ~> timers.records[i].due = 0
=============================================================================
