# TLA+ models of the Cardputer ADV PocketJS firmware

The firmware runs small JavaScript apps (QuickJS-ng) on an ESP32-S3 Cardputer
ADV. One task, the UI task of `src/main/main.c`, owns the JS heap and the
screen; everything slow happens elsewhere and has to find its way back to it.
This directory models the parts where that goes through shared memory without a
lock, through several tasks, through flash that outlives a loss of power, or
through long sequences of calls, checks them with TLC, and proves with TLAPS
properties of the completion table, which everything else rests on, and of the
SD card's read leases.

Paths below are relative to the repository; `pocket/` is `src/main/pocket/`,
`system/` is `src/main/system/`.

## Inventory

| Part | State it keeps | Operations | Talks to |
|---|---|---|---|
| Completion table, `pocket/pocket_api.c`, `src/main/vm/vm_wake.c` | a fixed array of slots: request number, number done, status, deadline, cancel token, resolvers, realm | open, abandon, arm, complete, pump, cancel_all, reset | every asynchronous surface; drivers on the other core and in ISRs post without a lock |
| `pocket.net`, `pocket/pocket_net.c` | one lease, one HTTP record, one response | acquire, close, request, read, suspend, scan, reset | completion table, radio, one worker task per request |
| Radio, `pocket/wifi_time.c` | the `running` lock, link state, owner, stop request, SNTP lock | link start/stop, scan, SNTP start/wait/stop | a permanent worker task; callers on the UI task, the timesync task and an HTTP worker |
| Time sync, `pocket/net_service.c`, `pocket/net_autosync.c`, `pocket/wifi_ui.c` | holds by name; attempt, abort flag, posted outcome; policy | acquire, release, state; attempt, poll, set_enabled, sync_now, yield | radio; the launcher yields to it before an app starts |
| Notices and timers, `system/sys_notify.c`, `sys_timer.c`, `sys_device.c` | nine notice slots, four timers, an order counter, cached deadlines | post, cancel, ack, snooze, release_owner, set, step | apps, the pet companion, the main loop's sleep |
| Rest of `system/` | wall-clock scheduler, ringer, power, revisions | step, publish | main loop |
| App session, `src/main/app_session.c` | the guest, its limits, dormant state | start, turn, suspend, resume, stop | every surface's pump and reset, in a fixed order |
| Launcher and app control, `main.c`, `app_control.c`, `app_registry.c` | screens, error, pending requests | enter, run, confirm | session, time sync, overlays |
| VM scheduler, `pocketjs_guest/src/` | job budget, suspension, block cache | drain, resume, allocate | QuickJS |
| SD media, `pocket/sd_path.c`, `sd_lease.c`, `sd_media.c`, `sd_picker.c` | volume state, generation, grant; registry of read leases | mount, unmount, grant, service, note_error; lease bind, cancel, ack, close | every reader of the card |
| MP3 playback, `pocket/mp3_sd_session.c`, `mp3_feed.c`, `pocket_av.c`, `hal/sound.c` | sessions and their quarantine, two rings, one decoder, the audio task's requests, one player | open, play, pause, close, service, background music, suspend, reset | card leases; four tasks |
| Opus and network players, `opus_*.c` | packet ring, socket | the same | the same |
| Video streams, `pocket_video*.c` | frame buffers, reader state | open, take, close | card, renderer |
| Source store, `src/main/text/srcstore.c` | two-face flash records with sequence number and CRC, one parked draft | save, load, clear, draft save/load/clear | flash; editor, works |
| Playground editor and tutorial, `ui/codeedit.c`, `ui/tutorial.c` | one document, its slot and flags | open, keys, save, run, restore, close, chapter reset | source store, main loop |
| Works of apps, `pocket/pocket_workspace.c` | owners of the work slots (NVS), picker, choices, one accepted run, what it leaves | create, read, save, pick, run, launchContext | source store, completion table, main loop |
| Files and storage, `pocket_fs.c`, `pocket_storage.c` | object store, handles, keys | open, read, write, commit | flash, card |
| Overlays, `ui/overlay*.c` | boot valve, time budget | arm, start, turn, stop | session, NVS |
| Arenas | fixed pools | allocate, free | JS, mutexes, Shiki |
| Input, IMU, capture, IR, bridge, BLE | drivers and queues | surface calls | completion table, subscriptions |
| HAL, renderer, text input, shell, scenes, pet | device registers, pixels, text | - | - |

`PROJECT.json` lists every part with its files and status.

What is hard here: a driver that posts while the owner frees and reuses the
slot; a session that ends with work in flight, which the next session meets; a
worker and the JS task sharing one record with only some of it atomic; three
tasks that start and stop one radio; an app start that has to get the radio's
memory back in time; caches of deadlines that the main loop sleeps by; stores
and counters at their limits; power lost in a flash update; one draft and one
buffer for all slots; a choice that is kept beside the Promise it answers; a
card that is pulled under three tasks, each of which may be late. The hazards, each at
its line, are in `PROJECT.json`.

What makes each part correct:

- table: a Promise settles at most once, with its own driver's status, in its
  own realm, and does settle; no wake is lost; the slot count is exact.
- `pocket.net`: every operation ends; the worker ends; buffers exist while they
  are used; nothing of one session blocks the next; the radio is given back.
- radio and time sync: a link is up only while wanted; only its owner takes it
  down; SNTP is never torn down under a waiter and never outlives the link; one
  outcome per attempt; apps come first.
- notices: order, exact deadlines, room at the limit, no timer lost.
- source store and editor: the last text that reached flash is what comes back;
  no slot shows another's text; what is parked is not older than the record.
- works: no work is replaced behind its author's back; a picker and its Promise
  end together; what one session leaves reaches the session it was left for.
- card and playback: nothing reads a card that is not mounted; no ring is freed
  under a task; a song that "ended" was played to its end; a removal is noticed
  and ends what depended on the card; a late task's memory is reclaimed.

## Modules

    PromiseLedger                 what the table promises (abstract)
      ^ implemented by
    PocketPromises                completion table, pump, wake, sessions
      MCPocketPromises            instances for TLC
      PocketPromises_proofs       theorems: realm, exact count, no lost wake
      PocketPromises_ledger_proofs theorems: honest settling, the refinement
    PocketNet                     lease, HTTP worker, response
      PocketNet_proofs            theorems
    RadioLink                     wifi_time.c: lock, worker, link, SNTP
      TimeSync                    + net_service.c, net_autosync.c, UI task
        TimeSync_proofs           theorems
    SysNotices                    notices, timers, device step
      SysNotices_proofs           theorems
    SourceHistory                 what a record promises (abstract)
      ^ implemented by
    SourceStore                   two-face records, drafts, loss of power
      CodeEdit                    + codeedit.c, tutorial.c, screens and runs
        MCCodeEdit                instances for TLC
        CodeEdit_proofs           theorems, the refinement
    PocketWorkspace               works of apps, picker, hand-over
      MCPocketWorkspace           instances for TLC
      PocketWorkspace_proofs      theorems
    SdMedia                       volume, grant, read leases (operators)
      Mp3Playback                 player, reader, decoder, audio task on it
        Mp3Playback_proofs        theorems

Operators whose comment begins with *Mutant* are the plausible bugs the
properties are tested against; no specification uses them.

### PocketPromises

`promises` is the array of `pocket_promise_t`; a request number is the pair of
counter and slot that `pocket_api_promise_open()` packs into 32 bits. The owner
task is sequential, so a surface call is split only where it has to be: open,
start the driver, arm (or fail to arm). The pump visits one slot per step. A
driver's `pocket_api_complete()` is four steps: look the slot up (`Finish`),
store the status, store the number, post the wake. An owner-task completion
(`OwnerCompletes`) is one step and sends no wake, as in `vm_wake_post()`.
`SessionEnd` is `pocket_api_reset()`; drivers survive it.

The constant `Overtake` says whether a driver may sit between its lookup and its
last store while the owner frees that slot *and* another request claims it.
With `FALSE` the owner's release waits for such a driver: that is the window the
code's own comment assumes is never hit, stated as an assumption and not as a
property of the code. `js`, `outcome`, `result`, `asked` are history: what the
guest holds, what a driver's work ended with, what the Promise was told, which
drivers were asked to stop.

### PocketNet

The table is used at `PromiseLedger`'s level: posts for a request that is not
pending are not read. The worker's atomic accesses are separate steps, as are
the load and the store in `lease_release()` (`LeaseClose`,
`LeaveLinkToWorker`). The JS task is `owner`: in the app, inside a release, in
the teardown (`pocket_net_reset()`, then the guest is freed), at home. The link
is a four-step abstraction of `RadioLink` with the app as its only user; it may
come up with a stop already asked for, as `do_link()` may store UP. `failed` is
history: did a read of the current response fail? A deadline, a token or a close
may stop a read at any moment (`ReadStops`, `ResponseClose`).

Not in it: `wifi.scan()`, suspension, `onLost` listeners, lease sharing,
refusals for lack of heap, arming failures.

### RadioLink and TimeSync

`wifi` is the position of the worker in `do_link()`/`do_scan()`. The last three
stores of a link (request, owner, lock) are three steps because other tasks look
in between. `wifi_time_link_start_for()` is one step: between its stores only a
preempted stop can write, and `net_service_state()` answers FAILED before and
between them alike. SNTP calls are steps under `sntp_lock`; only the wait holds
it across steps. With `PreemptedStop` a caller of `wifi_time_link_stop_for()`
may be preempted between its load of the owner and its store.

`TimeSync` adds `net_service.c` (its mutex makes an acquire or a release one
step; a release preempted in its stop keeps the mutex, `ServiceFree`), the
attempt of `net_autosync.c` (owner and state are read in two steps, as
`net_service_state()` does), its policy, and the UI task: polls, the setting,
the yield before the Wi-Fi screen or an app, the manual sync, the scan, an
app's link. Time is not a number: a deadline may pass at any moment and a wait
of the policy may have passed or not. Memory, credentials and a clock already
set are part of that choice. `Others` are further holders of the service; its
header allows them ("safe from any task") and nothing uses it yet.

Not in it: the status record and texts, the scan's result list, listeners and
`net_service_pump()` (no users), a worker that could not be created at boot.

### SysNotices

Everything is owned by the UI task, so each call is one action; the operators
`NotifyStep`, `TimerStep`, `Scheduled`, `NextOrder`... are the C functions as
functions of the store, in the order the code applies them (`Swept` goes through
the slots in index order, waking, expiring and renumbering as it goes). A notice
is identified by its slot: ids are unique and never reused, so a stale id finds
nothing. Labels, revisions and publishing are left out. `before` is a history
variable: who joined the queue before whom.

### SourceStore and CodeEdit

`flash` holds two faces for every slot and for the parked draft; a face is its
sequence number (or none), its text (or `Garbled`, which the CRC refuses) and
the slot a draft belongs to. A call is the list of flash operations it does
(`SaveOps`, `EraseOps`, `ClearOps`), taken one per step: between two of them
power may go (`PowerCut`), and each may be refused (`FlashFails`). Sequence
numbers are modulo `SeqMod` and compared by signed difference, so four calls
wrap them. With `Torn` an operation may be half done when power goes. The text
and its last partial word are one operation: no header covers either before
both are there. `kept` is history: the text of the last header that landed.

`CodeEdit` is the editor on that store. A call that writes flash is split where
the store takes over (`saving`, `retiring`, `runSaving`...), so power can go in
the middle of `do_save()`'s save and draft clear. `doc.live` is whether there is
a buffer: the heap may refuse one whenever it is wanted. `GoHome` and the force
stop are `code_close()` from anywhere. `Texts` are pairs of the slot a text was
written in and a number, which is how `OwnTextsOnly` knows where one came from.

Not in them: vim commands and input methods (a key changes the text or not), the
tutorial's verdict (a choice) and its progress record.

### PocketWorkspace

A work is its newest version and revision: `SourceStore` shows that a save lands
whole or not at all. A turn is `BeginTurn`, calls, `Pump`, calls, `EndTurn`,
after `run_pumps()`: a Promise settles in `Pump`, so what a call before it
does is seen by it. `create()` is two steps, record and index, because power may
go between them. The index is read afresh in every call and may fail to be read
(`IndexLoaded`). The levels are the manifests' of `app_registry.c`:
the Playground and a running work may pick, the tutorial works on its own only;
the other apps, overlays included, may not do anything here.

A session is `phase`. Its source is evaluated in `loading`, with the workspace
installed, so every call may be made there, also by a source that then throws
(`LoadFails`). Between two turns it is at `host`. The stop hook runs in
`stopping`, the suspend hook and what `settle_all()` runs in `drowsy` and
`dozing`, the resume hook in `waking`; in all of these the guest may call.
`after` is what the end of the session goes on to: `take` is `end_run()`, which
takes an accepted run; `home` is `native_stop()`, `fail` a start that failed
(stopped once inside `app_start_test()` and once more by `begin_run()`), an app
is the one that evicts a sleeping session, and none of these three looks at the
run. `ResetSession` does not clear `run_slot`, as `pocket_workspace_reset()`
does not: an accepted run may outlive its session and end the next one's first
turn.

`save()` passes any revision or none (`RevisionAgrees`), whether its app was ever
told it or not. History: `author` is who made what a slot holds; `told` the
version of each work each app was last told of, by `read()` or by its own
`save()`, in whatever session; `blind` whether the last step was a save that
named a revision its app was not told; `chosen` what the person chose since the
session began or last slept, `chosenBefore` before that; `ran` whose the
accepted run is and what it left, `startedBy` the run a session was started by.

Not in it: titles, `list()`, drawing.

### SdMedia and Mp3Playback

`SdMedia` has no variables: the volume, the registry and every lease's token are
one record, and an operator is what one C function leaves of it. `card` is the
generation under the VFS and `answers` whether that card is still in its slot,
neither of which the code can see without asking. A failure to mount is
`absent` or `refused`; which error it was, and the clock ladder, are left out.

`Mp3Playback` is four tasks. The owner task's calls are one step each except
where it waits: `player_halt()` waits for the audio task, then for the decoder,
then for the reader's acknowledgement (`HaltAudio`, `HaltFeed`, `HaltAck`), and
a wait ends by its answer or, for the tasks in `Slow`, by its 200 ms. The
reader is `mp3_sd_reader_step()` cut where another task can look: signal, read,
publish, end, acknowledge. The decoder and the audio task are cut at each take,
each look at `eof`, each publish. A session is numbered by its launch, which is
also its stream's number. What is simplified:

- one slot of packets becomes one slot of PCM, and the flush one more;
- the store of `eof` and of the terminal state of a reader that fails are one
  step: what is left to play behind the eof outlasts two instructions;
- what the rings of a quarantined session hold is forgotten (`Leftover`): every
  task has been told to leave it;
- the completion of a stopped launch is dropped when it is posted: its number
  has been moved past and the owner compares it in the same way;
- `Prompt`: an idle audio task takes a request, and looks for a stop, before the
  owner starts another stream. `FALSE` stands for another sound that is being
  played and keeps it from its queue;
- the background music is stopped by an action of its own (`BackgroundStop`),
  which the actions that make the code call it (`Open`, `RequestFolder`...)
  have to wait for: the code does both in one call;
- the folder screen is up or not, and knows whether there was a grant before;
- a launch whose decoder does not start is one step: its reader, which runs since
  the lease was attached, has by then begun its first read or not (`Unplayed`).
  What it reads after the stop are steps of its own.

`ReaderGot` lets a read fail with the card in its slot as well; only a failure
with the card gone is an EIO that marks the lease. `saw` is history: a session
whose read met that error.

Not in it: seek, clips that do not come from the card, WAV, tones, the recorder,
files the guest itself holds open.

## Runs

| Run | Instance | Shows |
|---|---|---|
| `promises_any` | 2 slots, 2 requests, 2 sessions, 2 statuses, `Overtake` | type, `RealmSafe`, `NoLostWake`, `OpenCountExact` |
| `promises_live` | same, no `Overtake`, fair | `HonestSettle`, refinement of `PromiseLedger` (`LedgerSpec`), `EveryPromiseEnds` |
| `net_live` | 3 Promises, 2 sessions, link may be lost, fair | `ResponseCanBeClosed`, `EveryReadEnds`, `EveryRequestEnds`, `EveryAcquireEnds`, `WorkerEnds` |
| `radio_any` | `PreemptedStop`, one further holder, caps of 1 | type, `NoOrphanLink`, `SntpEndsWithLink` |
| `radio_yield` | no preempted stop, no further holder, caps of 1, fair | `OnlyHoldersStop`, `AttemptsAccounted`, `AppsFirst`, `NoDeinitUnderWait`, `YieldIsHonoured`, `OutcomesCollected` |
| `notices_any` | 2 may wait (3 slots), 2 timers, 2 owners, counter to 4, 2 instants, 4 calls, fair | `RoomForAll`, `DeadlinesExact`, `FirstComeFirstShown`, `EveryTimerEnds` |
| `editor_any` | the Playground and one chapter, 2 texts and 1, sequence numbers modulo 4, 4 calls, 1 loss of power, 1 refusal | `KeptIsLoaded`, `OwnTextsOnly`, `DraftIsLatest`, `RunComesBack`, refinement of `SourceHistory` (`HistorySpec`) |
| `workspace_picks` | the user's program and 1 work slot, 3 apps, one of each level, 2 sessions, 2 picks a session, 1 revision, 1 fault, fair | `PickerHasItsPromise`, `EveryPickEnds` |
| `workspace_works` | the same works, 2 apps that may pick, 3 sessions, 1 pick a session, 3 revisions, 1 fault | `HandOver`, `WorksAreSafe` |
| `playback_any` | 2 sessions, 2 mounts, a song of 2 slots, rings of 1, `Prompt`, a decoder that may be late | `ReadsAreMounted`, `RingsAreHeld`, `EndedPlayedAll`, `RemovalIsTold` |
| `playback_live` | 1 session, 1 mount, a song and rings of 1, no `Prompt`, everybody may be late, fair | `QuarantineDrains`, `RemovalEndsPlayer` |
| `playback_rings` | 2 sessions, no `Prompt`, nobody late | *violates* `RingsAreHeld` |

Each run keeps the properties a bug would break first. Every other module has
its `TypeOK` too, which holds in the instances above and is not repeated in the
table. So does, without `Overtake` only, `NothingDropped` (in the instance of
`promises_live`); with it, it fails, see below.

`EveryReadEnds` says of any app which reads end: a read the worker is asked for
is answered unless a close, a deadline, a token or the end of the session tells
the worker to stop first, or a read of this response has failed. Those three are
real ways for a read to stay pending (`ReadsAreAnswered` below); the property
says there is no fourth, whatever the link and the pump do. `WorksAreSafe` leaves
one way for an app to replace what it was not told of: to name the current
revision all the same (`blind`), which `save()` does not refuse (`PickedIsRead`
below).

Why the bounds are enough. Two slots and two requests let a slot be freed and
claimed again under a driver that still posts, and let the pump be at one slot
while a driver posts to the other. Two sessions let work of one meet the next.
Three Promises in `PocketNet` are an acquire, a request and one read, or a
second session's acquire and request after a first session's. The policy's caps
of 1 put both caps at their limit at once; larger caps repeat the same cycle.
Three notice slots with two waiting reach every full and
nearly full store, a counter that ends at 4 is compacted inside posts and
inside sweeps, and two instants distinguish due from not yet due. `MaxCalls`
bounds clients' posts and timer settings, not steps.

In `editor_any` four writing calls on sequence numbers modulo 4 wrap a record's
number, write both faces twice, and are a save, a parked draft, a clear and one
more; with one loss of power and one refusal in the same behaviour a call can be
cut off on what an earlier one left half done. One chapter and the Playground
are enough to open a slot while the draft is another's. In `workspace_picks` two
picks let one be opened while the answer of another is on its way, and a second
session meets what the first one's end left of both. In `workspace_works` three
sessions are one that runs a work, the work, and one after it; three revisions
are one that was told, one the record has moved on to, and one more that is saved
over it; the app a work runs as may pick as well, so each of two apps saves what
the other made, owns, or was chosen. In `playback_any` two sessions let one be
stopped, quarantined or reaped while the next plays, two mounts let the second
card come while a reader of the first is not out; a song of two slots through
rings of one blocks every producer and has a slot in flight at eof. Rings of
three, as in the code, only put more slots between the same steps. The slow task
there is the decoder, the only one whose lateness a next session meets (it is
shared); in `playback_live` each of the three is.

Deadlock checking is off where the system may really stop: `PocketNet`'s app
opens no more Promises after its last session, `CodeEdit`, `PocketWorkspace` and
`Mp3Playback` run out of calls, sessions or launches.

### Fairness

- `PocketPromises`: the owner loop takes a turn every frame; surface calls do
  not wait for drivers; time passes; a driver that was asked to stop ends and
  one that has begun to post goes on. A driver that was not asked may run for
  ever.
- `PocketNet`: the pump, the worker (its socket calls have timeouts) and the
  link's bounded waits. Nothing the app does is fair, deadlines included.
- `TimeSync`: the two worker tasks run; every frame ends in
  `net_autosync_poll()` whatever else it did (strong fairness, since what it did
  may be another yield); a yield looks every 10 ms. Losing the access point is
  not fair, and of the deadlines only the wait for the radio to come down is;
  `OutcomesCollected` names the one more it needs (the SNTP deadline), and
  `YieldIsHonoured` needs none: the abort is seen without any timeout.
- `SysNotices`: frames keep coming, time passes, and whoever looks at the screen
  ends the notice that is shown. The last is an assumption about the user: a
  notice without expiry that nobody ends keeps a full store full.
- `PocketWorkspace`: a source that is evaluated, a stop and both halves of a
  suspension come to an end, turns come while no picker is up, the picker's
  deadline is looked at on every frame it is up, a call comes back. The person is
  not fair.
- `Mp3Playback`: the workers run, a wait of the owner ends, and
  `pocket_av_service_stream()` is called in every frame, in whatever state the
  owner's other calls leave the player in between (strong fairness). The app,
  the person and the card are not fair; nor is the codec's failing.

### Findings

`playback_rings` is a disagreement between the code and its own comment.
`sound.c:261-265` argues that either the audio task sees the halt or the stopper
sees the stream active. Both look at one variable: `stream_halt` holds the last
stream that was stopped. A stream that waits behind another sound is stopped (it
is not active, so its ring is freed), another is started and stopped, and the
task takes the first request with somebody else's number in `stream_halt`.

Further disagreements met while modelling. The models contain the steps. The
first ones are stated by a property of a module that no run keeps (but for
`KeptIsLoaded`, which `editor_any` keeps without `Torn`). TLC finds each in
seconds with a configuration that checks the property under the constants given
(the others as in the runs above):

| Property | Constants | What |
|---|---|---|
| `PocketPromises.NothingDropped` | 1 slot, `Overtake = TRUE` | `pocket_api.h:333-334` calls a completion "a lookup and two atomic stores with no queue to overflow and nothing to drop". A driver that is overtaken by a release and a reuse of its slot between its lookup (`pocket_api.c:471`) and its stores wipes out the new request's completion. |
| `PocketNet.ReadsAreAnswered` | 4 Promises, 1 session | `docs/api/common-api.md:239` says a close ends pending operations with CANCELLED or CLOSED. A read pending at a close, a deadline or a worker's end is never settled while its session lasts; the worker leaves on `http.abort` (`pocket_net.c:445`) before it takes the READ command. |
| `PocketNet.ChunkHeld` | same | `pocket_net.c:227-230` says only the atomics are concurrent. `js_response_close()` (`pocket_net.c:852`) frees the chunk the worker may be reading into, or that a posted read is about to be copied from; `pocket_net_reset()` frees the chunk of a worker that reads on into the next session. |
| `PocketNet.NothingSurvives` | 3 Promises, 2 sessions | `pocket_net.c:1539` says "Nothing survives a session". `http.open` survives one that ended while a request waited for its headers (`pocket_net.c:1327`); every later request is BUSY. |
| `SysNotices.RetainedOnlyWhileFull` | as `notices_any` | `sys_timer.h:17-18` says a full store retains timers until a notification changes. The second `sys_notify_step()` of a device step can make that change, and `sys_device.c:58` takes it for publishing only: the timer stays in a store that has room until another notice changes. |
| `CodeEdit.DraftStaysParked` | `MaxCuts = MaxFails = 0` | `srcstore.c:230-231` says a draft stays parked for the slot that owns it. Closing a clean document of any slot, a chapter included, clears the one draft there is (`codeedit.c:191`). |
| `SourceStore.KeptIsLoaded` | `Torn = TRUE`, `MaxCuts = 2`, `MaxFails = 0` | `srcstore.c:24-26` says a loss of power costs the last save. A header that was written in part can be the newest without its text; the next save then erases the good face, and a second loss of power leaves none (the repository knows the torn header: `docs/platform/backlog.md`, item 1). |
| `PocketWorkspace.AnswerIsChoice` | as `workspace_works`, `MaxPicks = 2` | `pocket_workspace.c:467-468` says null is the person deciding not to choose. The choice is one variable: a `pick()` made between the choice and the pump that settles it resets it (`pocket_workspace.c:560`), and the first Promise answers null. |
| `PocketWorkspace.RunIsOwn` | as `workspace_works` | `main.c:798-801` says a session that ended because it called `run()` hands the screen to the work it named. A run accepted while the source of a start that then fails is evaluated, or in the stop hook of a session that `native_stop()` (`main.c:1062-1069`) or an eviction (`main.c:855`) ends, is not taken; neither the reset (`pocket_workspace.c:974-984`) nor the next install (`1031-1043`) clears it. It ends the next session, a stranger's, at its first turn (`main.c:984`) and puts the work in its place. |
| `PocketWorkspace.OrdinaryStartIsNull` | as `workspace_works` | `docs/api/common-api.md:390` says of `launchContext()` that on an ordinary start both parts are null. What a `run()` left survives the one reset after it whether or not the work is started: when the work cannot be loaded, or its session was stopped otherwise, an app that the person opens reads it. |
| `PocketWorkspace.PickedIsRead` | as `workspace_works` | `pocket_workspace.c:742-745` says that without a revision "a picked work could be overwritten by an app that never read what was in it". `js_save()` compares a number (`pocket_workspace.c:757-758`): an app that guesses the current revision, or knows it of an earlier version, overwrites the work unread. |
| `Mp3Playback.GrantEndsWithSession` | `MaxGen = 1`, song of 1, `Prompt`, nobody slow | `pocket_fs.c:4094-4098` says the host gives the card back when the music stops. Music that ends because no next file plays (`pocket_av.c:1733-1738`) only clears `bg`: the card stays mounted and granted. |

The others have no property:

- `app_session.c:2109-2110` says the pumps after `pocket_api_pump()` post no
  completions; `pocket_av.c:1173` does, and as an owner-task post it sends no
  wake, so it is settled a turn later.
- `pocket_net.c:476-477` says the buffers belong to the response object;
  `request_finish()` (from line 999) of a failed request makes no object and
  frees nothing, and the next `js_request()` allocates over the pointers.
- `pocket_net.c:482-483` says the radio is not taken down under a live
  connection; line 484 runs after `http.alive` is cleared, when the next
  session may already hold a lease.
- `pocket_net.c:552` says `lease_release()` gives the radio back or has the
  worker do it; between the load at 556 and the store of `stop_when_idle` the
  worker can leave, and then nobody does.
- `pocket_net.c:1540-1541` says the radio does not survive a session; with an
  acquire waiting and a link that has just come up, `pocket_net_reset()`
  (from 1339) looks only for CONNECTING and stops nothing.
- Source store and editor: a save that fails clears `changed`, and the close
  that follows drops the draft (`codeedit.c:280`, known as backlog item 2); so
  `do_run()`'s comment that the text comes back from flash is wrong after one.
  Without memory for a buffer a save writes an empty record (`codeedit.c:277`).
  A clear or a draft clear that is cut between its erases brings the older face
  back, and a save cut before its draft clear leaves a draft older than the
  record. The tutorial's `:q!` leaves the buffer as it is, and opening the
  chapter again reads flash; its Del clears the record under a document that is
  still changed, which the close then parks again (`tutorial.c:206`).
- Works: an index that cannot be read is taken for a blank one, and a `create()`
  then writes it over the others' entries (`pocket_workspace.c:75-78`; hence the
  last clause of `WorksAreSafe`, which asks what the index says and not who made
  the work). An index write that failed and landed, or a loss of power before it,
  leaks a slot.
- Playback: a session whose audio task was late is quarantined with
  `audio_stopped` false, which is never asked again: it is not reaped and holds
  its lease, so the card cannot be mounted again (hence the condition in
  `QuarantineDrains`). `file_picker.c:103` and `:470` pass an errno to
  `sd_media_note_error()`, which compares ESP error codes and takes none of them
  for a removal. A folder chosen after the removal was noticed grants a volume
  that is absent (`sd_path.h:29-39`).
- `wifi_time.c:672` says only the holder can give the link back; the load and
  the store of line 679 are two steps, and a caller preempted between them
  across the end of its link and another's start stops the other's
  (`OnlyHoldersStop` fails in `TimeSync` when `PreemptedStop` is `TRUE`).

## Proofs

`PocketPromises_proofs` proves, for every number of slots, requests and sessions
and every set of statuses, from `PromiseAssumption` alone and whether or not
drivers may be overtaken:

- `TypeCorrect`: `Spec => []TypeOK`. A completion writes to the slot its number
  names without a lock and may do so long after its session; the theorem says
  no number leads outside the table and the pump's index stays inside.
- `RealmCorrect`: `Spec => []RealmSafe`. Every slot the pump may settle belongs
  to the installed realm.

`TypeOK` is not inductive: a driver that has looked its slot up stores its
outcome there, so that outcome has to be a status already (`Outcomes`).
`RealmSafe` is not either: arming installs the current realm's resolvers for the
request of the call in progress, so such a call must have a request and a realm
that is alive (`CallInProgress`). The inductive invariant is
`Inv == TypeOK /\ Outcomes /\ CallInProgress /\ RealmSafe`. `InvInit` and
`InvStep` prove it, the latter with one lemma per actor (calls of the owner, the
turn, the drivers) and one step per action; `InvAlways` combines them.

It goes on from there, again for every value and whether or not drivers may be
overtaken:

- `NoLostWakeTheorem`: `Spec => []NoLostWake`.
- `OpenCountCorrect`: `Spec => []OpenCountExact`.

A first group of lemmas says what each action does to the table, slot by slot
(claims one, frees one, arms one, stores a completion, nothing). The invariant
added to `Inv` is `WakeInv`: the call in progress owns the only slot that is
claimed and not armed, and every number names its own slot (`CallSlot`); a
number that was not handed out has no driver, so none can have posted
(`NoEarlyDriver`); what is in `done` was put there by the driver it names
(`DoneByDriver`); the pump starts at slot 0 (`PumpAtRest`); and `WakeComes`: a
slot whose completion is there and whose driver has nothing more to do has a
wake pending, or the pump is still to come to it. The two theorems need each
other: the pump may skip the table at `promise_open = 0` without passing over a
completion only because the count is exact.

`PocketPromises_ledger_proofs` assumes `~Overtake`, without which its theorems
are false (see the table above):

- `HonestSettleTheorem`: `Spec => []HonestSettle`;
- `LedgerTheorem`: `Spec => LedgerSpec`, the table implements `PromiseLedger`.

`~Overtake` is used in one place, `OwnsStays`: a driver inside its stores still
owns its slot (`MidOwns`). From it follow, in `LedgerInv`, that the status a
driver has stored is its own (`StatusStored`), that a complete slot has its own
request's status (`DoneHonest`), and with `Held` (what the guest holds for a number
at each stage of its slot) each step's place in the ledger: arming hands out, the
end of a driver's work ends, a settlement settles, a session's end drops, the rest
stutters (`LedgerStep`).

`Mp3Playback_proofs` proves `ReadsAreMountedTheorem`,
`Spec => []ReadsAreMounted`, from `SdMediaAssumption` and `PlaybackAssumption`:
for every number of sessions and mounts, song length, ring size, `Prompt` and
set of slow tasks, a reader that is inside a read of the card has under it the
card its lease was given on. The argument has two layers.

- `CardOK` is about the card's record alone: a lease that is out was given on
  the generation under the VFS and pins it (an unmount needs an empty registry,
  a mount an unmounted card); the registry does not take leases while an unmount
  is due; a lease that is out is of a volume that is ready, or keeps an unmount
  waiting, so a mount that finds the volume not ready finds the unmount pending
  and does nothing. One lemma per operator of `SdMedia` shows that it keeps
  `CardOK` and says which leases are still out.
- `LeaseInv` ties the tasks to it: a session that is live or quarantined has its
  lease out. It is not inductive alone: a stop disposes of the session it has
  been waiting for, so what the owner waits for and what the player holds must be
  a live session (`OwnerLive`, `PlayerLive`), across launches that fail, reaps
  and the background's next file. There is a lemma for each task and group of
  the owner's actions; `LeaseNext` puts them together (`LeaseTheorem`).

`ReadsAreMounted` then follows: a reader in a read is live or quarantined, so its
lease is out, so the card is the lease's. On this rest four more:

- `RemovalTheorem` (`RemovalIsTold`, an action property). `SawInv`: a session
  whose read met the removal has its lease out, and the lease has its fault or
  the volume it was given on is not ready; closing the lease takes the fault
  before it detaches.
- `TaskTheorem`: what a task, a request or a completion names is a session that
  was launched (`TaskInv`), numbers are given in order and a player that is ready
  has none (`ShapeInv`). The other two need it: a task that named a number still
  to be given would meet that session's rings.
- `SongTheorem` (`EndedPlayedAll`). `SongInv` counts: each packet taken from the
  first ring is a slot put into the second, one is in the decoder's hand between
  the two, the flush is one more, and an eof stands behind everything that was
  put in. Each task's step has its lemma; a completion is believed only of the
  session it names.
- `RingsTheorem` (`RingsAreHeld`) assumes `Prompt`, without which it is false
  (`playback_rings`). That the decoder has left is unconditional (`DecoderInv`).
  For the audio task, `RingInv` follows a stream from the queue to its completion:
  one request at most waits, it is that of the session being awaited
  (`QueueInv`), a stop names the stream that plays (`HaltInv`), and a session
  whose audio is called stopped, or whose completion is there, is neither in the
  queue nor in the task's hands (`RingOf`). `Prompt` is used in one place, where
  a stream is put into the queue of an idle task.

`PocketNet_proofs` is for every number of promises and sessions, with and without
the loss of a link. `NetTypes` (`TypeOK`) and `ResponseTheorem`
(`ResponseCanBeClosed`) are about any app: a worker is there exactly while `alive`
is set, each was started for a number of its own (`NetShape`), and an open
response has its object until the session's end frees it (`ResponseShape`).

`TimeSync_proofs` is for every limit of the policy, number of sessions and set
of further holders. It proves `TimeTypes` (`TypeOK`), `NoOrphanTheorem`
(`NoOrphanLink`), `SntpTheorem` (`SntpEndsWithLink`), `NoDeinitTheorem`
(`NoDeinitUnderWait`) and `AttemptsTheorem` (`AttemptsAccounted`), and two with a
condition:

- `HoldersTheorem` (`OnlyHoldersStop`) assumes `~PreemptedStop`; with a caller
  preempted inside its stop the property is false (see the table above). Its
  lemma `StopIsWhole` is where the condition is used.
- `AppsFirstTheorem` (`AppsFirst`) assumes `Others = {}`, this firmware, where the
  clock is the only background user of the service. A further holder keeps the
  link up under an app, and nothing in the code asks it to yield.

The invariant is `TimeInv`: the types; what the order of the radio worker's
stores implies about lock, owner and state (`RadioShape`); what the attempt has
in hand at each of its steps (`AttemptShape`); that the policy counts no failure
past its limit (`PolicyShape`), without which `TypeOK` is not inductive; and
`AttemptsAccounted`, which it needs in turn, since an outcome that nobody started
would be counted. `AppsFirst` rests on two more: an app whose yield did not run
out has no attempt beside it (`AppAlone`), and a link of the service is held, is
the one the attempt is waiting to see down, or is one it stopped waiting for
(`LinkAccounted`).

`SysNotices_proofs` is for every number of slots, timers, owners and keys and
every end of the order counter past the number of slots: `NoticeTypes`,
`RoomTheorem` (`RoomForAll`), `DeadlinesTheorem` (`DeadlinesExact`) and
`FirstComeTheorem` (`FirstComeFirstShown`). The model's operators are functions
of the store, so most lemmas are about them: each helper of the code keeps
`StoreInv` (types; different order numbers below the counter, `Ordered`; who
came before has the smaller one, `InLine`; one active notice, and it is the
cached one, `OneActive`), and a call ends in one that makes the deadlines exact.
`sys_notify.c`'s sweep and the timers' round are loops over the slots, which the
model writes as recursive functions of the round. A statement about all rounds
is an induction; it is done by the least round for which the statement fails,
from the well-foundedness of `<` (`Least`, `AllRounds`). That next_order()'s
compaction keeps the order is an argument about ranks: a notice's new number is
how many came before it, and a set has fewer elements than one that properly
contains it.

`CodeEdit_proofs` is about the editor and the store under it, for every set of
texts and slots, every modulus of the sequence numbers from 4 on and any number
of faults. With torn operations and without: `EditTypes`, `OwnTextsTheorem`
(`OwnTextsOnly`), `RunTheorem` (`RunComesBack`) and `DraftTheorem`
(`DraftIsLatest`). Under `~Torn`: `KeptTheorem` (`KeptIsLoaded`) and
`HistoryTheorem`, which says the two faces implement `SourceHistory` step by
step. A header written in part can be the newest face without its text, so
without the condition both are false (see the table above).

- The two faces of a record have consecutive numbers, and a save writes the
  other one with the number after the newest (`StoreInv`). That is why `Newer`,
  a signed difference that is no order in general, picks the newest here, also
  across the wrap: the lemmas on `Succ` need a modulus of 4 and no more.
- `OwnInv`: every text on flash, in the buffer, on its way to flash or parked is
  one of its slot. `KeptInv`: what is being written is not the newest face, and
  the newest is the last that landed. `ShapeInv` says what each stage of a call
  has in hand; `RunInv` follows the text of a run through refusals, the snapshot
  and the restore; `DraftInv` what is parked, from typing to loading it again.

`PocketWorkspace_proofs` is for any apps and what their manifests grant, any
works and texts, and any number of sessions, picks, revisions and faults:
`WorkTypes`, `PickerTheorem` (`PickerHasItsPromise`), `HandOverTheorem`
(`HandOver`) and `WorksTheorem` (`WorksAreSafe`). `WorkInv` joins what they rest
on:

- `TurnInv`: at home there is no guest and nothing of one; a `create()` is between
  its writes only where the guest runs.
- `HandInv`: what is fresh was left by this session, and what lies at home by the
  last one; a run that waits is of a session there was, and of this one exactly as
  long as what it left is fresh. This is what an end of a session that does *not*
  take the run has to keep, together with the one that does.
- `ToldInv`: a revision names a version. Whoever was told the revision the record
  now has was told what it holds; a creation that is taken back gives its revision
  to the next one, but nobody was told of it. So a save that names a revision its
  app was told replaces exactly what it was told.
- `RefsInv`: a reference is the guest's because it made the work or the person
  chose it in this session, and permission because the person chose it since the
  session last slept.

Nine actions only move the session from one phase to the next (`MovesAre`); the
others have a lemma for each part of the invariant they touch. `WorksTheorem` is
an action property: `SafeStep` goes through the steps that write a record.

Each of these invariants was first checked by TLC, on the constants of its run.

Only model-checked: the liveness properties (`EveryPromiseEnds`, `EveryRequestEnds`,
`WorkerEnds`, `EveryAcquireEnds`, `YieldIsHonoured`, `OutcomesCollected`,
`EveryTimerEnds`, `EveryReadEnds`, `QuarantineDrains`, `RemovalEndsPlayer`,
`EveryPickEnds`), which with `ENABLED` is outside what the prover handles; and the
properties of modules that no run keeps. Every safety property a run checks is
also a theorem, the action properties and the refinements included, with the
conditions named above.

## Plan

1. Theorems about the operators below these invariants: that `SdMedia`'s calls
   implement a registry of leases, and what `SourceStore` promises without
   `~Torn`.
2. `VmSched` (budget, floor, stride, suspension), subscriptions of
   `pocket_api.c`, `app_control.c`, overlay valve and budget, the mutex arena.
3. The video readers and the Opus decoder as further users of `SdMedia` and of
   the rings; `pocket_fs.c`'s transactions.
4. `pocket.net`'s suspension and scan; `AppSession` composing sessions, pumps
   and the teardown order with `PocketPromises`.

## Not modelled

- The renderer, scenes, pet, console, shell, text commands and input methods:
  sequential, about pixels and text, and tested from the host.
- Register-level drivers: what they wait for is hardware the source does not
  describe.
- QuickJS-ng, minimp3 and Opus are vendored; the guest is an arbitrary caller.
- The memory arenas and the block cache: allocators over addresses, where a
  small instance says little about the fragmentation that matters.
- Files and storage, overlays, `app_control.c`, the VM scheduler, video and Opus
  are planned and not there yet. The modelled parts use of them only what
  `PROJECT.json` names.
