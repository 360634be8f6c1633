---------------------------- MODULE Mp3Playback ----------------------------
(***************************************************************************)
(* An MP3 on the card, playing: four tasks around two rings.  The owner    *)
(* task (the UI task: src/main/pocket/pocket_av.c, the SD half of          *)
(* src/main/pocket/pocket_fs.c) opens, pauses and stops a player and runs  *)
(* the background music; a session's reader (mp3_sd_session.c) fills the   *)
(* packet ring from the card under a read lease; the decoder (mp3_feed.c)  *)
(* turns packets into PCM; the audio task (src/main/hal/sound.c) plays     *)
(* them.  A stop asks each of the three to leave and waits 200 ms for it;  *)
(* a session whose rings may still be used is quarantined and reaped       *)
(* later.  The card may be pulled, a read may fail, a wait may time out.   *)
(***************************************************************************)
EXTENDS SdMedia, Sequences

CONSTANTS
  Song,         \* how many slots of packets the file has
  RingSlots,    \* SOUND_STREAM_SLOTS
  Prompt,       \* does no other sound keep the audio task from a stream?
  Slow          \* the tasks a stop may wait for in vain, for 200 ms

(* The sessions of mp3_sd_session_start(), numbered in order; a session's  *)
(* number also is its launch number and its stream's id.                   *)
Sessions == Leases
None == 0

ASSUME PlaybackAssumption ==
  /\ Leases = 1 .. Cardinality(Leases)
  /\ {Song, RingSlots} \subseteq Nat \ {0}
  /\ Prompt \in BOOLEAN
  /\ Slow \subseteq {"audio", "decoder", "reader"}

VARIABLES
  sd,           \* the card and its leases, a record of SdMedia
  sess,         \* the sessions
  dec,          \* the decoder's task, with the two commands it is given
  running,
  queue, audio, \* the audio task and its requests
  stream_active, stream_halt, stream_pause,
  done,         \* player_done_seq and player_done_ok
  player,
  owner,        \* what the owner task is waiting for, and why
  app, picker   \* the guest's session and the folder screen

decVars == <<dec, running>>
audioVars == <<queue, audio, stream_active, stream_halt, stream_pause>>
appVars == <<app, picker>>
vars == <<sd, sess, decVars, audioVars, done, player, owner, appVars>>

-----------------------------------------------------------------------------
(* sound_stream_t: single producer, single consumer.                       *)

Ring == [filled : 0 .. Song + 1, drained : 0 .. Song + 1, eof : BOOLEAN]
Rewound == [filled |-> 0, drained |-> 0, eof |-> FALSE]

Full(r) == r.filled - r.drained >= RingSlots
Empty(r) == r.filled = r.drained
Published(r) == [r EXCEPT !.filled = @ + 1]
Released(r, held) == IF held THEN [r EXCEPT !.drained = @ + 1] ELSE r

-----------------------------------------------------------------------------
Session ==
  [st : {"none", "live", "quarantined", "freed"},
   pc : {"off", "signal", "read", "published", "ending", "acked"},
   paused : BOOLEAN, cancel : BOOLEAN,
   terminal : {"reading", "eof", "error", "cancelled"},
   packets : Ring, pcm : Ring,
   audio_stopped : BOOLEAN, decoder_stopped : BOOLEAN,
   faults : BOOLEAN,                           \* mp3_feed_faults()
   saw : BOOLEAN]                              \* history: its read met EIO

NoSession ==
  [st |-> "none", pc |-> "off", paused |-> FALSE,
   cancel |-> FALSE, terminal |-> "reading", packets |-> Rewound,
   pcm |-> Rewound, audio_stopped |-> FALSE, decoder_stopped |-> FALSE,
   faults |-> FALSE, saw |-> FALSE]

Fresh == [NoSession EXCEPT !.st = "live", !.pc = "signal"]

(* dispose(): the memory goes, the lease is closed.                        *)
Disposed(ss, ls) ==
  [s \in Sessions |->
     IF s \in ls THEN [NoSession EXCEPT !.st = "freed", !.pc = "acked"]
                 ELSE ss[s]]

(* A session that was stopped and may still be in use: its three tasks     *)
(* have been told to leave, so what its rings hold decides nothing and is  *)
(* forgotten; a last slot stands for it.                                   *)
Leftover == [filled |-> Song + 1, drained |-> Song, eof |-> TRUE]
Quarantined(x) ==
  [x EXCEPT !.st = "quarantined", !.packets = Leftover, !.pcm = Leftover,
            !.terminal = "cancelled", !.faults = FALSE]

(* Mutant: a decoder that was late is not waited for.                      *)
ReapableEarly ==
  {s \in Sessions : /\ sess[s].st = "quarantined"
                    /\ sd.tok[s].ack
                    /\ sess[s].audio_stopped}

(* Mutant: a decoder that was late is never asked again.                   *)
ReapableOnce ==
  {s \in Sessions : /\ sess[s].st = "quarantined"
                    /\ sd.tok[s].ack
                    /\ sess[s].audio_stopped
                    /\ sess[s].decoder_stopped}

(* mp3_sd_session_reap()                                                   *)
Reapable ==
  {s \in Sessions : /\ sess[s].st = "quarantined"
                    /\ sd.tok[s].ack
                    /\ sess[s].audio_stopped
                    /\ sess[s].decoder_stopped \/ ~running}

DecPCs == {"off", "read", "look", "tail", "decode", "flush", "eof", "out"}
AudioPCs == {"idle", "claim", "check", "play", "look", "tail", "post"}
OwnerPCs == {"idle", "audio", "feed", "ack", "next"}
Whys == {"none", "close", "error", "reset", "suspend", "bgstop", "bgnext",
         "bgend", "busy", "bgbusy"}

(* Every variable holds a value of its kind.                               *)
TypeOK ==
  /\ sd \in Media
  /\ sess \in [Sessions -> Session]
  /\ dec \in [pc : DecPCs, s : Sessions \cup {None}, held : BOOLEAN,
              halt : BOOLEAN, parked : BOOLEAN]
  /\ running \in BOOLEAN
  /\ queue \in Seq(Sessions) /\ Len(queue) <= Cardinality(Sessions)
  /\ audio \in [pc : AudioPCs, s : Sessions \cup {None}, held : BOOLEAN,
                completed : BOOLEAN]
  /\ {stream_active, stream_halt, stream_pause} \subseteq Sessions \cup {None}
  /\ done \in [seq : Sessions \cup {None}, ok : BOOLEAN]
  /\ player \in [open : BOOLEAN, priming : BOOLEAN, bg : BOOLEAN,
                 state : {"ready", "playing", "paused", "ended", "error"},
                 s : Sessions \cup {None}, stream : Sessions \cup {None}]
  /\ owner \in [pc : OwnerPCs, why : Whys, s : Sessions \cup {None},
                audio : BOOLEAN]
  /\ app \in {"home", "app", "overlay"} /\ picker \in {"none", "new", "again"}

NoPlayer == [open |-> FALSE, priming |-> FALSE, bg |-> FALSE,
             state |-> "ready", s |-> None, stream |-> None]
Idle == [pc |-> "idle", why |-> "none", s |-> None, audio |-> TRUE]
NoAudio == [pc |-> "idle", s |-> None, held |-> FALSE, completed |-> FALSE]
NoDecoder == [pc |-> "off", s |-> None, held |-> FALSE, halt |-> FALSE,
              parked |-> FALSE]

Init ==
  /\ sd = SdInit
  /\ sess = [s \in Sessions |-> NoSession]
  /\ dec = NoDecoder
  /\ running = FALSE
  /\ queue = <<>> /\ audio = NoAudio
  /\ stream_active = None /\ stream_halt = None /\ stream_pause = None
  /\ done = [seq |-> None, ok |-> FALSE]
  /\ player = NoPlayer /\ owner = Idle
  /\ app = "home" /\ picker = "none"

(* mp3_feed_stop() and mp3_feed_pause() store their command whether there  *)
(* is a decoder or not; mp3_feed_start() takes both back.                  *)
Told(halt, parked) ==
  IF running THEN [dec EXCEPT !.halt = halt, !.parked = parked] ELSE dec

-----------------------------------------------------------------------------
(* The reader, sd_worker() and mp3_sd_reader.h.  Its waits are 5 ms at     *)
(* most, so a notification that is missed only makes it late.              *)

ReaderOnly == UNCHANGED <<decVars, audioVars, done, player, owner,
                          appVars>>
Reader(s, pc) == sess[s].st \in {"live", "quarantined"} /\ sess[s].pc = pc

(* mp3_sd_reader_signal(): a stop, or a revoked lease.  The eof of a       *)
(* source that is gone and the store that says why are one step: what is   *)
(* left to play behind the eof outlasts the two instructions.              *)
Signal(s) == sess[s].cancel \/ sd.tok[s].revoked
Failing(x) ==
  [x EXCEPT !.packets.eof = TRUE, !.terminal = "error", !.pc = "ending"]
Signalled(x) ==
  IF x.cancel THEN [x EXCEPT !.terminal = "cancelled", !.pc = "ending"]
              ELSE Failing(x)

(* Mutant: a paused reader does not look for a stop or a removal.          *)
ReaderSignalUnpaused(s) ==
  /\ Reader(s, "signal") /\ ~sess[s].paused
  /\ \/ /\ Signal(s)
        /\ sess' = [sess EXCEPT ![s] = Signalled(@)]
     \/ /\ ~Signal(s)
        /\ ~Full(sess[s].packets)
        /\ sess' = [sess EXCEPT ![s].pc = "read"]
  /\ UNCHANGED sd /\ ReaderOnly

(* The top of the loop, and mp3_sd_reader_step() up to the read            *)
ReaderSignal(s) ==
  /\ Reader(s, "signal")
  /\ \/ /\ Signal(s)
        /\ sess' = [sess EXCEPT ![s] = Signalled(@)]
     \/ /\ ~Signal(s) /\ ~sess[s].paused
        /\ ~Full(sess[s].packets)
        /\ sess' = [sess EXCEPT ![s].pc = "read"]
  /\ UNCHANGED sd /\ ReaderOnly

(* sd_media_read_lease_read_at() comes back with the bytes, with the error *)
(* of a card that is gone, or with another one; a stop or a removal during *)
(* the read discards the slot.                                             *)
ReaderGot(s) ==
  /\ Reader(s, "read")
  /\ \E ok \in BOOLEAN :
       /\ ok => sd.answers
       /\ sess' = [sess EXCEPT ![s] =
            LET x == [@ EXCEPT !.saw = ~sd.answers]
            IN  IF Signal(s) THEN Signalled(x)
                ELSE IF ~ok THEN Failing(x)
                ELSE [x EXCEPT !.packets = Published(@), !.pc = "published"]]
  /\ sd' = [sd EXCEPT !.tok[s].fault = ~sd.answers]
  /\ ReaderOnly

(* Mutant: one slot too many.                                              *)
ReaderEofLate(s) ==
  /\ Reader(s, "published")
  /\ sess' = [sess EXCEPT ![s] =
       IF @.packets.filled > Song
         THEN [@ EXCEPT !.packets.eof = TRUE, !.terminal = "eof",
                        !.pc = "ending"]
         ELSE [@ EXCEPT !.pc = "signal"]]
  /\ UNCHANGED sd /\ ReaderOnly

(* The last slot is published first, then eof.                             *)
ReaderEof(s) ==
  /\ Reader(s, "published")
  /\ sess' = [sess EXCEPT ![s] =
       IF @.packets.filled = Song
         THEN [@ EXCEPT !.packets.eof = TRUE, !.terminal = "eof",
                        !.pc = "ending"]
         ELSE [@ EXCEPT !.pc = "signal"]]
  /\ UNCHANGED sd /\ ReaderOnly

(* The worker acknowledges: its last use of the session.                   *)
ReaderAck(s) ==
  /\ Reader(s, "ending")
  /\ sess' = [sess EXCEPT ![s].pc = "acked"]
  /\ sd' = [sd EXCEPT !.tok[s].ack = TRUE]
  /\ ReaderOnly

ReaderStep(s) ==
  ReaderSignal(s) \/ ReaderGot(s) \/ ReaderEof(s) \/ ReaderAck(s)

-----------------------------------------------------------------------------
(* The decoder, worker() of mp3_feed.c.  One slot of packets makes one     *)
(* slot of PCM; the flush at the end publishes one more.                   *)

DecoderOnly == UNCHANGED <<sd, audioVars, done, player, owner, appVars>>
Packets == sess[dec.s].packets
Pcm == sess[dec.s].pcm
Decoder(pc) == dec' = [dec EXCEPT !.pc = pc]

(* Where a slot is taken, the decoder goes on with it.                     *)
DecTakes ==
  /\ ~Empty(Packets)
  /\ dec' = [dec EXCEPT !.pc = "decode", !.held = TRUE]

(* read_bytes(): the slot that was used up is given back, the next taken.  *)
DecRead ==
  /\ dec.pc = "read"
  /\ dec.halt \/ ~dec.parked
  /\ LET left == Released(Packets, dec.held)
     IN  IF dec.halt THEN Decoder("out") /\ UNCHANGED sess
         ELSE /\ sess' = [sess EXCEPT ![dec.s].packets = left]
              /\ dec' = IF Empty(left)
                          THEN [dec EXCEPT !.pc = "look", !.held = FALSE]
                          ELSE [dec EXCEPT !.pc = "decode", !.held = TRUE]
  /\ UNCHANGED running /\ DecoderOnly

(* Nothing to take: eof says whether there will be.                        *)
DecLook ==
  /\ dec.pc = "look"
  /\ \/ dec.halt /\ Decoder("out")
     \/ ~dec.halt /\ ~dec.parked /\ Packets.eof /\ Decoder("tail")
     \/ ~dec.halt /\ ~dec.parked /\ ~Packets.eof /\ DecTakes
  /\ UNCHANGED <<sess, running>> /\ DecoderOnly

(* eof is set: the ring once more, then the end.  A file that was cut off  *)
(* may end inside a frame, one without a frame always does.                *)
DecTail ==
  /\ dec.pc = "tail"
  /\ \/ DecTakes /\ UNCHANGED sess
     \/ /\ Empty(Packets) /\ Decoder("flush")
        /\ \E f \in BOOLEAN :
             /\ Packets.filled = 0 => f
             /\ Packets.filled = Song => ~f
             /\ sess' = [sess EXCEPT ![dec.s].faults = ~dec.halt /\ f]
  /\ UNCHANGED running /\ DecoderOnly

(* pocket_mp3_decode() through output(): it waits for a free slot of PCM.  *)
DecDecode ==
  /\ dec.pc = "decode"
  /\ \/ dec.halt /\ Decoder("out") /\ UNCHANGED sess
     \/ /\ ~dec.halt /\ ~dec.parked /\ ~Full(Pcm)
        /\ sess' = [sess EXCEPT ![dec.s].pcm = Published(@)]
        /\ Decoder("read")
     \/ /\ ~dec.halt
        /\ sess' = [sess EXCEPT ![dec.s].faults = TRUE]
        /\ Decoder("flush")
  /\ UNCHANGED running /\ DecoderOnly

(* What is left is published, then eof.                                    *)
DecFlush ==
  /\ dec.pc = "flush"
  /\ \/ dec.halt /\ Decoder("out") /\ UNCHANGED sess
     \/ /\ ~dec.halt /\ ~Full(Pcm)
        /\ sess' = [sess EXCEPT ![dec.s].pcm = Published(@)]
        /\ Decoder("eof")
  /\ UNCHANGED running /\ DecoderOnly
DecEof ==
  /\ dec.pc = "eof"
  /\ sess' = [sess EXCEPT ![dec.s].pcm.eof = TRUE]
  /\ Decoder("out")
  /\ UNCHANGED running /\ DecoderOnly

(* The last use of the rings; running = false comes after it.              *)
DecOut ==
  /\ dec.pc = "out"
  /\ sess' = [sess EXCEPT ![dec.s].packets = Released(@, dec.held)]
  /\ running' = FALSE /\ dec' = NoDecoder
  /\ DecoderOnly

DecoderStep ==
  \/ DecRead \/ DecLook \/ DecTail \/ DecDecode \/ DecFlush \/ DecEof
  \/ DecOut

-----------------------------------------------------------------------------
(* The audio task, audio_task() and play_stream() of sound.c.  A block of  *)
(* silence, and a sample of a slot it holds, change nothing here.          *)

AudioOnly == UNCHANGED <<sd, decVars, player, owner, appVars>>
Stopped == stream_halt = audio.s

(* xQueueReceive(); while another sound plays, the task takes nothing.     *)
AudioTake ==
  /\ audio.pc = "idle" /\ queue # <<>>
  /\ queue' = Tail(queue)
  /\ audio' = [NoAudio EXCEPT !.pc = "claim", !.s = Head(queue)]
  /\ UNCHANGED <<sess, stream_active, stream_halt, stream_pause, done>>
  /\ AudioOnly

(* Claim first, then look for a stop.                                      *)
AudioClaim ==
  /\ audio.pc = "claim"
  /\ stream_active' = audio.s
  /\ audio' = [audio EXCEPT !.pc = "check"]
  /\ UNCHANGED <<sess, queue, stream_halt, stream_pause, done>> /\ AudioOnly
AudioCheck ==
  /\ audio.pc = "check"
  /\ IF Stopped
       THEN stream_active' = None /\ audio' = [audio EXCEPT !.pc = "post"]
       ELSE audio' = [audio EXCEPT !.pc = "play"] /\ UNCHANGED stream_active
  /\ UNCHANGED <<sess, queue, stream_halt, stream_pause, done>> /\ AudioOnly

(* The last use of the ring; then the stream is no longer active.          *)
Leaves(completed) ==
  /\ sess' = [sess EXCEPT ![audio.s].pcm = Released(@, audio.held)]
  /\ stream_pause' = IF stream_pause = audio.s THEN None ELSE stream_pause
  /\ stream_active' = None
  /\ audio' = [audio EXCEPT !.pc = "post", !.held = FALSE,
                            !.completed = completed]
Stays == UNCHANGED <<stream_active, stream_pause>>

(* A stop, seen at the next block; SOUND_STREAM_STARVE_BLOCKS underruns.   *)
AudioBreak ==
  /\ \/ audio.pc \in {"play", "look"} /\ Stopped
     \/ /\ audio.pc = "look" /\ ~Stopped /\ stream_pause # audio.s
        /\ Empty(sess[audio.s].pcm) /\ ~sess[audio.s].pcm.eof
  /\ Leaves(FALSE)
  /\ UNCHANGED <<queue, stream_halt, done>> /\ AudioOnly

(* A write to the codec that fails, which it need not do.                  *)
CodecFails ==
  /\ audio.pc \in {"play", "look"} /\ ~Stopped
  /\ Leaves(FALSE)
  /\ UNCHANGED <<queue, stream_halt, done>> /\ AudioOnly

(* stream_sample(): the slot that was played is given back, the next taken *)
AudioPlay ==
  /\ audio.pc = "play" /\ ~Stopped /\ stream_pause # audio.s
  /\ LET left == Released(sess[audio.s].pcm, audio.held)
     IN  /\ sess' = [sess EXCEPT ![audio.s].pcm = left]
         /\ audio' = [audio EXCEPT !.pc = IF Empty(left) THEN "look" ELSE @,
                                   !.held = ~Empty(left)]
  /\ Stays /\ UNCHANGED <<queue, stream_halt, done>> /\ AudioOnly

(* Nothing to take: the end if eof says so, an underrun if not.            *)
AudioLook ==
  /\ audio.pc = "look" /\ ~Stopped /\ stream_pause # audio.s
  /\ sess[audio.s].pcm.eof \/ ~Empty(sess[audio.s].pcm)
  /\ audio' = [audio EXCEPT !.pc = IF sess[audio.s].pcm.eof THEN "tail"
                                                            ELSE "play"]
  /\ Stays /\ UNCHANGED <<sess, queue, stream_halt, done>> /\ AudioOnly

(* Mutant: eof is the end.                                                 *)
AudioTailUnchecked ==
  /\ audio.pc = "tail" /\ Leaves(TRUE)
  /\ UNCHANGED <<queue, stream_halt, done>> /\ AudioOnly

(* eof is set: the ring once more, then the end.                           *)
AudioTail ==
  /\ audio.pc = "tail"
  /\ \/ /\ ~Empty(sess[audio.s].pcm)
        /\ audio' = [audio EXCEPT !.pc = "play"] /\ Stays /\ UNCHANGED sess
     \/ Empty(sess[audio.s].pcm) /\ Leaves(TRUE)
  /\ UNCHANGED <<queue, stream_halt, done>> /\ AudioOnly

(* clip_done(); the completion of a launch that was stopped, whose number  *)
(* the owner has moved past, matches nothing and is dropped here.          *)
AudioPost ==
  /\ audio.pc = "post"
  /\ done' = IF player.stream = audio.s
               THEN [seq |-> audio.s, ok |-> audio.completed] ELSE done
  /\ audio' = NoAudio
  /\ UNCHANGED <<sess, queue, stream_active, stream_halt, stream_pause>>
  /\ AudioOnly

AudioStep ==
  \/ AudioTake \/ AudioClaim \/ AudioCheck \/ AudioBreak
  \/ AudioPlay \/ AudioLook \/ AudioTail \/ AudioPost

-----------------------------------------------------------------------------
(* The owner task: a stop, step by step.  `why` says who asked for it.     *)

OwnerOnly == UNCHANGED <<running, queue, audio, stream_active, done>>
SilentOwner == OwnerOnly /\ UNCHANGED <<dec, stream_halt, stream_pause>>
OwnerIdle == owner.pc = "idle"
HoldsCard(p) == p.bg /\ p.open

(* player_halt() begins: with the audio task if there is a stream, with    *)
(* the decoder if there is none.                                           *)
HaltBegins(p, why) ==
  IF p.stream # None
    THEN /\ stream_halt' = p.stream
         /\ owner' = [Idle EXCEPT !.pc = "audio", !.why = why, !.s = p.s]
         /\ player' = p /\ UNCHANGED dec
    ELSE /\ dec' = Told(TRUE, dec.parked)
         /\ owner' = [Idle EXCEPT !.pc = "feed", !.why = why, !.s = p.s]
         /\ player' = [p EXCEPT !.priming = FALSE] /\ UNCHANGED stream_halt

(* sound_stream_stop() comes back, by its answer or after 200 ms.          *)
HaltAudio ==
  /\ owner.pc = "audio"
  /\ stream_active = player.stream => "audio" \in Slow
  /\ owner' = [owner EXCEPT !.pc = "feed",
                            !.audio = stream_active # player.stream]
  /\ stream_pause' =
       IF stream_pause = player.stream THEN None ELSE stream_pause
  /\ dec' = Told(TRUE, dec.parked)
  /\ UNCHANGED <<sd, sess, stream_halt, player, appVars>>
  /\ OwnerOnly

(* player_teardown() once the halt is over                                 *)
TornDown(p) == [NoPlayer EXCEPT !.bg = p.bg]

(* pocket_fs_reset(), pocket_fs_suspend(): the folder screen closes, and   *)
(* the card goes unless the background music reads it.                     *)
FsReset(card, p) ==
  LET closed == IF picker = "new" THEN Unmounted(card) ELSE card
  IN  IF HoldsCard(p) THEN closed ELSE Unmounted(closed)

(* What the one who asked does when player_halt() is back.                 *)
Halted(card) ==
  LET p == [player EXCEPT !.s = None, !.stream = None]
  IN  \/ /\ owner.why = "error"
         /\ player' = [p EXCEPT !.state = "error"] /\ sd' = card
         /\ owner' = Idle /\ UNCHANGED appVars
      \/ /\ owner.why = "close"
         /\ player' = TornDown(p) /\ sd' = card
         /\ owner' = Idle /\ UNCHANGED appVars
      \/ /\ owner.why = "reset"
         /\ player' = TornDown(p) /\ sd' = FsReset(card, NoPlayer)
         /\ app' = "home" /\ picker' = "none"
         /\ owner' = Idle
      \/ /\ owner.why = "suspend"
         /\ player' = TornDown(p) /\ sd' = FsReset(card, NoPlayer)
         /\ picker' = "none"
         /\ owner' = Idle /\ UNCHANGED app
      \/ /\ owner.why = "bgstop"
         /\ player' = NoPlayer /\ sd' = Serviced(Unmounted(card))
         /\ owner' = Idle /\ UNCHANGED appVars
      \/ /\ owner.why = "bgnext"
         /\ player' = TornDown(p) /\ sd' = card
         /\ owner' = [Idle EXCEPT !.pc = "next"] /\ UNCHANGED appVars
      \/ /\ owner.why = "bgend"
         /\ player' = NoPlayer /\ sd' = card
         /\ owner' = Idle /\ UNCHANGED appVars
      \/ /\ owner.why = "busy"
         /\ player' = p /\ sd' = card
         /\ owner' = Idle /\ UNCHANGED appVars
      \/ /\ owner.why = "bgbusy"
         /\ player' = p /\ sd' = card
         /\ owner' = [Idle EXCEPT !.pc = "feed", !.why = "bgend"]
         /\ UNCHANGED appVars

(* mp3_feed_stop() comes back; mp3_sd_session_stop() cancels and revokes.  *)
HaltFeed ==
  /\ owner.pc = "feed"
  /\ running => "decoder" \in Slow
  /\ IF owner.s = None
       THEN Halted(sd) /\ UNCHANGED sess
       ELSE /\ owner' = [owner EXCEPT !.pc = "ack"]
            /\ sess' = [sess EXCEPT ![owner.s] =
                          [@ EXCEPT !.cancel = TRUE, !.paused = FALSE,
                                    !.audio_stopped = owner.audio,
                                    !.decoder_stopped = ~running]]
            /\ sd' = [sd EXCEPT !.tok[owner.s].revoked = TRUE]
            /\ UNCHANGED <<player, appVars>>
  /\ SilentOwner

(* Mutant: the reader's acknowledgement frees the session.                 *)
HaltAckFrees ==
  /\ owner.pc = "ack"
  /\ ~sd.tok[owner.s].ack => "reader" \in Slow
  /\ LET s == owner.s
     IN  /\ sess' = IF sd.tok[s].ack THEN Disposed(sess, {s})
                    ELSE [sess EXCEPT ![s] = Quarantined(@)]
         /\ Halted(IF sd.tok[s].ack THEN Closed(sd, {s}) ELSE sd)
  /\ dec' = Told(dec.halt \/ owner.why = "bgbusy", dec.parked)
  /\ UNCHANGED <<stream_halt, stream_pause>>
  /\ OwnerOnly

(* The reader has acknowledged, or 200 ms are over: the session is         *)
(* disposed of or quarantined.                                             *)
HaltAck ==
  /\ owner.pc = "ack"
  /\ ~sd.tok[owner.s].ack => "reader" \in Slow
  /\ LET s == owner.s
         free == sd.tok[s].ack /\ sess[s].audio_stopped
                 /\ sess[s].decoder_stopped
     IN  /\ sess' = IF free THEN Disposed(sess, {s})
                    ELSE [sess EXCEPT ![s] = Quarantined(@)]
         /\ Halted(IF free THEN Closed(sd, {s}) ELSE sd)
  /\ dec' = Told(dec.halt \/ owner.why = "bgbusy", dec.parked)
  /\ UNCHANGED <<stream_halt, stream_pause>>
  /\ OwnerOnly

OwnerWaits == HaltAudio \/ HaltFeed \/ HaltAck

-----------------------------------------------------------------------------
(* The owner task: what the app, the person and the frame make it do.      *)

Used == Cardinality({s \in Sessions : sess[s].st # "none"})
InApp == OwnerIdle /\ app # "home"

(* A session whose decoder did not start is stopped.  Its reader has run   *)
(* since the lease was attached and may be inside a read.                  *)
Unplayed ==
  {[Fresh EXCEPT !.pc = pc, !.cancel = TRUE, !.audio_stopped = TRUE,
                 !.decoder_stopped = TRUE] : pc \in {"signal", "read"}}

(* player_launch(): the old sessions are reaped, a lease is attached, the  *)
(* decoder is started.  A decoder that is still running, or no memory for  *)
(* another, takes the session down again.                                  *)
Launch(p, card, ss, busy) ==
  LET s == Used + 1
      attached == Attached(card, s)
  IN  /\ s \in Sessions /\ Usable(card) /\ MayAttach(card, s)
      /\ card.answers
      /\ \/ /\ ~running
            /\ sess' = [ss EXCEPT ![s] = Fresh] /\ sd' = attached
            /\ dec' = [NoDecoder EXCEPT !.pc = "read", !.s = s]
            /\ running' = TRUE
            /\ player' = [p EXCEPT !.s = s, !.state = "playing",
                                   !.priming = TRUE]
            /\ owner' = Idle
         \/ /\ \E x \in Unplayed : sess' = [ss EXCEPT ![s] = x]
            /\ sd' = [attached EXCEPT !.tok[s].revoked = TRUE]
            /\ player' = p
            /\ owner' = [Idle EXCEPT !.pc = "ack", !.why = busy, !.s = s]
            /\ UNCHANGED decVars

(* M_PLAY of a player that is ready                                        *)
Play ==
  /\ InApp /\ player.open /\ ~player.bg /\ player.state = "ready"
  /\ Launch(player, Closed(sd, Reapable), Disposed(sess, Reapable), "busy")
  /\ UNCHANGED <<audioVars, done, appVars>>

(* M_PLAY of a player that is paused: a stream that is over is not resumed *)
Resume ==
  /\ InApp /\ player.open /\ ~player.bg /\ player.state = "paused"
  /\ \/ player.stream = None /\ player.priming /\ UNCHANGED stream_pause
     \/ /\ player.stream # None /\ stream_pause = player.stream
        /\ stream_pause' = None
  /\ dec' = Told(dec.halt, FALSE)
  /\ sess' = [sess EXCEPT ![player.s].paused = FALSE]
  /\ player' = [player EXCEPT !.state = "playing"]
  /\ UNCHANGED <<sd, stream_halt, owner, appVars>> /\ OwnerOnly

(* M_PAUSE: the decoder and both rings are kept.                           *)
Pause ==
  /\ InApp /\ player.open /\ ~player.bg /\ player.state = "playing"
  /\ stream_pause' = IF player.stream # None /\ stream_halt # player.stream
                       THEN player.stream ELSE stream_pause
  /\ dec' = Told(dec.halt, TRUE)
  /\ sess' = [sess EXCEPT ![player.s].paused = TRUE]
  /\ player' = [player EXCEPT !.state = "paused"]
  /\ UNCHANGED <<sd, stream_halt, owner, appVars>> /\ OwnerOnly

(* M_CLOSE                                                                 *)
Close ==
  /\ InApp /\ player.open /\ ~player.bg
  /\ HaltBegins(player, "close")
  /\ UNCHANGED <<sd, sess, stream_pause, appVars>> /\ OwnerOnly

(* js_player_open(), and any other call of the app that reads the card:    *)
(* the background music is stopped first, a card that is gone is noticed.  *)
Open ==
  /\ InApp /\ Usable(sd) /\ ~player.bg /\ ~player.open
  /\ IF sd.answers
       THEN player' = [NoPlayer EXCEPT !.open = TRUE] /\ UNCHANGED sd
       ELSE sd' = NoteError(sd) /\ UNCHANGED player
  /\ UNCHANGED <<sess, owner, appVars>>
  /\ SilentOwner
CardRead ==
  /\ InApp /\ Usable(sd) /\ ~player.bg /\ ~sd.answers
  /\ sd' = NoteError(sd)
  /\ UNCHANGED <<sess, player, owner, appVars>>
  /\ SilentOwner

(* sd_picker_request(): the one mount in the firmware                      *)
RequestFolder ==
  /\ InApp /\ picker = "none" /\ ~player.bg
  /\ sd.gen < MaxGen
  /\ \E outcome \in Outcomes :
       LET m == MountedAs(sd, outcome)
       IN  /\ sd' = m
           /\ picker' = IF m.state # "ready" THEN "none"
                        ELSE IF sd.granted THEN "again" ELSE "new"
  /\ UNCHANGED <<sess, decVars, audioVars, done, player, owner, app>>

(* picker_finish(): a folder was chosen, or none was.                      *)
FolderChosen ==
  /\ InApp /\ picker # "none"
  /\ sd' = Granted(sd) /\ picker' = "none"
  /\ UNCHANGED <<sess, player, owner, app>>
  /\ SilentOwner
FolderDeclined ==
  /\ InApp /\ picker # "none"
  /\ sd' = IF picker = "new" THEN Unmounted(sd) ELSE sd
  /\ picker' = "none"
  /\ UNCHANGED <<sess, player, owner, app>>
  /\ SilentOwner

(* pocket_fs_pump(), once in every turn of a session                       *)
FsPump ==
  /\ InApp
  /\ sd' = Serviced(sd)
  /\ UNCHANGED <<sess, player, owner, appVars>>
  /\ SilentOwner

-----------------------------------------------------------------------------
(* player_service_stream(): reap, then what the player's state asks for.   *)

Reaps == /\ sess' = Disposed(sess, Reapable)
         /\ sd' = Closed(sd, Reapable)

ServiceRest ==
  /\ OwnerIdle
  /\ sess' = Disposed(sess, Reapable)
  /\ sd' = LET closed == Closed(sd, Reapable)
           IN  IF HoldsCard(player) THEN Serviced(closed) ELSE closed
  /\ UNCHANGED <<player, owner, appVars>>
  /\ SilentOwner

(* A paused player whose source is gone                                    *)
ServicePausedFault ==
  /\ OwnerIdle /\ player.open /\ player.state = "paused" /\ player.s # None
  /\ sess[player.s].terminal = "error"
  /\ Reaps /\ HaltBegins(player, "error")
  /\ UNCHANGED <<stream_pause, appVars>> /\ OwnerOnly

Priming == /\ OwnerIdle /\ player.open /\ player.priming
           /\ player.state = "playing" /\ player.s # None

(* With no other sound ahead of it an idle audio task takes a request, and *)
(* looks for a stop, before the owner has another stream to start.         *)
AudioPrompt == Prompt => queue = <<>> /\ audio.pc \notin {"claim", "check"}

(* The first slot, or the end, is there: sound_stream_start(), which the   *)
(* queue of the other sounds, or a recording, may refuse.                  *)
ServiceStart ==
  /\ Priming /\ AudioPrompt
  /\ sess[player.s].pcm.filled > 0 \/ sess[player.s].pcm.eof
  /\ Reaps
  /\ \/ /\ queue' = Append(queue, player.s)
        /\ player' = [player EXCEPT !.priming = FALSE, !.stream = player.s]
        /\ UNCHANGED <<dec, stream_halt, owner>>
     \/ /\ HaltBegins([player EXCEPT !.priming = FALSE], "error")
        /\ UNCHANGED queue
  /\ UNCHANGED <<running, audio, stream_active, stream_pause, done, appVars>>

(* PLAYER_PRIME_FRAMES without either                                      *)
ServicePrimeTimeout ==
  /\ Priming
  /\ sess[player.s].pcm = Rewound
  /\ Reaps /\ HaltBegins(player, "error")
  /\ UNCHANGED <<stream_pause, appVars>> /\ OwnerOnly

(* The audio task's completion of this launch                              *)
ServiceDone ==
  /\ OwnerIdle /\ player.open
  /\ player.stream # None /\ done.seq = player.stream
  /\ Reaps
  /\ done' = [done EXCEPT !.seq = None]
  /\ stream_pause' =
       IF stream_pause = player.stream /\ stream_halt # player.stream
         THEN None ELSE stream_pause
  /\ LET ok == done.ok /\ ~sess[player.s].faults
           /\ sess[player.s].terminal # "error"
     IN  player' = [player EXCEPT !.stream = None,
                                  !.state = IF ok THEN "ended" ELSE "error"]
  /\ UNCHANGED <<decVars, queue, audio, stream_active, stream_halt,
                 owner, appVars>>

-----------------------------------------------------------------------------
(* The background music: bg_service(), pocket_av_background_stop() and the *)
(* session's end, app_stop().                                              *)

(* A tone, a recording, another player, the card, the memory or Back       *)
BackgroundStop ==
  /\ OwnerIdle /\ HoldsCard(player)
  /\ HaltBegins(player, "bgstop")
  /\ UNCHANGED <<sd, sess, stream_pause, appVars>> /\ OwnerOnly

(* The song is over: the player is torn down for the next file.            *)
BackgroundNext ==
  /\ OwnerIdle /\ HoldsCard(player) /\ player.state = "ended"
  /\ HaltBegins(player, "bgnext")
  /\ UNCHANGED <<sd, sess, stream_pause, appVars>> /\ OwnerOnly

(* The next file opens and is launched, or there is none that will play.   *)
BackgroundLaunch ==
  /\ owner.pc = "next"
  /\ \/ Launch([player EXCEPT !.open = TRUE], Closed(sd, Reapable),
               Disposed(sess, Reapable), "bgbusy")
     \/ /\ player' = NoPlayer /\ owner' = Idle
        /\ sd' = IF Usable(sd) /\ ~sd.answers THEN NoteError(sd) ELSE sd
        /\ UNCHANGED <<sess, decVars>>
  /\ UNCHANGED <<audioVars, done, appVars>>

(* player.current()                                                        *)
Adopt ==
  /\ InApp /\ HoldsCard(player)
  /\ player' = [player EXCEPT !.bg = FALSE]
  /\ UNCHANGED <<sd, sess, owner, appVars>>
  /\ SilentOwner

AppStarts(kind) ==
  /\ OwnerIdle /\ app = "home"
  /\ app' = kind
  /\ UNCHANGED <<sd, sess, player, owner, picker>>
  /\ SilentOwner

(* app_stop(): pocket_av_reset() and then pocket_fs_reset().  An overlay   *)
(* that gives the display away leaves what it plays to the host; music     *)
(* that is the host's already goes on.                                     *)
AppEnds ==
  /\ InApp
  /\ \/ /\ \/ player.bg \/ ~player.open
           \/ app = "overlay" /\ player.state = "playing"
        /\ LET p == [player EXCEPT !.bg = player.open]
           IN  player' = p /\ sd' = FsReset(sd, p)
        /\ app' = "home" /\ picker' = "none"
        /\ UNCHANGED <<dec, stream_halt, owner>>
     \/ /\ player.open /\ ~player.bg
        /\ HaltBegins(player, "reset") /\ UNCHANGED <<sd, appVars>>
  /\ UNCHANGED <<sess, stream_pause>> /\ OwnerOnly

(* pocket_av_suspend() and pocket_fs_suspend(): a source on the card is    *)
(* closed, the program stays.                                              *)
Suspend ==
  /\ InApp /\ app = "app"
  /\ IF player.open /\ ~player.bg
       THEN HaltBegins(player, "suspend") /\ UNCHANGED <<sd, picker>>
       ELSE /\ sd' = FsReset(sd, player) /\ picker' = "none"
            /\ UNCHANGED <<dec, stream_halt, player, owner>>
  /\ UNCHANGED <<sess, stream_pause, app>>
  /\ OwnerOnly

-----------------------------------------------------------------------------
(* What nobody on the board decides.                                       *)

(* The card is pulled: the one under the VFS answers no more.              *)
CardPulled ==
  /\ sd.answers /\ sd' = [sd EXCEPT !.answers = FALSE]
  /\ UNCHANGED <<sess, decVars, audioVars, done, player, owner, appVars>>

Service == \/ ServiceRest \/ ServicePausedFault \/ ServiceStart
           \/ ServicePrimeTimeout \/ ServiceDone

Next ==
  \/ \E s \in Sessions : ReaderStep(s)
  \/ DecoderStep \/ AudioStep \/ CodecFails \/ OwnerWaits \/ Service
  \/ Play \/ Resume \/ Pause \/ Close \/ Open \/ CardRead
  \/ RequestFolder \/ FolderChosen \/ FolderDeclined \/ FsPump
  \/ BackgroundStop \/ BackgroundNext \/ BackgroundLaunch \/ Adopt
  \/ \E kind \in {"app", "overlay"} : AppStarts(kind)
  \/ AppEnds \/ Suspend \/ CardPulled

Spec == Init /\ [][Next]_vars

(* The three workers run; the owner's waits are bounded, and the main loop *)
(* calls pocket_av_service_stream() in every frame.                        *)
Fairness ==
  /\ \A s \in Sessions : WF_vars(ReaderStep(s))
  /\ WF_vars(DecoderStep) /\ WF_vars(AudioStep)
  /\ WF_vars(OwnerWaits \/ BackgroundLaunch)
  /\ SF_vars(ServiceRest)
  /\ SF_vars(ServicePausedFault \/ ServiceStart \/ ServiceDone)

FairSpec == Spec /\ Fairness

-----------------------------------------------------------------------------
(* Who may still touch a session's memory.                                 *)
ReaderIn(s) == sess[s].st \in {"live", "quarantined"} /\ sess[s].pc # "acked"
DecoderIn(s) == dec.s = s /\ dec.pc # "off"
AudioIn(s) == audio.s = s /\ audio.pc \in {"play", "look", "tail"}

(* A read of the card is under way only while the card it was opened on is *)
(* under the VFS: sd_media_service() unmounts, and sd_media_mount() puts   *)
(* another in its place, after the last reader has acknowledged, whatever  *)
(* is stopped, pulled, suspended or timed out in between.                  *)
ReadsAreMounted ==
  \A s \in Sessions :
    Reader(s, "read") => sd.card # 0 /\ sd.card = sd.tok[s].gen

(* The rings of a session are freed when no task can touch them any more:  *)
(* mp3_sd_session_stop() and mp3_sd_session_reap() with the handshakes of  *)
(* sound_stream_stop() and mp3_feed_stop(), and a decoder never works on   *)
(* the rings of two sessions.                                              *)
RingsAreHeld ==
  \A s \in Sessions :
    sess[s].st = "freed" => ~DecoderIn(s) /\ ~AudioIn(s)

(* A player that says "ended" has played the file to its last slot: no     *)
(* tail is lost between a ring's last slot and its eof, and no pulled      *)
(* card, failed read or late completion passes for the end of a song.      *)
EndedPlayedAll ==
  player.state = "ended" =>
    LET x == sess[player.s]
    IN  /\ x.packets.filled = Song /\ Empty(x.packets)
        /\ x.pcm.filled = Song + 1 /\ Empty(x.pcm)

(* A card a worker found gone does not stay in use: when the session that  *)
(* met the error is disposed of, in a stop or by the reaper, the volume it *)
(* read is no longer ready, so detaching its lease hid no removal.         *)
RemovalIsTold ==
  [][\A s \in Sessions :
       sess[s].saw /\ sess'[s].st = "freed" =>
         ~(sd'.state = "ready" /\ sd'.gen = sd.tok[s].gen)]_vars

(* A session that was quarantined after the audio task had left it is      *)
(* reaped: its reader acknowledges, its decoder ends.                      *)
QuarantineDrains ==
  \A s \in Sessions :
    (sess[s].st = "quarantined" /\ sess[s].audio_stopped)
      ~> (sess[s].st = "freed")

(* A player whose lease was revoked does not go on playing, and does not   *)
(* stay paused, unless its reader already had the whole file: a paused     *)
(* decoder cannot consume the eof, so the owner task ends the player.      *)
RemovalEndsPlayer ==
  \A s \in Sessions :
    (player.s = s /\ sd.tok[s].revoked)
      ~> \/ player.s # s
         \/ player.state \in {"ended", "error"}
         \/ sess[s].terminal = "eof"

(* "The card is one session's": once no session runs and no music of the   *)
(* host plays, nothing is left of the grant the last app was given.        *)
GrantEndsWithSession ==
  app = "home" /\ ~player.bg /\ owner.pc = "idle" => ~sd.granted
=============================================================================
