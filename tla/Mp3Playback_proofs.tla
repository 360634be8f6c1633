------------------------- MODULE Mp3Playback_proofs -------------------------
(***************************************************************************)
(* Theorems about the card, its readers and the tasks around the rings,    *)
(* for every number of sessions, mounts and slots, whoever is slow and     *)
(* whatever is pulled: a read finds its card under the VFS, a card that is *)
(* found gone is told, a song that is over was played to its end, and no   *)
(* ring is freed under a task.                                             *)
(***************************************************************************)
EXTENDS Mp3Playback, FiniteSetTheorems, SequenceTheorems, TLAPS

-----------------------------------------------------------------------------
(* What the card's record always satisfies: a lease that is out pins the   *)
(* card it was opened on; an unmount that is due and a registry that takes *)
(* leases exclude each other; a lease that is out is either of the volume  *)
(* that is ready or holds an unmount up.                                   *)
CardOK(d) ==
  /\ d \in Media
  /\ \A l \in d.head : d.card # 0 /\ d.tok[l].gen = d.card
  /\ d.mounted => ~d.pending /\ d.card # 0 /\ d.card = d.gen
  /\ d.head # {} => d.state = "ready" \/ d.pending

LEMMA NoTokenType == NoToken \in Token
BY SdMediaAssumption DEF NoToken, Token

LEMMA SdInitOK == CardOK(SdInit)
BY SdMediaAssumption, NoTokenType DEF SdInit, CardOK, Media

(* Every operator of SdMedia keeps it, and says what becomes of the leases *)
(* that are out.                                                           *)
LEMMA NoteErrorOK ==
  ASSUME NEW d, CardOK(d)
  PROVE  CardOK(NoteError(d)) /\ NoteError(d).head = d.head
<1> DEFINE tok == [l \in Leases |->
                     IF l \in d.head THEN [d.tok[l] EXCEPT !.revoked = TRUE]
                                     ELSE d.tok[l]]
<1>1. d \in Media
  BY DEF CardOK
<1>2. tok \in [Leases -> Token]
  BY <1>1 DEF Media, Token
<1>3. \A l \in Leases : tok[l].gen = d.tok[l].gen
  BY <1>1 DEF Media, Token
<1> HIDE DEF tok
<1>4. NoteError(d) = [[[[[d EXCEPT !.mounted = FALSE] EXCEPT !.pending = TRUE]
                         EXCEPT !.tok = tok] EXCEPT !.state = "absent"]
                         EXCEPT !.granted = FALSE]
  BY DEF NoteError, Removed, CancelAll, tok
<1>5. NoteError(d) \in Media
  BY <1>1, <1>2, <1>4 DEF Media
<1>6. /\ NoteError(d).head = d.head /\ NoteError(d).card = d.card
      /\ NoteError(d).pending /\ ~NoteError(d).mounted
      /\ NoteError(d).tok = tok
  BY <1>1, <1>4 DEF Media
<1>7. d.head \subseteq Leases
  BY <1>1 DEF Media
<1> QED
  BY <1>3, <1>5, <1>6, <1>7 DEF CardOK

LEMMA FaultsTakenOK ==
  ASSUME NEW d, CardOK(d)
  PROVE  CardOK(FaultsTaken(d)) /\ FaultsTaken(d).head = d.head
<1> DEFINE tok == [l \in Leases |->
                     IF l \in d.head THEN [d.tok[l] EXCEPT !.fault = FALSE]
                                     ELSE d.tok[l]]
<1>1. d \in Media
  BY DEF CardOK
<1>2. tok \in [Leases -> Token]
  BY <1>1 DEF Media, Token
<1>3. \A l \in Leases : tok[l].gen = d.tok[l].gen
  BY <1>1 DEF Media, Token
<1>4. FaultsTaken(d) = [d EXCEPT !.tok = tok]
  BY DEF FaultsTaken
<1> HIDE DEF tok
<1>5. FaultsTaken(d) \in Media
  BY <1>1, <1>2, <1>4 DEF Media
<1>6. /\ FaultsTaken(d).head = d.head
      /\ FaultsTaken(d).tok = tok
      /\ FaultsTaken(d).card = d.card
      /\ FaultsTaken(d).gen = d.gen
      /\ FaultsTaken(d).mounted = d.mounted
      /\ FaultsTaken(d).pending = d.pending
      /\ FaultsTaken(d).state = d.state
  BY <1>1, <1>4 DEF Media
<1>7. d.head \subseteq Leases
  BY <1>1 DEF Media
<1> QED
  BY <1>3, <1>5, <1>6, <1>7 DEF CardOK

(* The end of sd_media_service()                                           *)
LEMMA ReleaseOK ==
  ASSUME NEW d, CardOK(d), ReadyToUnmount(d)
  PROVE  LET e == [d EXCEPT !.card = 0, !.answers = FALSE, !.pending = FALSE]
         IN  CardOK(e) /\ e.head = d.head
<1> DEFINE e == [d EXCEPT !.card = 0, !.answers = FALSE, !.pending = FALSE]
<1>1. d \in Media /\ d.pending /\ d.head = {} /\ ~d.mounted
  BY DEF CardOK, ReadyToUnmount
<1>2. 0 \in 0 .. MaxGen
  BY SdMediaAssumption
<1>3. e \in Media
  BY <1>1, <1>2 DEF Media
<1>4. e.head = {} /\ ~e.mounted
  BY <1>1 DEF Media
<1> QED
  BY <1>1, <1>3, <1>4 DEF CardOK

LEMMA ServicedOK ==
  ASSUME NEW d, CardOK(d)
  PROVE  CardOK(Serviced(d)) /\ Serviced(d).head = d.head
<1> DEFINE told == IF \E l \in d.head : d.tok[l].fault
                     THEN NoteError(FaultsTaken(d)) ELSE d
<1>1. CardOK(told) /\ told.head = d.head
  BY FaultsTakenOK, NoteErrorOK
<1>2. Serviced(d) = IF ReadyToUnmount(told)
                      THEN [told EXCEPT !.card = 0, !.answers = FALSE,
                                        !.pending = FALSE]
                      ELSE told
  BY DEF Serviced
<1> HIDE DEF told
<1> QED
  BY <1>1, <1>2, ReleaseOK

LEMMA UnmountedOK ==
  ASSUME NEW d, CardOK(d)
  PROVE  CardOK(Unmounted(d)) /\ Unmounted(d).head = d.head
BY NoteErrorOK, ServicedOK DEF Unmounted, NoteError

LEMMA GrantedOK ==
  ASSUME NEW d, CardOK(d)
  PROVE  CardOK(Granted(d)) /\ Granted(d).head = d.head
BY DEF CardOK, Granted, Media

LEMMA MountedAsOK ==
  ASSUME NEW d, CardOK(d), d.gen < MaxGen, NEW o \in Outcomes
  PROVE  CardOK(MountedAs(d, o)) /\ MountedAs(d, o).head = d.head
<1> DEFINE s == Serviced(d)
           m == [s EXCEPT !.state = "ready", !.gen = @ + 1]
           mm == [m EXCEPT !.card = m.gen, !.answers = TRUE, !.mounted = TRUE]
<1>1. CardOK(s) /\ s.head = d.head /\ s.gen = d.gen
  <2>1. CardOK(s) /\ s.head = d.head
    BY ServicedOK
  <2>2. s.gen = d.gen /\ s.state \in {d.state, "absent"}
    BY DEF Serviced, NoteError, FaultsTaken, CancelAll, Removed, CardOK, Media
  <2> QED
    BY <2>1, <2>2
<1>2. CASE d.state = "ready"
  BY <1>2 DEF MountedAs
<1>3. CASE d.state # "ready" /\ s.pending
  <2>1. MountedAs(d, o) = s
    BY <1>3 DEF MountedAs
  <2> QED
    BY <1>1, <2>1
<1>4. CASE d.state # "ready" /\ ~s.pending
  <2>1. s.state # "ready"
    BY <1>4 DEF Serviced, NoteError, FaultsTaken, CancelAll, Removed, CardOK,
                Media
  <2>2. s.head = {}
    BY <1>1, <1>4, <2>1 DEF CardOK
  <2>3. \/ MountedAs(d, o) = Removed(s)
        \/ MountedAs(d, o) = Failed(s)
        \/ MountedAs(d, o) = mm
    <3>1. CASE o = "absent"
      BY <1>4, <3>1 DEF MountedAs
    <3>2. CASE o = "refused"
      BY <1>4, <3>2 DEF MountedAs
    <3>3. CASE o = "ok"
      BY <1>4, <2>2, <3>3 DEF MountedAs
    <3> QED
      BY <3>1, <3>2, <3>3 DEF Outcomes
  <2> HIDE DEF s
  <2>4. CardOK(Removed(s)) /\ Removed(s).head = s.head
    BY <1>1, <2>2 DEF CardOK, Removed, Media
  <2>5. CardOK(Failed(s)) /\ Failed(s).head = s.head
    BY <1>1, <2>2 DEF CardOK, Failed, Media
  <2>6. CardOK(mm) /\ mm.head = s.head
    <3>1. s.gen + 1 \in 0 .. MaxGen /\ s.gen + 1 # 0
      BY <1>1, SdMediaAssumption DEF CardOK, Media
    <3> QED
      BY <1>1, <1>4, <2>2, <3>1 DEF CardOK, Media
  <2> QED
    BY <1>1, <2>3, <2>4, <2>5, <2>6
<1> QED
  BY <1>2, <1>3, <1>4

LEMMA ClosedOK ==
  ASSUME NEW d, CardOK(d), NEW ls
  PROVE  CardOK(Closed(d, ls)) /\ Closed(d, ls).head = d.head \ ls
<1> DEFINE told == IF \E l \in ls : d.tok[l].fault THEN NoteError(d) ELSE d
<1>1. CardOK(told) /\ told.head = d.head
  BY NoteErrorOK
<1>2. Closed(d, ls) =
        [told EXCEPT !.head = @ \ ls,
                     !.tok = [l \in Leases |->
                                IF l \in ls THEN NoToken ELSE @[l]]]
  BY DEF Closed
<1> DEFINE tok == [l \in Leases |-> IF l \in ls THEN NoToken ELSE told.tok[l]]
<1>3. Closed(d, ls) = [[told EXCEPT !.head = @ \ ls] EXCEPT !.tok = tok]
  BY <1>2
<1> HIDE DEF told
<1>4. told \in Media
  BY <1>1 DEF CardOK
<1>5. tok \in [Leases -> Token]
  BY <1>4, NoTokenType DEF Media
<1>6. \A l \in Leases \ ls : tok[l] = told.tok[l]
  OBVIOUS
<1> HIDE DEF tok
<1>7. Closed(d, ls) \in Media
  BY <1>3, <1>4, <1>5 DEF Media
<1>8. /\ Closed(d, ls).head = told.head \ ls
      /\ Closed(d, ls).tok = tok
      /\ Closed(d, ls).card = told.card
      /\ Closed(d, ls).gen = told.gen
      /\ Closed(d, ls).mounted = told.mounted
      /\ Closed(d, ls).pending = told.pending
      /\ Closed(d, ls).state = told.state
  BY <1>3, <1>4 DEF Media
<1>9. told.head \subseteq Leases
  BY <1>4 DEF Media
<1> QED
  BY <1>1, <1>6, <1>7, <1>8, <1>9 DEF CardOK

LEMMA AttachedOK ==
  ASSUME NEW d, CardOK(d), NEW l \in Leases, Usable(d), MayAttach(d, l)
  PROVE  CardOK(Attached(d, l)) /\ Attached(d, l).head = d.head \cup {l}
<1>1. Attached(d, l) \in Media
  BY NoTokenType DEF CardOK, Attached, Media, Token, NoToken
<1>2. /\ Attached(d, l).head = d.head \cup {l}
      /\ Attached(d, l).card = d.card
      /\ Attached(d, l).gen = d.gen
      /\ Attached(d, l).mounted = d.mounted
      /\ Attached(d, l).pending = d.pending
      /\ Attached(d, l).state = d.state
      /\ Attached(d, l).tok[l].gen = d.gen
      /\ \A k \in d.head : Attached(d, l).tok[k] = d.tok[k]
  BY DEF CardOK, Attached, Media, Token, NoToken, MayAttach
<1> QED
  BY <1>1, <1>2 DEF CardOK, Usable, MayAttach

(* What a worker, or a stop, writes into a token; the card pulled.         *)
LEMMA TokenOK ==
  ASSUME NEW d, CardOK(d), NEW l, NEW w,
         l \in Leases => w \in Token /\ w.gen = d.tok[l].gen
  PROVE  LET e == [d EXCEPT !.tok = [@ EXCEPT ![l] = w]]
         IN  CardOK(e) /\ e.head = d.head
<1> DEFINE tok == [d.tok EXCEPT ![l] = w]
           e == [d EXCEPT !.tok = tok]
<1>1. d \in Media
  BY DEF CardOK
<1>2. tok \in [Leases -> Token]
  BY <1>1 DEF Media
<1>3. \A k \in Leases : tok[k].gen = d.tok[k].gen
  BY <1>1 DEF Media
<1> HIDE DEF tok
<1>4. e \in Media
  BY <1>1, <1>2 DEF Media
<1>5. /\ e.head = d.head /\ e.tok = tok /\ e.card = d.card /\ e.gen = d.gen
      /\ e.mounted = d.mounted /\ e.pending = d.pending /\ e.state = d.state
      /\ d.head \subseteq Leases
  BY <1>1 DEF Media
<1> HIDE DEF e
<1>6. CardOK(e) /\ e.head = d.head
  BY <1>3, <1>4, <1>5 DEF CardOK
<1> QED
  BY <1>6 DEF e, tok

LEMMA TokenEdits ==
  ASSUME NEW d, CardOK(d), NEW l \in Leases, NEW b \in BOOLEAN
  PROVE  LET t == d.tok[l]
         IN  /\ [t EXCEPT !.fault = b] \in Token
             /\ [t EXCEPT !.fault = b].gen = t.gen
             /\ [t EXCEPT !.ack = b] \in Token
             /\ [t EXCEPT !.ack = b].gen = t.gen
             /\ [t EXCEPT !.revoked = b] \in Token
             /\ [t EXCEPT !.revoked = b].gen = t.gen
<1>1. d.tok[l] \in Token
  BY DEF CardOK, Media
<1> QED
  BY <1>1 DEF Token

LEMMA FaultOK ==
  ASSUME NEW d, CardOK(d), NEW l, NEW b \in BOOLEAN
  PROVE  LET e == [d EXCEPT !.tok[l].fault = b]
         IN  CardOK(e) /\ e.head = d.head
<1> DEFINE w == [d.tok[l] EXCEPT !.fault = b]
<1>1. l \in Leases => w \in Token /\ w.gen = d.tok[l].gen
  BY TokenEdits
<1> HIDE DEF w
<1>2. LET e == [d EXCEPT !.tok = [@ EXCEPT ![l] = w]]
      IN  CardOK(e) /\ e.head = d.head
  BY <1>1, TokenOK
<1> QED
  BY <1>2 DEF w

LEMMA AckOK ==
  ASSUME NEW d, CardOK(d), NEW l
  PROVE  LET e == [d EXCEPT !.tok[l].ack = TRUE]
         IN  CardOK(e) /\ e.head = d.head
<1> DEFINE w == [d.tok[l] EXCEPT !.ack = TRUE]
<1>1. l \in Leases => w \in Token /\ w.gen = d.tok[l].gen
  BY TokenEdits
<1> HIDE DEF w
<1>2. LET e == [d EXCEPT !.tok = [@ EXCEPT ![l] = w]]
      IN  CardOK(e) /\ e.head = d.head
  BY <1>1, TokenOK
<1> QED
  BY <1>2 DEF w

LEMMA RevokedOK ==
  ASSUME NEW d, CardOK(d), NEW l
  PROVE  LET e == [d EXCEPT !.tok[l].revoked = TRUE]
         IN  CardOK(e) /\ e.head = d.head
<1> DEFINE w == [d.tok[l] EXCEPT !.revoked = TRUE]
<1>1. l \in Leases => w \in Token /\ w.gen = d.tok[l].gen
  BY TokenEdits
<1> HIDE DEF w
<1>2. LET e == [d EXCEPT !.tok = [@ EXCEPT ![l] = w]]
      IN  CardOK(e) /\ e.head = d.head
  BY <1>1, TokenOK
<1> QED
  BY <1>2 DEF w

LEMMA PulledOK ==
  ASSUME NEW d, CardOK(d)
  PROVE  LET e == [d EXCEPT !.answers = FALSE]
         IN  CardOK(e) /\ e.head = d.head
BY DEF CardOK, Media

-----------------------------------------------------------------------------
(* The invariant of the four tasks: a session whose memory is there has    *)
(* its lease out; what the player holds and what a stop is working on is a *)
(* session that is live.                                                   *)
AnyRing == [filled : Int, drained : Int, eof : BOOLEAN]
AnySession ==
  [st : {"none", "live", "quarantined", "freed"},
   pc : {"off", "signal", "read", "published", "ending", "acked"},
   paused : BOOLEAN, cancel : BOOLEAN,
   terminal : {"reading", "eof", "error", "cancelled"},
   packets : AnyRing, pcm : AnyRing,
   audio_stopped : BOOLEAN, decoder_stopped : BOOLEAN,
   faults : BOOLEAN, saw : BOOLEAN]

PlayerType ==
  [open : BOOLEAN, priming : BOOLEAN, bg : BOOLEAN,
   state : {"ready", "playing", "paused", "ended", "error"},
   s : Sessions \cup {None}, stream : Sessions \cup {None}]
OwnerType == [pc : OwnerPCs, why : Whys, s : Sessions \cup {None},
              audio : BOOLEAN]

Live(ss, s) == s \in Sessions /\ ss[s].st = "live"

Out(ss, head) ==
  \A s \in Sessions : ss[s].st \in {"live", "quarantined"} => s \in head
PlayerLive(p, ss) == p.s # None => Live(ss, p.s)
OwnerLive(o, ss) ==
  /\ o.pc \in {"audio", "feed"} /\ o.s # None => Live(ss, o.s)
  /\ o.pc = "ack" => Live(ss, o.s)

LeaseInv ==
  /\ CardOK(sd)
  /\ sess \in [Sessions -> AnySession]
  /\ player \in PlayerType /\ owner \in OwnerType
  /\ running \in BOOLEAN
  /\ Out(sess, sd.head)
  /\ PlayerLive(player, sess) /\ OwnerLive(owner, sess)

LEMMA RingFacts ==
  /\ Rewound \in AnyRing /\ Leftover \in AnyRing
  /\ \A r \in AnyRing : /\ Published(r) \in AnyRing
                        /\ \A b : Released(r, b) \in AnyRing
BY PlaybackAssumption DEF Rewound, Leftover, AnyRing, Published, Released

LEMMA SessionFacts ==
  /\ NoSession \in AnySession /\ NoSession.st = "none"
  /\ Fresh \in AnySession /\ Fresh.st = "live"
  /\ \A x \in Unplayed : x \in AnySession /\ x.st = "live"
BY RingFacts DEF NoSession, Fresh, Unplayed, AnySession

(* A step that leaves every session where it is, and the player and the    *)
(* owner alone.                                                            *)
LEMMA QuietStep ==
  ASSUME LeaseInv, CardOK(sd'), sd'.head = sd.head,
         sess' \in [Sessions -> AnySession],
         \A s \in Sessions : sess'[s].st = sess[s].st,
         running' \in BOOLEAN,
         UNCHANGED <<player, owner>>
  PROVE  LeaseInv'
BY DEF LeaseInv, Out, PlayerLive, OwnerLive, Live

(* One session moves on, and nothing moves it to another state.            *)
LEMMA OneMoves ==
  ASSUME LeaseInv, NEW s, NEW x,
         s \in Sessions => x \in AnySession /\ x.st = sess[s].st,
         sess' = [sess EXCEPT ![s] = x]
  PROVE  /\ sess' \in [Sessions -> AnySession]
         /\ \A r \in Sessions : sess'[r].st = sess[r].st
BY DEF LeaseInv

LEMMA LeaseInit == Init => LeaseInv
<1> SUFFICES ASSUME Init
             PROVE  LeaseInv
  OBVIOUS
<1>1. CardOK(sd)
  BY SdInitOK DEF Init
<1>2. sess \in [Sessions -> AnySession] /\ Out(sess, sd.head)
  BY SessionFacts DEF Init, Out
<1>3. player \in PlayerType /\ PlayerLive(player, sess)
  BY DEF Init, NoPlayer, PlayerType, PlayerLive
<1>4. owner \in OwnerType /\ OwnerLive(owner, sess)
  BY DEF Init, Idle, OwnerType, OwnerPCs, Whys, OwnerLive
<1> QED
  BY <1>1, <1>2, <1>3, <1>4 DEF LeaseInv, Init

-----------------------------------------------------------------------------
(* The three workers.                                                      *)

LEMMA SignalledFacts ==
  ASSUME NEW x \in AnySession
  PROVE  /\ Signalled(x) \in AnySession /\ Signalled(x).st = x.st
         /\ Failing(x) \in AnySession /\ Failing(x).st = x.st
<1>1. /\ [x.packets EXCEPT !.eof = TRUE] \in AnyRing
  BY DEF AnySession, AnyRing
<1> QED
  BY <1>1 DEF Signalled, Failing, AnySession

LEMMA ReaderKeeps ==
  ASSUME LeaseInv, NEW s \in Sessions, ReaderStep(s)
  PROVE  LeaseInv'
<1> DEFINE x == sess[s]
<1>1. x \in AnySession
  BY DEF LeaseInv
<1>2. CASE ReaderSignal(s)
  <2>1. \/ sess' = [sess EXCEPT ![s] = Signalled(x)]
        \/ sess' = [sess EXCEPT ![s] = [x EXCEPT !.pc = "read"]]
    BY <1>2 DEF ReaderSignal
  <2>2. [x EXCEPT !.pc = "read"] \in AnySession
        /\ [x EXCEPT !.pc = "read"].st = x.st
    BY <1>1 DEF AnySession
  <2>3. sess' \in [Sessions -> AnySession]
        /\ \A r \in Sessions : sess'[r].st = sess[r].st
    <3>1. Signalled(x) \in AnySession /\ Signalled(x).st = x.st
      BY <1>1, SignalledFacts
    <3>2. CASE sess' = [sess EXCEPT ![s] = Signalled(x)]
      BY <3>1, <3>2, OneMoves
    <3>3. CASE sess' = [sess EXCEPT ![s] = [x EXCEPT !.pc = "read"]]
      BY <2>2, <3>3, OneMoves
    <3> QED
      BY <2>1, <3>2, <3>3
  <2> QED
    BY <1>2, <2>3, QuietStep
       DEF ReaderSignal, ReaderOnly, LeaseInv, decVars
<1>3. CASE ReaderGot(s)
  <2> DEFINE y == [x EXCEPT !.saw = ~sd.answers]
             z == [y EXCEPT !.packets = Published(@), !.pc = "published"]
  <2>1. y \in AnySession /\ y.st = x.st /\ y.packets \in AnyRing
    BY <1>1 DEF AnySession
  <2>2. z \in AnySession /\ z.st = x.st
    <3> DEFINE r == Published(y.packets)
               v == [y EXCEPT !.packets = r]
    <3>1. r \in AnyRing
      BY <2>1, RingFacts
    <3> HIDE DEF y, r
    <3>2. v \in AnySession /\ v.st = y.st
      BY <2>1, <3>1 DEF AnySession
    <3>3. z = [v EXCEPT !.pc = "published"]
      BY DEF r
    <3> HIDE DEF z, v
    <3> QED
      BY <2>1, <3>2, <3>3 DEF AnySession
  <2>3. PICK w : /\ w \in {Signalled(y), Failing(y), z}
                 /\ sess' = [sess EXCEPT ![s] = w]
    BY <1>3 DEF ReaderGot
  <2>4. w \in AnySession /\ w.st = x.st
    BY <2>1, <2>2, <2>3, SignalledFacts
  <2>5. sess' \in [Sessions -> AnySession]
        /\ \A r \in Sessions : sess'[r].st = sess[r].st
    BY <2>3, <2>4, OneMoves
  <2>6. CardOK(sd') /\ sd'.head = sd.head
    <3>1. sd' = [sd EXCEPT !.tok[s].fault = ~sd.answers]
      BY <1>3 DEF ReaderGot
    <3>2. CardOK(sd) /\ (~sd.answers) \in BOOLEAN
      BY DEF LeaseInv
    <3> QED
      BY <3>1, <3>2, FaultOK
  <2> QED
    BY <1>3, <2>5, <2>6, QuietStep
       DEF ReaderGot, ReaderOnly, LeaseInv, decVars
<1>4. CASE ReaderEof(s)
  <2> DEFINE y == [x EXCEPT !.packets.eof = TRUE, !.terminal = "eof",
                            !.pc = "ending"]
             z == [x EXCEPT !.pc = "signal"]
  <2>1. [x.packets EXCEPT !.eof = TRUE] \in AnyRing
    BY <1>1 DEF AnySession, AnyRing
  <2>2. y \in AnySession /\ y.st = x.st /\ z \in AnySession /\ z.st = x.st
    BY <1>1, <2>1 DEF AnySession
  <2>3. \/ sess' = [sess EXCEPT ![s] = y]
        \/ sess' = [sess EXCEPT ![s] = z]
    BY <1>4 DEF ReaderEof
  <2>4. sess' \in [Sessions -> AnySession]
        /\ \A r \in Sessions : sess'[r].st = sess[r].st
    BY <2>2, <2>3, OneMoves
  <2> QED
    BY <1>4, <2>4, QuietStep DEF ReaderEof, ReaderOnly, LeaseInv, decVars
<1>5. CASE ReaderAck(s)
  <2>1. [x EXCEPT !.pc = "acked"] \in AnySession
        /\ [x EXCEPT !.pc = "acked"].st = x.st
    BY <1>1 DEF AnySession
  <2>2. sess' = [sess EXCEPT ![s] = [x EXCEPT !.pc = "acked"]]
    BY <1>5 DEF ReaderAck
  <2>3. sess' \in [Sessions -> AnySession]
        /\ \A r \in Sessions : sess'[r].st = sess[r].st
    BY <2>1, <2>2, OneMoves
  <2>4. CardOK(sd') /\ sd'.head = sd.head
    BY <1>5, AckOK DEF ReaderAck, LeaseInv
  <2> QED
    BY <1>5, <2>3, <2>4, QuietStep
       DEF ReaderAck, ReaderOnly, LeaseInv, decVars
<1> QED
  BY <1>2, <1>3, <1>4, <1>5 DEF ReaderStep

(* A worker writes one field of a session.                                 *)
StatesKept ==
  /\ sess' \in [Sessions -> AnySession]
  /\ \A r \in Sessions : sess'[r].st = sess[r].st

LEMMA FieldMoves ==
  ASSUME LeaseInv, NEW s, NEW v,
         \/ /\ s \in Sessions => v \in AnyRing
            /\ \/ sess' = [sess EXCEPT ![s].packets = v]
               \/ sess' = [sess EXCEPT ![s].pcm = v]
         \/ v \in BOOLEAN /\ sess' = [sess EXCEPT ![s].faults = v]
         \/ sess' = sess
  PROVE  StatesKept
<1> DEFINE x == sess[s]
           a == [x EXCEPT !.packets = v]
           b == [x EXCEPT !.pcm = v]
           c == [x EXCEPT !.faults = v]
<1>1. s \in Sessions => x \in AnySession
  BY DEF LeaseInv
<1>2. CASE (s \in Sessions => v \in AnyRing)
           /\ sess' = [sess EXCEPT ![s].packets = v]
  <2>1. s \in Sessions => a \in AnySession /\ a.st = x.st
    BY <1>1, <1>2 DEF AnySession
  <2>2. sess' = [sess EXCEPT ![s] = a]
    BY <1>2
  <2> HIDE DEF a
  <2> QED
    BY <2>1, <2>2, OneMoves DEF StatesKept
<1>3. CASE (s \in Sessions => v \in AnyRing)
           /\ sess' = [sess EXCEPT ![s].pcm = v]
  <2>1. s \in Sessions => b \in AnySession /\ b.st = x.st
    BY <1>1, <1>3 DEF AnySession
  <2>2. sess' = [sess EXCEPT ![s] = b]
    BY <1>3
  <2> HIDE DEF b
  <2> QED
    BY <2>1, <2>2, OneMoves DEF StatesKept
<1>4. CASE v \in BOOLEAN /\ sess' = [sess EXCEPT ![s].faults = v]
  <2>1. s \in Sessions => c \in AnySession /\ c.st = x.st
    BY <1>1, <1>4 DEF AnySession
  <2>2. sess' = [sess EXCEPT ![s] = c]
    BY <1>4
  <2> HIDE DEF c
  <2> QED
    BY <2>1, <2>2, OneMoves DEF StatesKept
<1>5. CASE sess' = sess
  BY <1>5 DEF StatesKept, LeaseInv
<1> QED
  BY <1>2, <1>3, <1>4, <1>5

LEMMA DecoderKeeps ==
  ASSUME LeaseInv, DecoderStep
  PROVE  LeaseInv'
<1>1. /\ UNCHANGED <<sd, player, owner>>
      /\ running' \in BOOLEAN
  BY DEF DecoderStep, DecRead, DecLook, DecTail, DecDecode, DecFlush, DecEof,
         DecOut, DecoderOnly, LeaseInv
<1>2. dec.s \in Sessions =>
        /\ Packets \in AnyRing /\ Pcm \in AnyRing
        /\ \A b : Released(Packets, b) \in AnyRing
        /\ Published(Pcm) \in AnyRing
        /\ [Pcm EXCEPT !.eof = TRUE] \in AnyRing
  <2>1. SUFFICES ASSUME dec.s \in Sessions
                 PROVE  /\ Packets \in AnyRing /\ Pcm \in AnyRing
                        /\ [Pcm EXCEPT !.eof = TRUE] \in AnyRing
    BY RingFacts
  <2>2. sess[dec.s] \in AnySession
    BY <2>1 DEF LeaseInv
  <2>3. Packets \in AnyRing /\ Pcm \in AnyRing
    BY <2>2 DEF Packets, Pcm, AnySession
  <2> QED
    BY <2>3 DEF AnyRing
<1>3. StatesKept
  <2>1. CASE DecRead
    <3>1. PICK v : /\ v = Released(Packets, dec.held)
                   /\ \/ sess' = [sess EXCEPT ![dec.s].packets = v]
                      \/ sess' = sess
      BY <2>1 DEF DecRead
    <3> QED
      BY <1>2, <3>1, FieldMoves
  <2>2. CASE DecLook
    BY <2>2, FieldMoves DEF DecLook
  <2>3. CASE DecTail
    <3>1. PICK v \in BOOLEAN : \/ sess' = [sess EXCEPT ![dec.s].faults = v]
                               \/ sess' = sess
      BY <2>3 DEF DecTail
    <3> QED
      BY <3>1, FieldMoves
  <2>4. CASE DecDecode
    <3>1. \/ sess' = [sess EXCEPT ![dec.s].pcm = Published(Pcm)]
          \/ sess' = [sess EXCEPT ![dec.s].faults = TRUE]
          \/ sess' = sess
      BY <2>4 DEF DecDecode, Pcm
    <3> QED
      BY <1>2, <3>1, FieldMoves
  <2>5. CASE DecFlush
    <3>1. \/ sess' = [sess EXCEPT ![dec.s].pcm = Published(Pcm)]
          \/ sess' = sess
      BY <2>5 DEF DecFlush, Pcm
    <3> QED
      BY <1>2, <3>1, FieldMoves
  <2>6. CASE DecEof
    <3>1. sess' = [sess EXCEPT ![dec.s].pcm = [Pcm EXCEPT !.eof = TRUE]]
      BY <2>6 DEF DecEof, Pcm
    <3> QED
      BY <1>2, <3>1, FieldMoves
  <2>7. CASE DecOut
    <3>1. sess' = [sess EXCEPT ![dec.s].packets = Released(Packets, dec.held)]
      BY <2>7 DEF DecOut, Packets
    <3> QED
      BY <1>2, <3>1, FieldMoves
  <2> QED
    BY <2>1, <2>2, <2>3, <2>4, <2>5, <2>6, <2>7 DEF DecoderStep
<1> QED
  BY <1>1, <1>3, QuietStep DEF StatesKept, LeaseInv

LEMMA AudioKeeps ==
  ASSUME LeaseInv, AudioStep \/ CodecFails
  PROVE  LeaseInv'
<1>1. UNCHANGED <<sd, player, owner, running>>
  BY DEF AudioStep, CodecFails, AudioTake, AudioClaim, AudioCheck, AudioBreak,
         AudioPlay, AudioLook, AudioTail, AudioPost, AudioOnly, decVars
<1>2. PICK v : /\ \E b : v = Released(sess[audio.s].pcm, b)
               /\ \/ sess' = [sess EXCEPT ![audio.s].pcm = v]
                  \/ sess' = sess
  <2>1. CASE AudioTake \/ AudioClaim \/ AudioCheck \/ AudioLook \/ AudioPost
    BY <2>1 DEF AudioTake, AudioClaim, AudioCheck, AudioLook, AudioPost
  <2>2. CASE AudioBreak \/ CodecFails
    BY <2>2 DEF AudioBreak, CodecFails, Leaves
  <2>3. CASE AudioTail
    BY <2>3 DEF AudioTail, Leaves
  <2>4. CASE AudioPlay
    BY <2>4 DEF AudioPlay
  <2> QED
    BY <2>1, <2>2, <2>3, <2>4 DEF AudioStep
<1>3. audio.s \in Sessions => v \in AnyRing
  <2>1. SUFFICES ASSUME audio.s \in Sessions
                 PROVE  sess[audio.s].pcm \in AnyRing
    BY <1>2, RingFacts
  <2>2. sess[audio.s] \in AnySession
    BY <2>1 DEF LeaseInv
  <2> QED
    BY <2>2 DEF AnySession
<1>4. StatesKept
  BY <1>2, <1>3, FieldMoves
<1> QED
  BY <1>1, <1>4, QuietStep DEF StatesKept, LeaseInv

-----------------------------------------------------------------------------
(* The owner task.                                                         *)

LEMMA LeaseAfter ==
  ASSUME CardOK(sd'), sess' \in [Sessions -> AnySession],
         player' \in PlayerType, owner' \in OwnerType, running' \in BOOLEAN,
         Out(sess', sd'.head),
         PlayerLive(player', sess'), OwnerLive(owner', sess')
  PROVE  LeaseInv'
BY DEF LeaseInv

LEMMA ConstantFacts ==
  /\ NoPlayer \in PlayerType /\ NoPlayer.s = None
  /\ Idle \in OwnerType /\ Idle.s = None /\ Idle.pc = "idle"
BY DEF NoPlayer, PlayerType, Idle, OwnerType, OwnerPCs, Whys

LEMMA OwnerTypes ==
  ASSUME NEW pc \in OwnerPCs, NEW why \in Whys, NEW s \in Sessions \cup {None},
         NEW o, o = [pc |-> pc, why |-> why, s |-> s, audio |-> TRUE]
  PROVE  o \in OwnerType /\ o.pc = pc /\ o.s = s
BY DEF OwnerType

(* A session that is live stays live.                                      *)
LivesOn(ss, tt) == \A s \in Sessions : Live(ss, s) => Live(tt, s)

LEMMA HoldersLiveOn ==
  ASSUME NEW ss, NEW tt, LivesOn(ss, tt), NEW p, NEW o
  PROVE  /\ PlayerLive(p, ss) => PlayerLive(p, tt)
         /\ OwnerLive(o, ss) => OwnerLive(o, tt)
BY DEF LivesOn, PlayerLive, OwnerLive, Live

LEMMA HaltBeginsKeeps ==
  ASSUME NEW p \in PlayerType, NEW why \in Whys, HaltBegins(p, why),
         NEW ss, PlayerLive(p, ss)
  PROVE  /\ player' \in PlayerType /\ PlayerLive(player', ss)
         /\ owner' \in OwnerType /\ OwnerLive(owner', ss)
<1>1. p.s \in Sessions \cup {None}
  BY DEF PlayerType
<1>2. /\ [p EXCEPT !.priming = FALSE] \in PlayerType
      /\ [p EXCEPT !.priming = FALSE].s = p.s
  BY DEF PlayerType
<1>3. player' \in PlayerType /\ player'.s = p.s
  BY <1>2 DEF HaltBegins
<1>4. PICK pc \in {"audio", "feed"} :
        owner' = [pc |-> pc, why |-> why, s |-> p.s, audio |-> TRUE]
  BY DEF HaltBegins, Idle
<1>5. pc \in OwnerPCs
  BY DEF OwnerPCs
<1>6. owner' \in OwnerType /\ owner'.pc = pc /\ owner'.s = p.s
  BY <1>1, <1>4, <1>5, OwnerTypes
<1> QED
  BY <1>3, <1>6 DEF PlayerLive, OwnerLive

LEMMA FsResetOK ==
  ASSUME NEW d, CardOK(d), NEW p
  PROVE  CardOK(FsReset(d, p)) /\ FsReset(d, p).head = d.head
<1> DEFINE closed == IF picker = "new" THEN Unmounted(d) ELSE d
<1>1. CardOK(closed) /\ closed.head = d.head
  BY UnmountedOK
<1>2. FsReset(d, p) = IF HoldsCard(p) THEN closed ELSE Unmounted(closed)
  BY DEF FsReset
<1> HIDE DEF closed
<1> QED
  BY <1>1, <1>2, UnmountedOK

(* A stop ends with no session in the player's hands or the owner's.       *)
LEMMA HaltedKeeps ==
  ASSUME player \in PlayerType, NEW d, CardOK(d), Halted(d)
  PROVE  /\ CardOK(sd') /\ sd'.head = d.head
         /\ player' \in PlayerType /\ owner' \in OwnerType
         /\ \A ss : PlayerLive(player', ss) /\ OwnerLive(owner', ss)
<1> DEFINE p == [player EXCEPT !.s = None, !.stream = None]
<1>1. /\ p \in PlayerType /\ p.s = None
      /\ TornDown(p) \in PlayerType /\ TornDown(p).s = None
      /\ [p EXCEPT !.state = "error"] \in PlayerType
      /\ [p EXCEPT !.state = "error"].s = None
  BY DEF PlayerType, TornDown, NoPlayer
<1>2. sd' \in {d, FsReset(d, NoPlayer), Serviced(Unmounted(d))}
  BY DEF Halted
<1>3. CardOK(sd') /\ sd'.head = d.head
  BY <1>2, FsResetOK, UnmountedOK, ServicedOK
<1>4. player' \in PlayerType /\ player'.s = None
  <2>1. player' \in {[p EXCEPT !.state = "error"], TornDown(p), NoPlayer, p}
    BY DEF Halted
  <2> QED
    BY <1>1, <2>1, ConstantFacts
<1>5. owner' \in OwnerType /\ owner'.s = None /\ owner'.pc # "ack"
  <2>1. owner' \in {Idle, [Idle EXCEPT !.pc = "next"],
                    [Idle EXCEPT !.pc = "feed", !.why = "bgend"]}
    BY DEF Halted
  <2>2. CASE owner' = Idle
    BY <2>2, ConstantFacts
  <2>3. CASE owner' = [Idle EXCEPT !.pc = "next"]
    <3>1. owner' = [pc |-> "next", why |-> "none", s |-> None, audio |-> TRUE]
      BY <2>3 DEF Idle
    <3> QED
      BY <3>1 DEF OwnerType, OwnerPCs, Whys
  <2>4. CASE owner' = [Idle EXCEPT !.pc = "feed", !.why = "bgend"]
    <3>1. owner' = [pc |-> "feed", why |-> "bgend", s |-> None, audio |-> TRUE]
      BY <2>4 DEF Idle
    <3> QED
      BY <3>1 DEF OwnerType, OwnerPCs, Whys
  <2> QED
    BY <2>1, <2>2, <2>3, <2>4
<1> QED
  BY <1>3, <1>4, <1>5 DEF PlayerLive, OwnerLive

LEMMA HaltAudioKeeps ==
  ASSUME LeaseInv, HaltAudio
  PROVE  LeaseInv'
<1>1. UNCHANGED <<sd, sess, player, running>>
  BY DEF HaltAudio, OwnerOnly
<1>2. owner \in OwnerType /\ owner.pc = "audio"
  BY DEF HaltAudio, LeaseInv
<1>3. PICK b \in BOOLEAN :
        owner' = [owner EXCEPT !.pc = "feed", !.audio = b]
  BY DEF HaltAudio
<1>4. owner' \in OwnerType /\ owner'.pc = "feed" /\ owner'.s = owner.s
  BY <1>2, <1>3 DEF OwnerType, OwnerPCs
<1>5. OwnerLive(owner', sess)
  BY <1>2, <1>4 DEF LeaseInv, OwnerLive
<1> QED
  BY <1>1, <1>4, <1>5 DEF LeaseInv

LEMMA HaltFeedKeeps ==
  ASSUME LeaseInv, HaltFeed
  PROVE  LeaseInv'
<1>1. UNCHANGED running /\ running \in BOOLEAN
  BY DEF HaltFeed, SilentOwner, OwnerOnly, LeaseInv
<1>2. CASE owner.s = None
  <2>1. Halted(sd) /\ sess' = sess
    BY <1>2 DEF HaltFeed
  <2> QED
    BY <1>1, <2>1, HaltedKeeps, LeaseAfter DEF LeaseInv
<1>3. CASE owner.s # None
  <2> DEFINE s == owner.s
             x == [sess[s] EXCEPT !.cancel = TRUE, !.paused = FALSE,
                                  !.audio_stopped = owner.audio,
                                  !.decoder_stopped = ~running]
  <2>1. owner \in OwnerType /\ owner.pc = "feed" /\ Live(sess, s)
    BY <1>3 DEF HaltFeed, LeaseInv, OwnerLive
  <2>2. sess[s] \in AnySession /\ owner.audio \in BOOLEAN
    BY <2>1 DEF LeaseInv, Live, OwnerType
  <2>3. x \in AnySession /\ x.st = sess[s].st
    BY <1>1, <2>2 DEF AnySession
  <2>4. /\ owner' = [owner EXCEPT !.pc = "ack"]
        /\ sess' = [sess EXCEPT ![s] = x]
        /\ sd' = [sd EXCEPT !.tok[s].revoked = TRUE]
        /\ player' = player
    BY <1>3 DEF HaltFeed
  <2>5. CardOK(sd') /\ sd'.head = sd.head
    BY <2>4, RevokedOK DEF LeaseInv
  <2>6. owner' \in OwnerType /\ owner'.pc = "ack" /\ owner'.s = s
    BY <2>1, <2>4 DEF OwnerType, OwnerPCs
  <2> HIDE DEF x
  <2>7. /\ sess' \in [Sessions -> AnySession]
        /\ \A r \in Sessions : sess'[r].st = sess[r].st
    BY <2>3, <2>4, OneMoves
  <2>8. Out(sess', sd'.head) /\ LivesOn(sess, sess')
    BY <2>5, <2>7 DEF LeaseInv, Out, LivesOn, Live
  <2>9. OwnerLive(owner', sess')
    BY <2>1, <2>6, <2>8 DEF OwnerLive, LivesOn, Live
  <2>10. player' \in PlayerType /\ PlayerLive(player', sess')
    BY <2>4, <2>8, HoldersLiveOn DEF LeaseInv
  <2> QED
    BY <1>1, <2>5, <2>6, <2>7, <2>8, <2>9, <2>10, LeaseAfter
<1> QED
  BY <1>2, <1>3

LEMMA HaltAckKeeps ==
  ASSUME LeaseInv, HaltAck
  PROVE  LeaseInv'
<1> DEFINE s == owner.s
           free == sd.tok[s].ack /\ sess[s].audio_stopped
                   /\ sess[s].decoder_stopped
           card == IF free THEN Closed(sd, {s}) ELSE sd
<1>1. UNCHANGED running /\ running \in BOOLEAN
  BY DEF HaltAck, OwnerOnly, LeaseInv
<1>2. /\ sess' = IF free THEN Disposed(sess, {s})
                 ELSE [sess EXCEPT ![s] = Quarantined(@)]
      /\ Halted(card)
  BY DEF HaltAck
<1>3. Live(sess, s) /\ s \in Sessions /\ sess[s] \in AnySession
  BY DEF HaltAck, LeaseInv, OwnerLive, Live
<1>4. CardOK(card) /\ card.head = IF free THEN sd.head \ {s} ELSE sd.head
  BY ClosedOK DEF LeaseInv
<1>5. sess' \in [Sessions -> AnySession] /\ Out(sess', card.head)
  <2>1. CASE free
    <3>1. [[NoSession EXCEPT !.st = "freed"] EXCEPT !.pc = "acked"]
            \in AnySession
          /\ [NoSession EXCEPT !.st = "freed", !.pc = "acked"].st = "freed"
      BY SessionFacts DEF AnySession
    <3>2. sess' = [r \in Sessions |->
                     IF r \in {s} THEN [NoSession EXCEPT !.st = "freed",
                                                         !.pc = "acked"]
                     ELSE sess[r]]
      BY <1>2, <2>1 DEF Disposed
    <3>3. \A r \in Sessions : r # s => sess'[r] = sess[r]
      BY <3>2
    <3>4. sess'[s].st = "freed"
      BY <1>3, <3>1, <3>2
    <3> QED
      BY <1>4, <2>1, <3>1, <3>2, <3>3, <3>4 DEF LeaseInv, Out
  <2>2. CASE ~free
    <3>1. Quarantined(sess[s]) \in AnySession
      BY <1>3, RingFacts DEF Quarantined, AnySession
    <3>2. sess' = [sess EXCEPT ![s] = Quarantined(sess[s])]
      BY <1>2, <2>2
    <3> QED
      BY <1>3, <1>4, <2>2, <3>1, <3>2 DEF LeaseInv, Out, Live
  <2> QED
    BY <2>1, <2>2
<1> HIDE DEF card
<1> QED
  BY <1>1, <1>2, <1>4, <1>5, HaltedKeeps, LeaseAfter DEF LeaseInv

(* Sessions that are disposed of with their leases closed: the ones that   *)
(* are left still hold theirs.                                             *)
LEMMA ReapKeeps ==
  ASSUME LeaseInv, NEW ss, ss = Disposed(sess, Reapable),
         NEW d, d = Closed(sd, Reapable)
  PROVE  /\ CardOK(d) /\ ss \in [Sessions -> AnySession]
         /\ Out(ss, d.head) /\ LivesOn(sess, ss)
<1> DEFINE gone == [NoSession EXCEPT !.st = "freed", !.pc = "acked"]
<1>1. CardOK(d) /\ d.head = sd.head \ Reapable
  BY ClosedOK DEF LeaseInv
<1>2. gone \in AnySession /\ gone.st = "freed"
  BY SessionFacts DEF AnySession
<1>3. ss = [s \in Sessions |-> IF s \in Reapable THEN gone ELSE sess[s]]
  BY DEF Disposed
<1> HIDE DEF gone
<1>4. ss \in [Sessions -> AnySession]
  BY <1>2, <1>3 DEF LeaseInv
<1>5. Out(ss, d.head)
  BY <1>1, <1>2, <1>3 DEF LeaseInv, Out
<1>6. \A s \in Reapable : sess[s].st = "quarantined"
  BY DEF Reapable
<1>7. LivesOn(sess, ss)
  BY <1>3, <1>6 DEF LivesOn, Live
<1> QED
  BY <1>1, <1>4, <1>5, <1>7

LEMMA LaunchKeeps ==
  ASSUME NEW p \in PlayerType, NEW card, CardOK(card),
         NEW ss \in [Sessions -> AnySession], Out(ss, card.head),
         PlayerLive(p, ss), NEW busy \in Whys, running \in BOOLEAN,
         Launch(p, card, ss, busy)
  PROVE  LeaseInv'
<1> DEFINE s == Used + 1
<1>1. s \in Sessions /\ Usable(card) /\ MayAttach(card, s)
  BY DEF Launch
<1> DEFINE attached == Attached(card, s)
           revoked == [attached EXCEPT !.tok[s].revoked = TRUE]
<1> HIDE DEF s
<1>2. CardOK(attached) /\ attached.head = card.head \cup {s}
  BY <1>1, AttachedOK DEF Sessions
<1>3. CardOK(revoked) /\ revoked.head = attached.head
  <2> HIDE DEF attached
  <2> QED
    BY <1>2, RevokedOK
<1>4. /\ Fresh \in AnySession /\ Fresh.st = "live"
      /\ \A x \in Unplayed : x \in AnySession /\ x.st = "live"
  BY SessionFacts
<1>5. CASE /\ sess' = [ss EXCEPT ![s] = Fresh] /\ sd' = attached
           /\ running' = TRUE
           /\ player' = [p EXCEPT !.s = s, !.state = "playing",
                                  !.priming = TRUE]
           /\ owner' = Idle
  <2> HIDE DEF attached
  <2>1. player' \in PlayerType /\ player'.s = s
    BY <1>1, <1>5 DEF PlayerType
  <2>2. sess' \in [Sessions -> AnySession] /\ Live(sess', s)
    BY <1>1, <1>4, <1>5 DEF Live
  <2>3. Out(sess', sd'.head)
    BY <1>2, <1>5 DEF Out
  <2>4. PlayerLive(player', sess') /\ OwnerLive(owner', sess')
    BY <1>5, <2>1, <2>2, ConstantFacts DEF PlayerLive, OwnerLive
  <2> QED
    BY <1>2, <1>5, <2>1, <2>2, <2>3, <2>4, ConstantFacts, LeaseAfter
<1>6. CASE /\ \E x \in Unplayed : sess' = [ss EXCEPT ![s] = x]
           /\ sd' = revoked
           /\ running' = running
           /\ player' = p
           /\ owner' = [pc |-> "ack", why |-> busy, s |-> s, audio |-> TRUE]
  <2> HIDE DEF attached, revoked
  <2>1. owner' \in OwnerType /\ owner'.pc = "ack" /\ owner'.s = s
    <3>1. "ack" \in OwnerPCs
      BY DEF OwnerPCs
    <3> QED
      BY <1>1, <1>6, <3>1, OwnerTypes
  <2>2. sess' \in [Sessions -> AnySession] /\ Live(sess', s)
    BY <1>1, <1>4, <1>6 DEF Live
  <2>3. Out(sess', sd'.head)
    BY <1>2, <1>3, <1>6 DEF Out
  <2>4. PlayerLive(player', sess')
    BY <1>4, <1>6, <2>2 DEF PlayerLive, Live
  <2>5. OwnerLive(owner', sess')
    BY <2>1, <2>2 DEF OwnerLive
  <2> QED
    BY <1>3, <1>6, <2>1, <2>2, <2>3, <2>4, <2>5, LeaseAfter
<1>7. \/ /\ sess' = [ss EXCEPT ![s] = Fresh] /\ sd' = attached
         /\ running' = TRUE
         /\ player' = [p EXCEPT !.s = s, !.state = "playing",
                                !.priming = TRUE]
         /\ owner' = Idle
      \/ /\ \E x \in Unplayed : sess' = [ss EXCEPT ![s] = x]
         /\ sd' = revoked
         /\ running' = running
         /\ player' = p
         /\ owner' = [Idle EXCEPT !.pc = "ack", !.why = busy, !.s = s]
  BY DEF Launch, s, decVars
<1>8. ASSUME owner' = [Idle EXCEPT !.pc = "ack", !.why = busy, !.s = s]
      PROVE  owner' = [pc |-> "ack", why |-> busy, s |-> s, audio |-> TRUE]
  BY <1>8 DEF Idle
<1> QED
  BY <1>5, <1>6, <1>7, <1>8

(* The owner's steps that leave the sessions where they are, and do at     *)
(* most a call of SdMedia.                                                 *)
LEMMA CardKeeps ==
  ASSUME LeaseInv, CardOK(sd'), sd'.head = sd.head, sess' = sess,
         running' = running, owner' = owner,
         player' \in PlayerType, player'.s \in {player.s, None}
  PROVE  LeaseInv'
BY DEF LeaseInv, PlayerLive

LEMMA CardSteps ==
  ASSUME LeaseInv,
         \/ Open \/ CardRead \/ RequestFolder \/ FolderChosen
         \/ FolderDeclined \/ FsPump \/ Adopt \/ CardPulled
         \/ \E kind \in {"app", "overlay"} : AppStarts(kind)
  PROVE  LeaseInv'
<1>1. UNCHANGED <<sess, running, owner>>
  BY DEF Open, CardRead, RequestFolder, FolderChosen, FolderDeclined, FsPump,
         Adopt, CardPulled, AppStarts, SilentOwner, OwnerOnly, decVars
<1>2. CardOK(sd) /\ player \in PlayerType
  BY DEF LeaseInv
<1>3. player' \in PlayerType /\ player'.s \in {player.s, None}
  <2>1. \/ player' = player \/ player' = [NoPlayer EXCEPT !.open = TRUE]
        \/ player' = [player EXCEPT !.bg = FALSE]
    BY DEF Open, CardRead, RequestFolder, FolderChosen, FolderDeclined,
           FsPump, Adopt, CardPulled, AppStarts
  <2>2. /\ [NoPlayer EXCEPT !.open = TRUE] \in PlayerType
        /\ [NoPlayer EXCEPT !.open = TRUE].s = None
    BY DEF NoPlayer, PlayerType
  <2>3. /\ [player EXCEPT !.bg = FALSE] \in PlayerType
        /\ [player EXCEPT !.bg = FALSE].s = player.s
    BY <1>2 DEF PlayerType
  <2> QED
    BY <1>2, <2>1, <2>2, <2>3
<1>4. CardOK(sd') /\ sd'.head = sd.head
  <2>1. CASE Open \/ CardRead
    <3>1. sd' \in {sd, NoteError(sd)}
      BY <2>1 DEF Open, CardRead
    <3> QED
      BY <1>2, <3>1, NoteErrorOK
  <2>2. CASE RequestFolder
    <3>1. PICK o \in Outcomes : sd' = MountedAs(sd, o)
      BY <2>2 DEF RequestFolder
    <3>2. sd.gen < MaxGen
      BY <2>2 DEF RequestFolder
    <3> QED
      BY <1>2, <3>1, <3>2, MountedAsOK
  <2>3. CASE FolderChosen \/ FolderDeclined
    <3>1. sd' \in {sd, Granted(sd), Unmounted(sd)}
      BY <2>3 DEF FolderChosen, FolderDeclined
    <3> QED
      BY <1>2, <3>1, GrantedOK, UnmountedOK
  <2>4. CASE FsPump
    BY <1>2, <2>4, ServicedOK DEF FsPump
  <2>5. CASE Adopt \/ \E kind \in {"app", "overlay"} : AppStarts(kind)
    BY <1>2, <2>5 DEF Adopt, AppStarts
  <2>6. CASE CardPulled
    BY <1>2, <2>6, PulledOK DEF CardPulled
  <2> QED
    BY <2>1, <2>2, <2>3, <2>4, <2>5, <2>6
<1> QED
  BY <1>1, <1>3, <1>4, CardKeeps

(* A stop that begins, with or without a visit of the reaper.              *)
LEMMA StopKeeps ==
  ASSUME LeaseInv, NEW p \in PlayerType, p.s = player.s, NEW why \in Whys,
         HaltBegins(p, why), running' = running,
         \/ UNCHANGED <<sd, sess>>
         \/ Reaps
  PROVE  LeaseInv'
<1>1. PlayerLive(p, sess)
  BY DEF LeaseInv, PlayerLive
<1>2. /\ player' \in PlayerType /\ PlayerLive(player', sess)
      /\ owner' \in OwnerType /\ OwnerLive(owner', sess)
  BY <1>1, HaltBeginsKeeps
<1>3. CASE UNCHANGED <<sd, sess>>
  BY <1>2, <1>3 DEF LeaseInv
<1>4. CASE Reaps
  <2>1. /\ CardOK(sd') /\ sess' \in [Sessions -> AnySession]
        /\ Out(sess', sd'.head) /\ LivesOn(sess, sess')
    BY <1>4, ReapKeeps DEF Reaps
  <2>2. PlayerLive(player', sess') /\ OwnerLive(owner', sess')
    BY <1>2, <2>1, HoldersLiveOn
  <2>3. running' \in BOOLEAN
    BY DEF LeaseInv
  <2> QED
    BY <1>2, <2>1, <2>2, <2>3, LeaseAfter
<1> QED
  BY <1>3, <1>4

LEMMA StopSteps ==
  ASSUME LeaseInv,
         \/ Close \/ BackgroundStop \/ BackgroundNext
         \/ ServicePausedFault \/ ServicePrimeTimeout
  PROVE  LeaseInv'
<1>1. PICK why \in Whys : HaltBegins(player, why)
  BY DEF Close, BackgroundStop, BackgroundNext, ServicePausedFault,
         ServicePrimeTimeout, Whys
<1>2. UNCHANGED <<sd, sess>> \/ Reaps
  BY DEF Close, BackgroundStop, BackgroundNext, ServicePausedFault,
         ServicePrimeTimeout
<1>3. running' = running
  BY DEF Close, BackgroundStop, BackgroundNext, ServicePausedFault,
         ServicePrimeTimeout, OwnerOnly
<1>4. player \in PlayerType
  BY DEF LeaseInv
<1> QED
  BY <1>1, <1>2, <1>3, <1>4, StopKeeps

LEMMA PauseSteps ==
  ASSUME LeaseInv, Pause \/ Resume
  PROVE  LeaseInv'
<1>1. UNCHANGED <<sd, owner, running>>
  BY DEF Pause, Resume, OwnerOnly
<1>2. PICK b \in BOOLEAN, st \in {"playing", "paused"} :
        /\ sess' = [sess EXCEPT ![player.s].paused = b]
        /\ player' = [player EXCEPT !.state = st]
  BY DEF Pause, Resume
<1> DEFINE x == [sess[player.s] EXCEPT !.paused = b]
<1>3. player.s \in Sessions => x \in AnySession /\ x.st = sess[player.s].st
  <2>1. player.s \in Sessions => sess[player.s] \in AnySession
    BY DEF LeaseInv
  <2> QED
    BY <2>1 DEF AnySession
<1>4. sess' = [sess EXCEPT ![player.s] = x]
  BY <1>2
<1> HIDE DEF x
<1>5. /\ sess' \in [Sessions -> AnySession]
      /\ \A r \in Sessions : sess'[r].st = sess[r].st
  BY <1>3, <1>4, OneMoves
<1>6. player' \in PlayerType /\ player'.s = player.s
  BY <1>2 DEF LeaseInv, PlayerType
<1> QED
  BY <1>1, <1>5, <1>6 DEF LeaseInv, Out, PlayerLive, OwnerLive, Live

LEMMA ServiceKeeps ==
  ASSUME LeaseInv, ServiceRest \/ ServiceStart \/ ServiceDone
  PROVE  LeaseInv'
<1>1. player \in PlayerType /\ running \in BOOLEAN
  BY DEF LeaseInv
<1>2. ASSUME NEW d, d = Closed(sd, Reapable), sess' = Disposed(sess, Reapable),
             sd' \in {d, Serviced(d)},
             owner' = owner, player' \in PlayerType, player'.s = player.s,
             running' = running
      PROVE  LeaseInv'
  <2>1. /\ CardOK(d) /\ sess' \in [Sessions -> AnySession]
        /\ Out(sess', d.head) /\ LivesOn(sess, sess')
    BY <1>2, ReapKeeps
  <2>2. CardOK(sd') /\ sd'.head = d.head
    BY <1>2, <2>1, ServicedOK
  <2>3. PlayerLive(player', sess) /\ OwnerLive(owner', sess)
    BY <1>2 DEF LeaseInv, PlayerLive
  <2>4. PlayerLive(player', sess') /\ OwnerLive(owner', sess')
    BY <2>1, <2>3, HoldersLiveOn
  <2>5. owner' \in OwnerType /\ running' \in BOOLEAN
    BY <1>1, <1>2 DEF LeaseInv
  <2> QED
    BY <1>2, <2>1, <2>2, <2>4, <2>5, LeaseAfter
<1>3. CASE ServiceRest
  BY <1>1, <1>2, <1>3 DEF ServiceRest, SilentOwner, OwnerOnly
<1>4. CASE ServiceDone
  <2>1. PICK st \in {"ended", "error"} :
          player' = [player EXCEPT !.stream = None, !.state = st]
    BY <1>4 DEF ServiceDone
  <2>2. player' \in PlayerType /\ player'.s = player.s
    BY <1>1, <2>1 DEF PlayerType
  <2>3. /\ sess' = Disposed(sess, Reapable) /\ sd' = Closed(sd, Reapable)
        /\ owner' = owner /\ running' = running
    BY <1>4 DEF ServiceDone, Reaps, decVars
  <2> QED
    BY <1>2, <2>2, <2>3
<1>5. CASE ServiceStart
  <2> DEFINE p == [player EXCEPT !.priming = FALSE]
             q == [player EXCEPT !.priming = FALSE, !.stream = player.s]
  <2>1. p \in PlayerType /\ p.s = player.s
    BY <1>1 DEF PlayerType
  <2>2. q \in PlayerType /\ q.s = player.s
    BY <1>1 DEF PlayerType
  <2>3. Reaps /\ running' = running
    BY <1>5 DEF ServiceStart
  <2>4. \/ player' = q /\ owner' = owner
        \/ HaltBegins(p, "error")
    BY <1>5 DEF ServiceStart
  <2>5. CASE player' = q /\ owner' = owner
    BY <1>2, <2>2, <2>3, <2>5 DEF Reaps
  <2>6. CASE HaltBegins(p, "error")
    <3>1. "error" \in Whys
      BY DEF Whys
    <3> HIDE DEF p
    <3> QED
      BY <2>1, <2>3, <2>6, <3>1, StopKeeps
  <2> QED
    BY <2>4, <2>5, <2>6
<1> QED
  BY <1>3, <1>4, <1>5

LEMMA EndSteps ==
  ASSUME LeaseInv, AppEnds \/ Suspend
  PROVE  LeaseInv'
<1>1. UNCHANGED <<sess, running>> /\ player \in PlayerType /\ CardOK(sd)
  BY DEF AppEnds, Suspend, OwnerOnly, LeaseInv
<1> DEFINE Stops == \/ HaltBegins(player, "reset") /\ sd' = sd
                    \/ HaltBegins(player, "suspend") /\ sd' = sd
           Goes == /\ \E p : sd' = FsReset(sd, p)
                   /\ player' \in {player, [player EXCEPT !.bg = player.open]}
                   /\ owner' = owner
<1>2. CASE Stops
  <2>1. "reset" \in Whys /\ "suspend" \in Whys
    BY DEF Whys
  <2>2. CASE HaltBegins(player, "reset") /\ sd' = sd
    BY <1>1, <2>1, <2>2, StopKeeps
  <2>3. CASE HaltBegins(player, "suspend") /\ sd' = sd
    BY <1>1, <2>1, <2>3, StopKeeps
  <2> QED
    BY <1>2, <2>2, <2>3
<1>3. CASE Goes
  <2>1. CardOK(sd') /\ sd'.head = sd.head
    BY <1>1, <1>3, FsResetOK
  <2>2. /\ [player EXCEPT !.bg = player.open] \in PlayerType
        /\ [player EXCEPT !.bg = player.open].s = player.s
    BY <1>1 DEF PlayerType
  <2>3. player' \in PlayerType /\ player'.s = player.s
    BY <1>1, <1>3, <2>2
  <2> QED
    BY <1>1, <1>3, <2>1, <2>3, CardKeeps
<1>4. Stops \/ Goes
  BY DEF AppEnds, Suspend
<1> QED
  BY <1>2, <1>3, <1>4

LEMMA LaunchSteps ==
  ASSUME LeaseInv, Play \/ BackgroundLaunch
  PROVE  LeaseInv'
<1> DEFINE ss == Disposed(sess, Reapable)
           d == Closed(sd, Reapable)
           p == [player EXCEPT !.open = TRUE]
           Ends == /\ player' = NoPlayer /\ owner' = Idle
                   /\ sd' \in {sd, NoteError(sd)}
                   /\ UNCHANGED <<sess, running>>
<1>1. /\ CardOK(d) /\ ss \in [Sessions -> AnySession]
      /\ Out(ss, d.head) /\ LivesOn(sess, ss)
  BY ReapKeeps
<1>2. /\ player \in PlayerType /\ PlayerLive(player, sess)
      /\ running \in BOOLEAN /\ CardOK(sd)
  BY DEF LeaseInv
<1>3. p \in PlayerType /\ p.s = player.s
  BY <1>2 DEF PlayerType
<1> HIDE DEF ss, d, p
<1>4. PlayerLive(player, ss) /\ PlayerLive(p, ss)
  BY <1>1, <1>2, <1>3, HoldersLiveOn DEF PlayerLive
<1>5. "busy" \in Whys /\ "bgbusy" \in Whys
  BY DEF Whys
<1>6. CASE Launch(player, d, ss, "busy")
  BY <1>1, <1>2, <1>4, <1>5, <1>6, LaunchKeeps
<1>7. CASE Launch(p, d, ss, "bgbusy")
  BY <1>1, <1>2, <1>3, <1>4, <1>5, <1>7, LaunchKeeps
<1>8. CASE Ends
  <2>1. CardOK(sd') /\ sd'.head = sd.head
    BY <1>2, <1>8, NoteErrorOK
  <2>2. PlayerLive(player', sess') /\ OwnerLive(owner', sess')
    BY <1>8, ConstantFacts DEF PlayerLive, OwnerLive
  <2> QED
    BY <1>8, <2>1, <2>2, ConstantFacts, LeaseAfter DEF LeaseInv
<1>9. Play => Launch(player, d, ss, "busy")
  BY DEF Play, ss, d
<1>10. BackgroundLaunch => Launch(p, d, ss, "bgbusy") \/ Ends
  BY DEF BackgroundLaunch, ss, d, p, decVars
<1> QED
  BY <1>6, <1>7, <1>8, <1>9, <1>10

-----------------------------------------------------------------------------
LEMMA LeaseNext == LeaseInv /\ [Next]_vars => LeaseInv'
<1> SUFFICES ASSUME LeaseInv, [Next]_vars
             PROVE  LeaseInv'
  OBVIOUS
<1>1. CASE \E s \in Sessions : ReaderStep(s)
  BY <1>1, ReaderKeeps
<1>2. CASE DecoderStep
  BY <1>2, DecoderKeeps
<1>3. CASE AudioStep \/ CodecFails
  BY <1>3, AudioKeeps
<1>4. CASE OwnerWaits
  BY <1>4, HaltAudioKeeps, HaltFeedKeeps, HaltAckKeeps DEF OwnerWaits
<1>5. CASE Service
  BY <1>5, ServiceKeeps, StopSteps DEF Service
<1>6. CASE Play \/ BackgroundLaunch
  BY <1>6, LaunchSteps
<1>7. CASE Pause \/ Resume
  BY <1>7, PauseSteps
<1>8. CASE Close \/ BackgroundStop \/ BackgroundNext
  BY <1>8, StopSteps
<1>9. CASE \/ Open \/ CardRead \/ RequestFolder \/ FolderChosen
           \/ FolderDeclined \/ FsPump \/ Adopt \/ CardPulled
           \/ \E kind \in {"app", "overlay"} : AppStarts(kind)
  BY <1>9, CardSteps
<1>10. CASE AppEnds \/ Suspend
  BY <1>10, EndSteps
<1>11. CASE UNCHANGED vars
  BY <1>11 DEF vars, decVars, LeaseInv
<1> QED
  BY <1>1, <1>2, <1>3, <1>4, <1>5, <1>6, <1>7, <1>8, <1>9, <1>10, <1>11
     DEF Next

(* A lease that is out pins the card, and every session whose memory is    *)
(* there has its lease out: mp3_sd_session_start() attaches before the     *)
(* reader starts, and only mp3_sd_session_stop() and the reaper detach.    *)
THEOREM LeaseTheorem == Spec => []LeaseInv
BY LeaseInit, LeaseNext, PTL DEF Spec

(* However many sessions and mounts there are, and whoever is late: while  *)
(* a reader is inside sd_media_read_lease_read_at(), the card its file was *)
(* opened on is the one under the VFS.                                     *)
THEOREM ReadsAreMountedTheorem == Spec => []ReadsAreMounted
<1>1. LeaseInv => ReadsAreMounted
  <2> SUFFICES ASSUME LeaseInv, NEW s \in Sessions, Reader(s, "read")
               PROVE  sd.card # 0 /\ sd.card = sd.tok[s].gen
    BY DEF ReadsAreMounted
  <2>1. s \in sd.head
    BY DEF Reader, LeaseInv, Out
  <2> QED
    BY <2>1 DEF LeaseInv, CardOK
<1> QED
  BY <1>1, LeaseTheorem, PTL
-----------------------------------------------------------------------------
(* What a step leaves of a session: what belongs to the owner, to the      *)
(* reader, to the decoder and to the audio task.                           *)
SameOwner(x, y) ==
  /\ y.st = x.st /\ y.audio_stopped = x.audio_stopped
  /\ y.decoder_stopped = x.decoder_stopped
SameFile(x, y) ==
  /\ y.pc = x.pc /\ y.terminal = x.terminal /\ y.saw = x.saw
  /\ y.packets.filled = x.packets.filled /\ y.packets.eof = x.packets.eof
SameDecoded(x, y) ==
  /\ y.packets.drained = x.packets.drained /\ y.faults = x.faults
  /\ y.pcm.filled = x.pcm.filled /\ y.pcm.eof = x.pcm.eof
SamePlayed(x, y) == y.pcm.drained = x.pcm.drained

(* The end of the file is put into the ring once, with the reason, and     *)
(* after every slot.                                                       *)
FileEnded(x) ==
  x.packets.eof => /\ x.pc \in {"ending", "acked"}
                   /\ x.terminal = "error" \/ x.packets.filled = Song

LEMMA ReaderTouches ==
  ASSUME LeaseInv, NEW s \in Sessions, ReaderStep(s)
  PROVE  /\ \A r \in Sessions : r # s => sess'[r] = sess[r]
         /\ SameOwner(sess[s], sess'[s]) /\ SameDecoded(sess[s], sess'[s])
         /\ SamePlayed(sess[s], sess'[s])
         /\ sess[s].packets.eof => sess'[s].packets.eof
         /\ FileEnded(sess[s]) => FileEnded(sess'[s])
         /\ sess[s].pc = "ending" => sess'[s].packets = sess[s].packets
         /\ sess[s].pc # "acked"
         /\ sess[s].pc # "published" /\ sess'[s].pc = "published"
              => sess'[s].packets.filled = sess[s].packets.filled + 1
<1> DEFINE x == sess[s]
<1>1. x \in AnySession /\ sess \in [Sessions -> AnySession]
  BY DEF LeaseInv
<1>2. x.packets \in AnyRing /\ x.pcm \in AnyRing
  BY <1>1 DEF AnySession
<1>3. PICK w : sess' = [sess EXCEPT ![s] = w]
  BY DEF ReaderStep, ReaderSignal, ReaderGot, ReaderEof, ReaderAck
<1>4. \A r \in Sessions : r # s => sess'[r] = sess[r]
  BY <1>1, <1>3
<1> USE DEF SameOwner, SameDecoded, SamePlayed, FileEnded
<1>5. CASE ReaderSignal(s)
  <2>1. x.pc = "signal"
    BY <1>5 DEF ReaderSignal, Reader
  <2>2. CASE sess'[s] = [x EXCEPT !.pc = "read"]
    BY <1>1, <1>2, <1>4, <2>1, <2>2 DEF AnySession, AnyRing
  <2>3. CASE sess'[s] = Signalled(x)
    BY <1>1, <1>2, <1>4, <2>1, <2>3
       DEF AnySession, AnyRing, Signalled, Failing
  <2> QED
    BY <1>1, <1>5, <2>2, <2>3 DEF ReaderSignal
<1>6. CASE ReaderGot(s)
  <2> DEFINE y == [x EXCEPT !.saw = ~sd.answers]
  <2>1. x.pc = "read"
    BY <1>6 DEF ReaderGot, Reader
  <2>2. /\ y \in AnySession /\ y.packets = x.packets /\ y.pcm = x.pcm
        /\ y.faults = x.faults /\ SameOwner(x, y) /\ y.pc = x.pc
    BY <1>1 DEF AnySession
  <2>3. \/ sess'[s] = Signalled(y) \/ sess'[s] = Failing(y)
        \/ sess'[s] = [y EXCEPT !.packets = Published(@), !.pc = "published"]
    BY <1>1, <1>6 DEF ReaderGot
  <2> HIDE DEF y
  <2>4. CASE sess'[s] = Signalled(y) \/ sess'[s] = Failing(y)
    <3>1. CASE sess'[s] = Failing(y)
      BY <1>2, <1>4, <2>1, <2>2, <3>1 DEF AnySession, AnyRing, Failing
    <3>2. CASE sess'[s] = [y EXCEPT !.terminal = "cancelled", !.pc = "ending"]
      BY <1>2, <1>4, <2>1, <2>2, <3>2 DEF AnySession, AnyRing
    <3> QED
      BY <2>4, <3>1, <3>2 DEF Signalled
  <2>5. CASE sess'[s] = [y EXCEPT !.packets = Published(@), !.pc = "published"]
    BY <1>2, <1>4, <2>1, <2>2, <2>5 DEF AnySession, AnyRing, Published
  <2> QED
    BY <2>3, <2>4, <2>5
<1>7. CASE ReaderEof(s)
  <2>1. x.pc = "published"
    BY <1>7 DEF ReaderEof, Reader
  <2>2. sess'[s] = IF x.packets.filled = Song
                     THEN [x EXCEPT !.packets.eof = TRUE, !.terminal = "eof",
                                    !.pc = "ending"]
                     ELSE [x EXCEPT !.pc = "signal"]
    BY <1>1, <1>7 DEF ReaderEof
  <2> QED
    BY <1>1, <1>2, <1>4, <2>1, <2>2 DEF AnySession, AnyRing
<1>8. CASE ReaderAck(s)
  <2>1. x.pc = "ending" /\ sess'[s] = [x EXCEPT !.pc = "acked"]
    BY <1>1, <1>8 DEF ReaderAck, Reader
  <2> QED
    BY <1>1, <1>2, <1>4, <2>1 DEF AnySession, AnyRing
<1> QED
  BY <1>5, <1>6, <1>7, <1>8 DEF ReaderStep

LEMMA DecoderTouches ==
  ASSUME LeaseInv, DecoderStep
  PROVE  /\ \A r \in Sessions : r # dec.s => sess'[r] = sess[r]
         /\ \A r \in Sessions : /\ SameOwner(sess[r], sess'[r])
                                /\ SameFile(sess[r], sess'[r])
                                /\ SamePlayed(sess[r], sess'[r])
<1> DEFINE x == sess[dec.s]
<1>1. sess \in [Sessions -> AnySession]
  BY DEF LeaseInv
<1>2. \A r \in Sessions : sess[r].packets \in AnyRing /\ sess[r].pcm \in AnyRing
  BY <1>1 DEF AnySession
<1> USE DEF SameOwner, SameFile, SamePlayed
<1>3. \/ sess' = sess
      \/ \E b : sess' = [sess EXCEPT ![dec.s].packets = Released(@, b)]
      \/ \E v \in BOOLEAN : sess' = [sess EXCEPT ![dec.s].faults = v]
      \/ sess' = [sess EXCEPT ![dec.s].pcm = Published(@)]
      \/ sess' = [sess EXCEPT ![dec.s].pcm.eof = TRUE]
  BY DEF DecoderStep, DecRead, DecLook, DecTail, DecDecode, DecFlush, DecEof,
         DecOut, Packets
<1>4. CASE \E b : sess' = [sess EXCEPT ![dec.s].packets = Released(@, b)]
  BY <1>1, <1>2, <1>4 DEF AnySession, AnyRing, Released
<1>5. CASE \E v \in BOOLEAN : sess' = [sess EXCEPT ![dec.s].faults = v]
  BY <1>1, <1>2, <1>5 DEF AnySession
<1>6. CASE sess' = [sess EXCEPT ![dec.s].pcm = Published(@)]
  BY <1>1, <1>2, <1>6 DEF AnySession, AnyRing, Published
<1>7. CASE sess' = [sess EXCEPT ![dec.s].pcm.eof = TRUE]
  BY <1>1, <1>2, <1>7 DEF AnySession, AnyRing
<1> QED
  BY <1>3, <1>4, <1>5, <1>6, <1>7

LEMMA AudioTouches ==
  ASSUME LeaseInv, AudioStep \/ CodecFails
  PROVE  /\ \A r \in Sessions : r # audio.s => sess'[r] = sess[r]
         /\ \A r \in Sessions : /\ SameOwner(sess[r], sess'[r])
                                /\ SameFile(sess[r], sess'[r])
                                /\ SameDecoded(sess[r], sess'[r])
         /\ \/ sess' = sess
            \/ sess' = [sess EXCEPT ![audio.s].pcm = Released(@, audio.held)]
<1>1. sess \in [Sessions -> AnySession]
  BY DEF LeaseInv
<1>2. \A r \in Sessions : sess[r].packets \in AnyRing /\ sess[r].pcm \in AnyRing
  BY <1>1 DEF AnySession
<1> USE DEF SameOwner, SameFile, SameDecoded
<1>3. \/ sess' = sess
      \/ sess' = [sess EXCEPT ![audio.s].pcm = Released(@, audio.held)]
  <2>1. CASE AudioTake \/ AudioClaim \/ AudioCheck \/ AudioLook \/ AudioPost
    BY <2>1 DEF AudioTake, AudioClaim, AudioCheck, AudioLook, AudioPost
  <2>2. CASE AudioBreak \/ CodecFails \/ AudioTail
    BY <2>2 DEF AudioBreak, CodecFails, AudioTail, Leaves
  <2>3. CASE AudioPlay
    BY <2>3 DEF AudioPlay
  <2> QED
    BY <2>1, <2>2, <2>3 DEF AudioStep
<1>4. CASE sess' = [sess EXCEPT ![audio.s].pcm = Released(@, audio.held)]
  BY <1>1, <1>2, <1>4 DEF AnySession, AnyRing, Released
<1> QED
  BY <1>3, <1>4

-----------------------------------------------------------------------------
(* What the owner task's step leaves of a session: it is left as it is, or *)
(* told to stop, freed, quarantined, or it is the new one.                 *)
OwnerStep ==
  \/ OwnerWaits \/ Service
  \/ Play \/ Resume \/ Pause \/ Close \/ Open \/ CardRead
  \/ RequestFolder \/ FolderChosen \/ FolderDeclined \/ FsPump
  \/ BackgroundStop \/ BackgroundNext \/ BackgroundLaunch \/ Adopt
  \/ \E kind \in {"app", "overlay"} : AppStarts(kind)
  \/ AppEnds \/ Suspend

LEMMA NextSplits ==
  Next <=> \/ \E s \in Sessions : ReaderStep(s)
           \/ DecoderStep \/ AudioStep \/ CodecFails \/ OwnerStep \/ CardPulled
BY DEF Next, OwnerStep

Gone == [NoSession EXCEPT !.st = "freed", !.pc = "acked"]
SameRings(x, y) == SameFile(x, y) /\ SameDecoded(x, y) /\ SamePlayed(x, y)
Kept(x, y) == SameOwner(x, y) /\ SameRings(x, y)

LEMMA KeptItself == \A x : Kept(x, x)
BY DEF Kept, SameRings, SameOwner, SameFile, SameDecoded, SamePlayed

(* The steps that do not look at a session's memory, or pause its reader.  *)
Looks ==
  \/ HaltAudio \/ Resume \/ Pause \/ Close \/ Open \/ CardRead
  \/ RequestFolder \/ FolderChosen \/ FolderDeclined \/ FsPump
  \/ BackgroundStop \/ BackgroundNext \/ Adopt
  \/ \E kind \in {"app", "overlay"} : AppStarts(kind)
  \/ AppEnds \/ Suspend

LEMMA LooksKeep ==
  ASSUME LeaseInv, Looks
  PROVE  \A r \in Sessions : Kept(sess[r], sess'[r])
<1>1. CASE Resume \/ Pause
  <2>1. PICK b \in BOOLEAN : sess' = [sess EXCEPT ![player.s].paused = b]
    BY <1>1 DEF Resume, Pause
  <2>2. sess \in [Sessions -> AnySession]
    BY DEF LeaseInv
  <2> QED
    BY <2>1, <2>2
       DEF Kept, SameRings, SameOwner, SameFile, SameDecoded, SamePlayed,
           AnySession
<1>2. CASE ~(Resume \/ Pause)
  <2>1. UNCHANGED sess
    BY <1>2 DEF Looks, HaltAudio, Close, Open, CardRead, RequestFolder,
                FolderChosen, FolderDeclined, FsPump, BackgroundStop,
                BackgroundNext, Adopt, AppStarts, AppEnds, Suspend
  <2> QED
    BY <2>1, KeptItself
<1> QED
  BY <1>1, <1>2

(* The steps that begin with the reaper and do no more to the sessions.    *)
LEMMA ServiceReaps == Service => sess' = Disposed(sess, Reapable)
BY DEF Service, ServiceRest, ServicePausedFault, ServiceStart,
       ServicePrimeTimeout, ServiceDone, Reaps

Obeys(r) ==
  /\ sess'[r].st = sess[r].st /\ SameRings(sess[r], sess'[r])
  /\ sess'[r].audio_stopped = owner.audio
  /\ sess'[r].decoder_stopped = ~running

LEMMA HaltFeedTells ==
  ASSUME LeaseInv, HaltFeed
  PROVE  \A r \in Sessions : \/ Kept(sess[r], sess'[r])
                             \/ r = owner.s /\ Obeys(r)
<1>1. sess \in [Sessions -> AnySession]
  BY DEF LeaseInv
<1>2. CASE owner.s = None
  BY <1>2, KeptItself DEF HaltFeed
<1>3. CASE owner.s # None
  <2>1. sess' = [sess EXCEPT ![owner.s] =
                   [@ EXCEPT !.cancel = TRUE, !.paused = FALSE,
                             !.audio_stopped = owner.audio,
                             !.decoder_stopped = ~running]]
    BY <1>3 DEF HaltFeed
  <2>2. \A r \in Sessions : r # owner.s => sess'[r] = sess[r]
    BY <1>1, <2>1
  <2>3. ASSUME NEW r \in Sessions, r = owner.s PROVE Obeys(r)
    <3>1. sess'[r] = [sess[r] EXCEPT !.cancel = TRUE, !.paused = FALSE,
                                     !.audio_stopped = owner.audio,
                                     !.decoder_stopped = ~running]
      BY <1>1, <2>1, <2>3
    <3>2. sess[r] \in AnySession
      BY <1>1
    <3> QED
      BY <3>1, <3>2 DEF Obeys, SameRings, SameFile, SameDecoded, SamePlayed,
                        AnySession
  <2> QED
    BY <2>2, <2>3, KeptItself
<1> QED
  BY <1>2, <1>3

Free(s) ==
  /\ sd.tok[s].ack /\ sess[s].audio_stopped /\ sess[s].decoder_stopped

LEMMA HaltAckEnds ==
  ASSUME LeaseInv, HaltAck
  PROVE  /\ Live(sess, owner.s) /\ owner.s \in Sessions
         /\ \A r \in Sessions : r # owner.s => sess'[r] = sess[r]
         /\ sess'[owner.s] = IF Free(owner.s) THEN Gone
                             ELSE Quarantined(sess[owner.s])
<1>1. sess \in [Sessions -> AnySession]
  BY DEF LeaseInv
<1>2. Live(sess, owner.s) /\ owner.s \in Sessions
  BY DEF HaltAck, LeaseInv, OwnerLive, Live
<1>3. sess' = IF Free(owner.s) THEN Disposed(sess, {owner.s})
              ELSE [sess EXCEPT ![owner.s] = Quarantined(@)]
  BY DEF HaltAck, Free
<1> QED
  BY <1>1, <1>2, <1>3 DEF Disposed, Gone

(* A launch, in an app or of the background's next file.                   *)
Launches ==
  /\ \/ /\ player' = [player EXCEPT !.s = Used + 1, !.state = "playing",
                                    !.priming = TRUE]
        /\ player.open
     \/ player' = [player EXCEPT !.open = TRUE, !.s = Used + 1,
                                 !.state = "playing", !.priming = TRUE]
  /\ ~running /\ running'
  /\ dec' = [NoDecoder EXCEPT !.pc = "read", !.s = Used + 1]
  /\ owner' = Idle
  /\ sess' = [Disposed(sess, Reapable) EXCEPT ![Used + 1] = Fresh]
  /\ sd' = Attached(Closed(sd, Reapable), Used + 1)
LaunchFails ==
  /\ \/ player' = player /\ player.state = "ready"
     \/ player' = [player EXCEPT !.open = TRUE] /\ owner.pc = "next"
  /\ UNCHANGED decVars
  /\ owner'.pc = "ack" /\ owner'.s = Used + 1
  /\ owner'.why \in {"busy", "bgbusy"}
  /\ \E x \in Unplayed :
       sess' = [Disposed(sess, Reapable) EXCEPT ![Used + 1] = x]
  /\ sd' = [Attached(Closed(sd, Reapable), Used + 1) EXCEPT
              !.tok[Used + 1].revoked = TRUE]
LaunchStep ==
  /\ Used + 1 \in Sessions
  /\ Usable(Closed(sd, Reapable))
  /\ MayAttach(Closed(sd, Reapable), Used + 1)
  /\ player.state = "ready" \/ owner.pc = "next"
  /\ owner.pc \in {"idle", "next"}
  /\ Launches \/ LaunchFails
  /\ UNCHANGED <<audioVars, done>>
NoLaunch ==
  /\ owner.pc = "next" /\ player' = NoPlayer /\ owner' = Idle
  /\ sd' \in {sd, NoteError(sd)}
  /\ UNCHANGED <<sess, decVars, audioVars, done>>

LEMMA LaunchCases ==
  ASSUME LeaseInv, NEW p, NEW busy \in {"busy", "bgbusy"},
         \/ /\ p = player /\ player.state = "ready" /\ player.open
            /\ owner.pc = "idle"
         \/ p = [player EXCEPT !.open = TRUE] /\ owner.pc = "next",
         UNCHANGED <<audioVars, done>>,
         Launch(p, Closed(sd, Reapable), Disposed(sess, Reapable), busy)
  PROVE  LaunchStep
<1> DEFINE s == Used + 1
           ss == Disposed(sess, Reapable)
           card == Closed(sd, Reapable)
<1>2. /\ s \in Sessions /\ Usable(card) /\ MayAttach(card, s)
  BY DEF Launch
<1>3. \/ /\ ~running
         /\ sess' = [ss EXCEPT ![s] = Fresh] /\ sd' = Attached(card, s)
         /\ dec' = [NoDecoder EXCEPT !.pc = "read", !.s = s]
         /\ running' = TRUE
         /\ player' = [p EXCEPT !.s = s, !.state = "playing",
                                !.priming = TRUE]
         /\ owner' = Idle
      \/ /\ \E x \in Unplayed : sess' = [ss EXCEPT ![s] = x]
         /\ sd' = [Attached(card, s) EXCEPT !.tok[s].revoked = TRUE]
         /\ player' = p
         /\ owner' = [Idle EXCEPT !.pc = "ack", !.why = busy, !.s = s]
         /\ UNCHANGED decVars
  BY DEF Launch
<1>4. [Idle EXCEPT !.pc = "ack", !.why = busy, !.s = s].pc = "ack"
      /\ [Idle EXCEPT !.pc = "ack", !.why = busy, !.s = s].s = s
      /\ [Idle EXCEPT !.pc = "ack", !.why = busy, !.s = s].why = busy
  BY DEF Idle
<1>5. [[player EXCEPT !.open = TRUE] EXCEPT !.s = s, !.state = "playing",
                                            !.priming = TRUE]
      = [player EXCEPT !.open = TRUE, !.s = s, !.state = "playing",
                       !.priming = TRUE]
  OBVIOUS
<1> QED
  BY <1>2, <1>3, <1>4, <1>5 DEF LaunchStep, Launches, LaunchFails

LEMMA LaunchSplits ==
  ASSUME LeaseInv, Play \/ BackgroundLaunch
  PROVE  LaunchStep \/ NoLaunch
<1> DEFINE Plays == Launch(player, Closed(sd, Reapable),
                           Disposed(sess, Reapable), "busy")
           Goes == Launch([player EXCEPT !.open = TRUE],
                           Closed(sd, Reapable),
                           Disposed(sess, Reapable), "bgbusy")
<1>1. Play => /\ Plays /\ player.state = "ready" /\ player.open
              /\ owner.pc = "idle" /\ UNCHANGED <<audioVars, done>>
  BY DEF Play, InApp, OwnerIdle
<1>2. BackgroundLaunch =>
        \/ Goes /\ owner.pc = "next" /\ UNCHANGED <<audioVars, done>>
        \/ NoLaunch
  BY DEF BackgroundLaunch, NoLaunch
<1>3. ASSUME Plays, player.state = "ready", player.open, owner.pc = "idle",
             UNCHANGED <<audioVars, done>>
      PROVE  LaunchStep
  BY <1>3, LaunchCases
<1>4. Goes /\ owner.pc = "next" /\ UNCHANGED <<audioVars, done>> => LaunchStep
  BY LaunchCases
<1> HIDE DEF Plays, Goes
<1> QED
  BY <1>1, <1>2, <1>3, <1>4

-----------------------------------------------------------------------------
(* A card that is gone.  A lease whose worker met it still has its fault,  *)
(* or the volume is not ready; no call of SdMedia forgets that, and one    *)
(* that takes a fault, or closes such a lease, leaves no ready volume.     *)
Owed(d, l) == d.tok[l].fault \/ d.state # "ready"
Tells(d, e) ==
  /\ d.state # "ready" => e.state # "ready"
  /\ \A l \in d.head : d.tok[l].fault => Owed(e, l)

LEMMA NoteErrorTells ==
  ASSUME NEW d, CardOK(d)
  PROVE  NoteError(d).state # "ready" /\ Tells(d, NoteError(d))
BY DEF CardOK, Media, NoteError, Removed, CancelAll, Tells, Owed

LEMMA ServicedTells ==
  ASSUME NEW d, CardOK(d)
  PROVE  Tells(d, Serviced(d))
<1> DEFINE told == IF \E l \in d.head : d.tok[l].fault
                     THEN NoteError(FaultsTaken(d)) ELSE d
<1>1. CardOK(told) /\ Tells(d, told)
  <2>1. CASE \E l \in d.head : d.tok[l].fault
    BY <2>1, FaultsTakenOK, NoteErrorOK, NoteErrorTells DEF Tells, Owed
  <2>2. CASE ~\E l \in d.head : d.tok[l].fault
    BY <2>2 DEF Tells, Owed
  <2> QED
    BY <2>1, <2>2
<1>2. Serviced(d) = IF ReadyToUnmount(told)
                      THEN [told EXCEPT !.card = 0, !.answers = FALSE,
                                        !.pending = FALSE]
                      ELSE told
  BY DEF Serviced
<1> HIDE DEF told
<1>3. Serviced(d).state = told.state /\ Serviced(d).tok = told.tok
  BY <1>1, <1>2 DEF CardOK, Media
<1> QED
  BY <1>1, <1>3 DEF Tells, Owed

LEMMA TellsOn ==
  ASSUME NEW d, NEW e, NEW f, Tells(d, e), Tells(e, f), e.head = d.head
  PROVE  Tells(d, f)
BY DEF Tells, Owed

LEMMA UnmountedTells ==
  ASSUME NEW d, CardOK(d)
  PROVE  Unmounted(d).state # "ready" /\ Tells(d, Unmounted(d))
<1> DEFINE e == NoteError(d)
<1>1. CardOK(e) /\ e.head = d.head /\ e.state # "ready" /\ Tells(d, e)
  BY NoteErrorOK, NoteErrorTells
<1>2. Unmounted(d) = Serviced(e)
  BY DEF Unmounted, NoteError
<1> HIDE DEF e
<1>3. Tells(e, Serviced(e))
  BY <1>1, ServicedTells
<1> QED
  BY <1>1, <1>2, <1>3, TellsOn DEF Tells

LEMMA FsResetTells ==
  ASSUME NEW d, CardOK(d), NEW p
  PROVE  Tells(d, FsReset(d, p))
<1> DEFINE closed == IF picker = "new" THEN Unmounted(d) ELSE d
<1>1. CardOK(closed) /\ closed.head = d.head /\ Tells(d, closed)
  BY UnmountedOK, UnmountedTells DEF Tells, Owed
<1>2. FsReset(d, p) = IF HoldsCard(p) THEN closed ELSE Unmounted(closed)
  BY DEF FsReset
<1> HIDE DEF closed
<1>3. Tells(closed, FsReset(d, p))
  BY <1>1, <1>2, UnmountedTells DEF Tells, Owed
<1> QED
  BY <1>1, <1>3, TellsOn

LEMMA MountedAsTells ==
  ASSUME NEW d, CardOK(d), NEW o \in Outcomes, NEW l \in d.head, Owed(d, l)
  PROVE  Owed(MountedAs(d, o), l)
<1> DEFINE s == Serviced(d)
<1>1. CASE d.state = "ready"
  BY <1>1 DEF MountedAs
<1>2. CASE d.state # "ready"
  <2>1. CardOK(s) /\ s.head = d.head /\ s.state # "ready"
    BY <1>2, ServicedOK, ServicedTells DEF Tells
  <2>2. s.pending
    BY <2>1 DEF CardOK
  <2>3. MountedAs(d, o) = s
    BY <1>2, <2>2 DEF MountedAs
  <2> HIDE DEF s
  <2> QED
    BY <2>1, <2>3 DEF Owed
<1> QED
  BY <1>1, <1>2

LEMMA ClosedTells ==
  ASSUME NEW d, CardOK(d), NEW ls \in SUBSET Leases
  PROVE  /\ d.state # "ready" => Closed(d, ls).state # "ready"
         /\ \A l \in d.head \ ls : d.tok[l].fault => Owed(Closed(d, ls), l)
         /\ \A l \in ls : d.tok[l].fault => Closed(d, ls).state # "ready"
<1> DEFINE told == IF \E l \in ls : d.tok[l].fault THEN NoteError(d) ELSE d
<1>1. /\ CardOK(told) /\ told.head = d.head /\ Tells(d, told)
      /\ \A l \in ls : d.tok[l].fault => told.state # "ready"
  BY NoteErrorOK, NoteErrorTells DEF Tells, Owed
<1>2. Closed(d, ls) = [told EXCEPT !.head = @ \ ls,
                                   !.tok = [l \in Leases |->
                                     IF l \in ls THEN NoToken ELSE @[l]]]
  BY DEF Closed
<1> HIDE DEF told
<1>3. /\ Closed(d, ls).state = told.state
      /\ \A l \in Leases \ ls : Closed(d, ls).tok[l] = told.tok[l]
  BY <1>1, <1>2 DEF CardOK, Media
<1>4. d.head \subseteq Leases
  BY DEF CardOK, Media
<1> QED
  BY <1>1, <1>3, <1>4 DEF Tells, Owed

(* Whose read met that card has its lease out, and it is owed.             *)
SawInv ==
  \A s \in Sessions :
    sess[s].saw => sess[s].st \in {"live", "quarantined"} /\ Owed(sd, s)

(* What a step must not do, and what keeps SawInv.                         *)
TellsStep ==
  \A s \in Sessions :
    /\ sess'[s].saw => sess'[s].st \in {"live", "quarantined"} /\ Owed(sd', s)
    /\ sess[s].saw /\ sess'[s].st = "freed" => sd'.state # "ready"

(* A step that frees nothing and makes no read end.                        *)
LEMMA NothingFreed ==
  ASSUME LeaseInv, SawInv,
         \A s \in Sessions : sess'[s].st = sess[s].st
                             /\ sess'[s].saw = sess[s].saw,
         \A l \in sd.head : Owed(sd, l) => Owed(sd', l)
  PROVE  TellsStep
BY DEF SawInv, TellsStep, LeaseInv, Out

LEMMA TellsOwed ==
  ASSUME NEW d, NEW e, Tells(d, e), NEW l \in d.head, Owed(d, l)
  PROVE  Owed(e, l)
BY DEF Tells, Owed

(* A step that frees sessions, the reader's leases being closed first, and *)
(* may launch another.                                                     *)
LEMMA SomeFreed ==
  ASSUME LeaseInv, SawInv, NEW ls \in SUBSET Sessions,
         \A s \in ls : sess'[s].saw = FALSE,
         \A s \in Sessions \ ls :
           sess'[s].saw =>
             sess[s].saw /\ sess'[s].st \in {"live", "quarantined"},
         \A s \in Sessions \ ls : sess'[s].st = "freed" => ~sess[s].saw,
         NEW d, d = Closed(sd, ls),
         d.state # "ready" => sd'.state # "ready",
         \A s \in d.head : sess'[s].saw /\ Owed(d, s) => Owed(sd', s)
  PROVE  TellsStep
<1>1. CardOK(sd) /\ ls \in SUBSET Leases
  BY DEF LeaseInv, Sessions
<1>2. CardOK(d) /\ d.head = sd.head \ ls
  BY <1>1, ClosedOK
<1>3. /\ sd.state # "ready" => d.state # "ready"
      /\ \A l \in sd.head \ ls : sd.tok[l].fault => Owed(d, l)
      /\ \A l \in ls : sd.tok[l].fault => d.state # "ready"
  BY <1>1, ClosedTells
<1>4. ASSUME NEW s \in Sessions, sess'[s].saw
      PROVE  sess'[s].st \in {"live", "quarantined"} /\ Owed(sd', s)
  <2>1. s \notin ls /\ sess[s].saw
    BY <1>4
  <2>2. s \in sd.head /\ Owed(sd, s)
    BY <2>1 DEF SawInv, LeaseInv, Out
  <2>3. s \in d.head /\ Owed(d, s)
    BY <1>2, <1>3, <2>1, <2>2 DEF Owed
  <2> QED
    BY <1>4, <2>1, <2>3
<1>5. ASSUME NEW s \in Sessions, sess[s].saw, sess'[s].st = "freed"
      PROVE  sd'.state # "ready"
  <2>1. s \in ls /\ Owed(sd, s)
    BY <1>5 DEF SawInv
  <2> QED
    BY <1>3, <2>1 DEF Owed
<1> QED
  BY <1>4, <1>5 DEF TellsStep

LEMMA SessionRecords ==
  /\ NoSession.st = "none" /\ NoSession.saw = FALSE
  /\ Gone.st = "freed" /\ Gone.saw = FALSE
  /\ Gone.audio_stopped = FALSE /\ Gone.decoder_stopped = FALSE
  /\ Fresh.st = "live" /\ Fresh.saw = FALSE /\ Fresh.pc = "signal"
  /\ Fresh.audio_stopped = FALSE /\ Fresh.decoder_stopped = FALSE
  /\ Fresh.packets = Rewound /\ Fresh.pcm = Rewound /\ Fresh.faults = FALSE
  /\ \A x \in Unplayed :
       /\ x.st = "live" /\ x.saw = FALSE /\ x.pc \in {"signal", "read"}
       /\ x.audio_stopped = TRUE /\ x.decoder_stopped = TRUE
       /\ x.packets = Rewound /\ x.pcm = Rewound /\ x.faults = FALSE
BY DEF NoSession, Gone, Fresh, Unplayed

LEMMA QuarantinedRecord ==
  ASSUME NEW x \in AnySession
  PROVE  /\ Quarantined(x).st = "quarantined" /\ Quarantined(x).saw = x.saw
         /\ Quarantined(x).audio_stopped = x.audio_stopped
         /\ Quarantined(x).decoder_stopped = x.decoder_stopped
BY DEF Quarantined, AnySession

LEMMA DisposedSessions ==
  ASSUME NEW ss, NEW ls, NEW s \in Sessions
  PROVE  Disposed(ss, ls)[s] = IF s \in ls THEN Gone ELSE ss[s]
BY DEF Disposed, Gone

LEMMA ReaderTells ==
  ASSUME LeaseInv, SawInv, NEW s \in Sessions, ReaderStep(s)
  PROVE  TellsStep
<1>1. /\ \A r \in Sessions : r # s => sess'[r] = sess[r]
      /\ \A r \in Sessions : sess'[r].st = sess[r].st
  BY ReaderTouches DEF SameOwner
<1>2. sess \in [Sessions -> AnySession] /\ sess[s] \in AnySession
      /\ sd \in Media /\ sd.tok \in [Leases -> Token]
  BY DEF LeaseInv, CardOK, Media
<1>3. sess[s].st \in {"live", "quarantined"}
  BY DEF ReaderStep, ReaderSignal, ReaderGot, ReaderEof, ReaderAck, Reader
<1>4. /\ sd'.state = sd.state
      /\ \A r \in Sessions : r # s => sd'.tok[r] = sd.tok[r]
      /\ sess'[s].saw => \/ sess[s].saw /\ sd'.tok[s].fault = sd.tok[s].fault
                         \/ sd'.tok[s].fault
  <2>1. CASE ReaderGot(s)
    <3>1. sd' = [sd EXCEPT !.tok[s].fault = ~sd.answers]
      BY <2>1 DEF ReaderGot
    <3>2. sd'.tok[s].fault = ~sd.answers /\ sd'.state = sd.state
          /\ \A r \in Sessions : r # s => sd'.tok[r] = sd.tok[r]
      BY <1>2, <3>1 DEF Media, Token, Sessions
    <3> DEFINE y == [sess[s] EXCEPT !.saw = ~sd.answers]
    <3>3. y.saw = ~sd.answers /\ y \in AnySession
      BY <1>2 DEF AnySession
    <3>4. \/ sess'[s] = Signalled(y) \/ sess'[s] = Failing(y)
          \/ sess'[s] = [y EXCEPT !.packets = Published(@), !.pc = "published"]
      BY <1>2, <2>1 DEF ReaderGot
    <3> HIDE DEF y
    <3>5. sess'[s].saw = y.saw
      BY <3>3, <3>4 DEF Signalled, Failing, AnySession
    <3> QED
      BY <3>2, <3>3, <3>5
  <2>2. CASE ReaderSignal(s)
    <3>1. UNCHANGED sd
      BY <2>2 DEF ReaderSignal
    <3>2. sess'[s] = Signalled(sess[s])
          \/ sess'[s] = [sess[s] EXCEPT !.pc = "read"]
      BY <1>2, <2>2 DEF ReaderSignal
    <3>3. sess'[s].saw = sess[s].saw
      BY <1>2, <3>2 DEF Signalled, Failing, AnySession
    <3> QED
      BY <3>1, <3>3
  <2>3. CASE ReaderEof(s)
    <3>1. UNCHANGED sd /\ sess'[s].saw = sess[s].saw
      BY <1>2, <2>3 DEF ReaderEof, AnySession
    <3> QED
      BY <3>1
  <2>4. CASE ReaderAck(s)
    <3>1. sess'[s].saw = sess[s].saw
      BY <1>2, <2>4 DEF ReaderAck, AnySession
    <3>2. sd' = [sd EXCEPT !.tok[s].ack = TRUE]
      BY <2>4 DEF ReaderAck
    <3>3. sd'.tok[s].fault = sd.tok[s].fault /\ sd'.state = sd.state
          /\ \A r \in Sessions : r # s => sd'.tok[r] = sd.tok[r]
      BY <1>2, <3>2 DEF Media, Token, Sessions
    <3> QED
      BY <3>1, <3>3
  <2> QED
    BY <2>1, <2>2, <2>3, <2>4 DEF ReaderStep
<1>5. ASSUME NEW r \in Sessions, sess'[r].saw
      PROVE  sess'[r].st \in {"live", "quarantined"} /\ Owed(sd', r)
  BY <1>1, <1>3, <1>4, <1>5 DEF SawInv, Owed
<1>6. ASSUME NEW r \in Sessions, sess[r].saw PROVE sess'[r].st # "freed"
  BY <1>1, <1>6 DEF SawInv
<1> QED
  BY <1>5, <1>6 DEF TellsStep

LEMMA WorkersTell ==
  ASSUME LeaseInv, SawInv, DecoderStep \/ AudioStep \/ CodecFails
  PROVE  TellsStep
<1>1. UNCHANGED sd
  BY DEF DecoderStep, DecRead, DecLook, DecTail, DecDecode, DecFlush, DecEof,
         DecOut, DecoderOnly, AudioStep, CodecFails, AudioTake, AudioClaim,
         AudioCheck, AudioBreak, AudioPlay, AudioLook, AudioTail, AudioPost,
         AudioOnly
<1>2. \A s \in Sessions : SameOwner(sess[s], sess'[s])
                          /\ SameFile(sess[s], sess'[s])
  BY DecoderTouches, AudioTouches
<1>3. \A s \in Sessions : sess'[s].st = sess[s].st /\ sess'[s].saw = sess[s].saw
  BY <1>2 DEF SameOwner, SameFile
<1> QED
  BY <1>1, <1>3, NothingFreed

LEMMA LooksTell ==
  ASSUME LeaseInv, SawInv, Looks \/ CardPulled
  PROVE  TellsStep
<1>1. CardOK(sd)
  BY DEF LeaseInv
<1>2. \A s \in Sessions : sess'[s].st = sess[s].st /\ sess'[s].saw = sess[s].saw
  BY LooksKeep DEF Kept, SameOwner, SameRings, SameFile, CardPulled
<1>3. CASE RequestFolder
  <2>1. PICK o \in Outcomes : sd' = MountedAs(sd, o)
    BY <1>3 DEF RequestFolder
  <2> QED
    BY <1>1, <1>2, <2>1, MountedAsTells, NothingFreed
<1>4. CASE ~RequestFolder
  <2>1. \/ sd' = sd \/ sd' = NoteError(sd) \/ sd' = Granted(sd)
        \/ sd' = Unmounted(sd) \/ sd' = Serviced(sd)
        \/ sd' = [sd EXCEPT !.answers = FALSE]
        \/ \E p : sd' = FsReset(sd, p)
    BY <1>4 DEF Looks, CardPulled, HaltAudio, Resume, Pause, Close, Open,
                CardRead, FolderChosen, FolderDeclined, FsPump,
                BackgroundStop, BackgroundNext, Adopt, AppStarts, AppEnds,
                Suspend
  <2>2. Tells(sd, Granted(sd)) /\ Tells(sd, [sd EXCEPT !.answers = FALSE])
        /\ Tells(sd, sd)
    BY <1>1 DEF CardOK, Media, Granted, Tells, Owed
  <2>3. Tells(sd, sd')
    BY <1>1, <2>1, <2>2, NoteErrorTells, UnmountedTells, ServicedTells,
       FsResetTells
  <2>4. \A l \in sd.head : Owed(sd, l) => Owed(sd', l)
    BY <2>3, TellsOwed
  <2> QED
    BY <1>2, <2>4, NothingFreed
<1> QED
  BY <1>3, <1>4

LEMMA HaltedTells ==
  ASSUME NEW d, CardOK(d), Halted(d)
  PROVE  Tells(d, sd')
<1>1. sd' \in {d, FsReset(d, NoPlayer), Serviced(Unmounted(d))}
  BY DEF Halted
<1>2. Tells(d, d)
  BY DEF Tells, Owed
<1>3. Tells(d, Serviced(Unmounted(d)))
  BY UnmountedOK, UnmountedTells, ServicedTells, TellsOn
<1> QED
  BY <1>1, <1>2, <1>3, FsResetTells

LEMMA HaltsTell ==
  ASSUME LeaseInv, SawInv, HaltFeed \/ HaltAck
  PROVE  TellsStep
<1>1. CardOK(sd) /\ sess \in [Sessions -> AnySession]
  BY DEF LeaseInv
<1>2. CASE HaltFeed
  <2>1. \A s \in Sessions :
          sess'[s].st = sess[s].st /\ sess'[s].saw = sess[s].saw
    BY <1>2, HaltFeedTells DEF Obeys, Kept, SameOwner, SameRings, SameFile
  <2>2. CASE Halted(sd)
    BY <1>1, <2>1, <2>2, HaltedTells, TellsOwed, NothingFreed
  <2>3. CASE sd' = [sd EXCEPT !.tok[owner.s].revoked = TRUE]
    <3>1. \A l \in sd.head : Owed(sd, l) => Owed(sd', l)
      BY <1>1, <2>3 DEF CardOK, Media, Token, Owed
    <3> QED
      BY <2>1, <3>1, NothingFreed
  <2> QED
    BY <1>2, <2>2, <2>3 DEF HaltFeed
<1>3. CASE HaltAck
  <2>1. /\ Live(sess, owner.s) /\ owner.s \in Sessions
        /\ \A r \in Sessions : r # owner.s => sess'[r] = sess[r]
        /\ sess'[owner.s] = IF Free(owner.s) THEN Gone
                            ELSE Quarantined(sess[owner.s])
    BY <1>3, HaltAckEnds
  <2>2. CASE Free(owner.s)
    <3>1. Halted(Closed(sd, {owner.s}))
      BY <1>3, <2>2 DEF HaltAck, Free
    <3>2. CardOK(Closed(sd, {owner.s}))
      BY <1>1, ClosedOK
    <3>3. Tells(Closed(sd, {owner.s}), sd')
      BY <3>1, <3>2, HaltedTells
    <3>4. sess'[owner.s].saw = FALSE
      BY <2>1, <2>2, SessionRecords
    <3>5. \A s \in Sessions \ {owner.s} :
            sess'[s].saw => sess[s].saw
                            /\ sess'[s].st \in {"live", "quarantined"}
      BY <2>1 DEF SawInv
    <3>6. \A s \in Sessions \ {owner.s} : sess'[s].st = "freed" => ~sess[s].saw
      BY <2>1 DEF SawInv
    <3>7. Closed(sd, {owner.s}).state # "ready" => sd'.state # "ready"
      BY <3>3 DEF Tells
    <3>8. \A l \in Closed(sd, {owner.s}).head :
            Owed(Closed(sd, {owner.s}), l) => Owed(sd', l)
      BY <3>3, TellsOwed
    <3> QED
      BY <2>1, <3>4, <3>5, <3>6, <3>7, <3>8, SomeFreed
  <2>3. CASE ~Free(owner.s)
    <3>1. Halted(sd)
      BY <1>3, <2>3 DEF HaltAck, Free
    <3>2. \A l \in sd.head : Owed(sd, l) => Owed(sd', l)
      BY <1>1, <3>1, HaltedTells, TellsOwed
    <3>3. /\ sess'[owner.s].st = "quarantined"
          /\ sess'[owner.s].saw = sess[owner.s].saw
      BY <1>1, <2>1, <2>3, QuarantinedRecord
    <3>4. \A s \in Sessions : sess[s].saw => s \in sd.head /\ Owed(sd, s)
      BY DEF SawInv, LeaseInv, Out
    <3> QED
      BY <2>1, <3>2, <3>3, <3>4 DEF SawInv, TellsStep
  <2> QED
    BY <2>2, <2>3
<1> QED
  BY <1>2, <1>3

LEMMA ServiceTells ==
  ASSUME LeaseInv, SawInv, Service
  PROVE  TellsStep
<1> DEFINE d == Closed(sd, Reapable)
<1>1. Reapable \in SUBSET Sessions /\ Reapable \in SUBSET Leases /\ CardOK(sd)
  BY DEF Reapable, LeaseInv, Sessions
<1>2. \A s \in Sessions :
        sess'[s] = IF s \in Reapable THEN Gone ELSE sess[s]
  BY ServiceReaps, DisposedSessions
<1>3. sd' = d \/ sd' = Serviced(d)
  BY DEF Service, ServiceRest, ServicePausedFault, ServiceStart,
         ServicePrimeTimeout, ServiceDone, Reaps
<1>4. CardOK(d)
  BY <1>1, ClosedOK
<1> HIDE DEF d
<1>5. Tells(d, sd')
  BY <1>3, <1>4, ServicedTells DEF Tells, Owed
<1>6. /\ \A s \in Reapable : sess'[s].saw = FALSE
      /\ \A s \in Sessions \ Reapable :
           sess'[s].saw =>
             sess[s].saw /\ sess'[s].st \in {"live", "quarantined"}
      /\ \A s \in Sessions \ Reapable : sess'[s].st = "freed" => ~sess[s].saw
  BY <1>1, <1>2, SessionRecords DEF SawInv
<1>7. \A s \in d.head : Owed(d, s) => Owed(sd', s)
  BY <1>5, TellsOwed
<1> QED
  BY <1>1, <1>5, <1>6, <1>7, SomeFreed DEF d, Tells

LEMMA LaunchTells ==
  ASSUME LeaseInv, SawInv, Play \/ BackgroundLaunch
  PROVE  TellsStep
<1>1. CardOK(sd) /\ sess \in [Sessions -> AnySession]
  BY DEF LeaseInv
<1>2. CASE NoLaunch
  <2>1. Tells(sd, sd')
    BY <1>1, <1>2, NoteErrorTells DEF NoLaunch, Tells, Owed
  <2>2. \A s \in Sessions :
          sess'[s].st = sess[s].st /\ sess'[s].saw = sess[s].saw
    BY <1>2 DEF NoLaunch
  <2> QED
    BY <2>1, <2>2, TellsOwed, NothingFreed
<1>3. CASE LaunchStep
  <2> DEFINE s == Used + 1
             d == Closed(sd, Reapable)
             ls == Reapable \cup {s}
             x == sess'[s]
  <2>1. /\ s \in Sessions /\ Usable(d) /\ MayAttach(d, s)
    BY <1>3 DEF LaunchStep
  <2> HIDE DEF s
  <2>2. PICK w \in {Fresh} \cup Unplayed :
          sess' = [Disposed(sess, Reapable) EXCEPT ![s] = w]
    BY <1>3 DEF LaunchStep, Launches, LaunchFails, s
  <2>3. \A r \in Sessions :
          sess'[r] = IF r = s THEN w
                     ELSE IF r \in Reapable THEN Gone ELSE sess[r]
    BY <2>1, <2>2, DisposedSessions DEF Disposed
  <2>4. Reapable \in SUBSET Sessions /\ Reapable \in SUBSET Leases
    BY DEF Reapable, Sessions
  <2>5. CardOK(d) /\ d.head = sd.head \ Reapable
    BY <1>1, ClosedOK
  <2>6. d.state = "ready"
    BY <2>1 DEF Usable
  <2>7. /\ sd.state = "ready"
        /\ \A l \in Reapable : ~sd.tok[l].fault
        /\ \A l \in sd.head \ Reapable : sd.tok[l].fault => Owed(d, l)
    BY <1>1, <2>4, <2>6, ClosedTells
  <2> DEFINE e == Attached(d, s)
  <2>8. e \in Media /\ e.state = "ready" /\ s \notin d.head
        /\ \A l \in d.head : e.tok[l] = d.tok[l]
    <3>1. CardOK(e)
      BY <2>1, <2>5, AttachedOK DEF Sessions
    <3> HIDE DEF d
    <3>2. e.state = d.state /\ \A l \in d.head : l # s => e.tok[l] = d.tok[l]
      BY <2>5 DEF CardOK, Media, Attached
    <3> QED
      BY <2>1, <2>6, <3>1, <3>2 DEF CardOK, MayAttach
  <2>9. sd'.state = "ready" /\ \A l \in d.head : l # s /\ sd'.tok[l] = d.tok[l]
    <3>1. sd' = e \/ sd' = [e EXCEPT !.tok[s].revoked = TRUE]
      BY <1>3 DEF LaunchStep, Launches, LaunchFails, s
    <3> HIDE DEF e, d
    <3>2. \A l \in d.head : l # s /\ l \in Leases
      BY <2>5, <2>8 DEF CardOK, Media
    <3>3. /\ e.state = "ready" /\ e \in Media
          /\ \A l \in d.head : e.tok[l] = d.tok[l]
      BY <2>8
    <3>4. CASE sd' = [e EXCEPT !.tok[s].revoked = TRUE]
      <4>1. sd'.state = "ready"
        BY <3>3, <3>4 DEF Media
      <4>2. sd'.tok = [e.tok EXCEPT ![s].revoked = TRUE]
        BY <3>3, <3>4 DEF Media
      <4>3. \A l \in d.head : sd'.tok[l] = e.tok[l]
        BY <3>2, <3>3, <4>2 DEF Media
      <4> QED
        BY <3>2, <3>3, <4>1, <4>3
    <3> QED
      BY <3>1, <3>2, <3>3, <3>4
  <2> HIDE DEF d
  <2>10. ASSUME NEW r \in Sessions, sess'[r].saw
         PROVE  sess'[r].st \in {"live", "quarantined"} /\ Owed(sd', r)
    <3>1. r # s /\ r \notin Reapable /\ sess'[r] = sess[r]
      BY <2>2, <2>3, <2>10, SessionRecords
    <3>2. sess[r].st \in {"live", "quarantined"} /\ Owed(sd, r) /\ r \in sd.head
      BY <2>10, <3>1 DEF SawInv, LeaseInv, Out
    <3>3. r \in d.head /\ Owed(d, r)
      BY <2>5, <2>7, <3>1, <3>2 DEF Owed
    <3> QED
      BY <2>6, <2>9, <3>1, <3>2, <3>3 DEF Owed
  <2>11. ASSUME NEW r \in Sessions, sess[r].saw, sess'[r].st = "freed"
         PROVE  FALSE
    <3>1. r # s
      BY <2>2, <2>3, <2>11, SessionRecords
    <3>2. sess[r].st \in {"live", "quarantined"} /\ Owed(sd, r)
      BY <2>11 DEF SawInv
    <3>3. r \in Reapable
      BY <2>3, <2>11, <3>1, <3>2
    <3> QED
      BY <2>7, <3>2, <3>3 DEF Owed
  <2> QED
    BY <2>10, <2>11 DEF TellsStep
<1> QED
  BY <1>2, <1>3, LaunchSplits

LEMMA EveryStepTells == LeaseInv /\ SawInv /\ [Next]_vars => TellsStep
<1> SUFFICES ASSUME LeaseInv, SawInv, [Next]_vars PROVE TellsStep
  OBVIOUS
<1>1. CASE \E s \in Sessions : ReaderStep(s)
  BY <1>1, ReaderTells
<1>2. CASE DecoderStep \/ AudioStep \/ CodecFails
  BY <1>2, WorkersTell
<1>3. CASE OwnerStep \/ CardPulled
  BY <1>3, LooksTell, HaltsTell, ServiceTells, LaunchTells
     DEF OwnerStep, OwnerWaits, Looks
<1>4. CASE UNCHANGED vars
  BY <1>4 DEF vars, TellsStep, SawInv
<1> QED
  BY <1>1, <1>2, <1>3, <1>4, NextSplits

LEMMA SawInit == Init => SawInv
BY SessionRecords DEF Init, SawInv

LEMMA SawNext == LeaseInv /\ SawInv /\ [Next]_vars => SawInv'
BY EveryStepTells DEF TellsStep, SawInv

(* sd_media_read_lease_close() takes the fault before it detaches: a card  *)
(* a worker found gone is no longer ready when its session's memory goes,  *)
(* in a stop or in the reaper, whoever noticed it first.                   *)
THEOREM RemovalTheorem == Spec => RemovalIsTold
<1>1. LeaseInv /\ SawInv /\ [Next]_vars =>
        [\A s \in Sessions :
           sess[s].saw /\ sess'[s].st = "freed" =>
             ~(sd'.state = "ready" /\ sd'.gen = sd.tok[s].gen)]_vars
  BY EveryStepTells DEF TellsStep
<1> QED
  BY <1>1, SawInit, SawNext, LeaseTheorem, PTL DEF Spec, RemovalIsTold

-----------------------------------------------------------------------------
(* The tasks and the player.  Sessions are numbered as they come, and what *)
(* a task works on has been launched.                                      *)
Begun(ss) == {s \in Sessions : ss[s].st # "none"}

DecType == [pc : DecPCs, s : Sessions \cup {None}, held : BOOLEAN,
            halt : BOOLEAN, parked : BOOLEAN]
AudioType == [pc : AudioPCs, s : Sessions \cup {None}, held : BOOLEAN,
              completed : BOOLEAN]
DoneType == [seq : Sessions \cup {None}, ok : BOOLEAN]

TaskInv ==
  /\ dec \in DecType /\ audio \in AudioType /\ done \in DoneType
  /\ queue \in Seq(Begun(sess))
  /\ \E n \in Nat : Begun(sess) = 1 .. n
  /\ running <=> dec.pc # "off"
  /\ running => dec.s \in Begun(sess)
  /\ audio.pc # "idle" => audio.s \in Begun(sess)
  /\ done.seq # None => done.seq \in Begun(sess)

ShapeInv ==
  /\ player.stream \in {None, player.s}
  /\ owner.pc = "next" => player.state = "ready"
  /\ player.state = "ready" => player.s = None
  /\ owner.pc # "idle" /\ owner.why \in {"busy", "bgbusy"}
       => player.state = "ready"

LEMMA NoTask ==
  /\ NoDecoder \in DecType /\ NoDecoder.pc = "off" /\ NoDecoder.s = None
  /\ NoAudio \in AudioType /\ NoAudio.pc = "idle" /\ NoAudio.s = None
  /\ ~NoAudio.held /\ ~NoAudio.completed /\ ~NoDecoder.held
  /\ None \notin Sessions
<1>1. None \notin Sessions
  <2>1. Cardinality(Leases) \in Nat
    BY SdMediaAssumption, FS_CardinalityType
  <2> QED
    BY <2>1, PlaybackAssumption DEF None, Sessions
<1>2. NoDecoder \in DecType /\ NoDecoder.pc = "off" /\ NoDecoder.s = None
      /\ NoDecoder.held = FALSE
  BY DEF NoDecoder, DecType, DecPCs
<1>3. NoAudio \in AudioType /\ NoAudio.pc = "idle" /\ NoAudio.s = None
      /\ NoAudio.held = FALSE /\ NoAudio.completed = FALSE
  BY DEF NoAudio, AudioType, AudioPCs
<1> QED
  BY <1>1, <1>2, <1>3

LEMMA TaskInit == Init => TaskInv /\ ShapeInv
<1> SUFFICES ASSUME Init PROVE TaskInv /\ ShapeInv
  OBVIOUS
<1>1. Begun(sess) = {}
  BY SessionRecords DEF Init, Begun
<1>2. {} = 1 .. 0 /\ 0 \in Nat
  OBVIOUS
<1>3. done \in DoneType /\ done.seq = None /\ queue \in Seq({})
  BY DEF Init, DoneType
<1>4. dec \in DecType /\ audio \in AudioType /\ dec.pc = "off" /\ ~running
      /\ audio.pc = "idle"
  BY NoTask DEF Init
<1>5. \E n \in Nat : Begun(sess) = 1 .. n
  BY <1>1, <1>2
<1>6. TaskInv
  BY <1>1, <1>3, <1>4, <1>5 DEF TaskInv
<1>7. ShapeInv
  BY DEF Init, ShapeInv, NoPlayer, Idle
<1> QED
  BY <1>6, <1>7

(* The workers.                                                            *)
LEMMA SameBegun ==
  ASSUME \A s \in Sessions : sess'[s].st = sess[s].st
  PROVE  Begun(sess') = Begun(sess)
BY DEF Begun

LEMMA ReaderTask ==
  ASSUME LeaseInv, TaskInv, ShapeInv, NEW s \in Sessions, ReaderStep(s)
  PROVE  TaskInv' /\ ShapeInv'
<1>1. UNCHANGED <<dec, running, queue, audio, done, player, owner>>
  BY DEF ReaderStep, ReaderSignal, ReaderGot, ReaderEof, ReaderAck,
         ReaderOnly, decVars, audioVars
<1>2. Begun(sess') = Begun(sess)
  BY ReaderTouches, SameBegun DEF SameOwner
<1> QED
  BY <1>1, <1>2 DEF TaskInv, ShapeInv

LEMMA DecoderTask ==
  ASSUME LeaseInv, TaskInv, ShapeInv, DecoderStep
  PROVE  /\ TaskInv' /\ ShapeInv'
         /\ dec.pc # "off"
         /\ dec'.pc # "off" => dec'.s = dec.s
<1>1. UNCHANGED <<queue, audio, done, player, owner>>
  BY DEF DecoderStep, DecRead, DecLook, DecTail, DecDecode, DecFlush, DecEof,
         DecOut, DecoderOnly, audioVars
<1>2. Begun(sess') = Begun(sess)
  BY DecoderTouches, SameBegun DEF SameOwner
<1>3. dec \in DecType
  BY DEF TaskInv
<1>4. /\ dec.pc # "off"
      /\ \/ dec' = NoDecoder /\ running' = FALSE
         \/ /\ running' = running
            /\ \E pc \in DecPCs \ {"off"}, held \in BOOLEAN :
                 dec' = [dec EXCEPT !.pc = pc, !.held = held]
  <2>1. CASE DecRead
    <3>1. dec.pc = "read" /\ running' = running
      BY <2>1 DEF DecRead
    <3>2. \/ dec' = [dec EXCEPT !.pc = "out"]
          \/ dec' = [dec EXCEPT !.pc = "look", !.held = FALSE]
          \/ dec' = [dec EXCEPT !.pc = "decode", !.held = TRUE]
      BY <2>1 DEF DecRead, Decoder
    <3>3. [dec EXCEPT !.pc = "out"]
            = [dec EXCEPT !.pc = "out", !.held = dec.held]
      BY <1>3 DEF DecType
    <3> QED
      BY <1>3, <3>1, <3>2, <3>3 DEF DecPCs, DecType
  <2>2. CASE DecOut
    BY <2>2 DEF DecOut
  <2>3. CASE DecLook \/ DecTail \/ DecDecode \/ DecFlush \/ DecEof
    <3>1. dec.pc # "off" /\ running' = running
      BY <2>3 DEF DecLook, DecTail, DecDecode, DecFlush, DecEof
    <3>2. \/ \E pc \in DecPCs \ {"off"} : dec' = [dec EXCEPT !.pc = pc]
          \/ dec' = [dec EXCEPT !.pc = "decode", !.held = TRUE]
      BY <2>3 DEF DecLook, DecTail, DecDecode, DecFlush, DecEof, Decoder,
                  DecTakes, DecPCs
    <3>3. \A pc : [dec EXCEPT !.pc = pc]
                    = [dec EXCEPT !.pc = pc, !.held = dec.held]
      BY <1>3 DEF DecType
    <3>4. dec.held \in BOOLEAN /\ "decode" \in DecPCs \ {"off"}
      BY <1>3 DEF DecType, DecPCs
    <3> QED
      BY <3>1, <3>2, <3>3, <3>4
  <2> QED
    BY <2>1, <2>2, <2>3 DEF DecoderStep
<1>5. CASE dec' = NoDecoder /\ running' = FALSE
  BY <1>1, <1>2, <1>4, <1>5, NoTask DEF TaskInv, ShapeInv
<1>6. ASSUME NEW pc \in DecPCs \ {"off"}, NEW held \in BOOLEAN,
             dec' = [dec EXCEPT !.pc = pc, !.held = held], running' = running
      PROVE  TaskInv' /\ ShapeInv' /\ dec'.s = dec.s
  <2>1. dec' \in DecType /\ dec'.s = dec.s /\ dec'.pc # "off"
    BY <1>3, <1>6 DEF DecType
  <2> QED
    BY <1>1, <1>2, <1>4, <1>6, <2>1 DEF TaskInv, ShapeInv
<1> QED
  BY <1>4, <1>5, <1>6, NoTask

LEMMA AudioTask ==
  ASSUME LeaseInv, TaskInv, ShapeInv, AudioStep \/ CodecFails
  PROVE  TaskInv' /\ ShapeInv'
<1>1. UNCHANGED <<dec, running, player, owner>>
  BY DEF AudioStep, CodecFails, AudioTake, AudioClaim, AudioCheck, AudioBreak,
         AudioPlay, AudioLook, AudioTail, AudioPost, AudioOnly, decVars
<1>2. Begun(sess') = Begun(sess)
  BY AudioTouches, SameBegun DEF SameOwner
<1>3. audio \in AudioType /\ queue \in Seq(Begun(sess))
  BY DEF TaskInv
<1>4. CASE AudioTake
  <2>1. /\ Head(queue) \in Begun(sess) /\ Tail(queue) \in Seq(Begun(sess))
    BY <1>3, <1>4 DEF AudioTake
  <2>2. /\ queue' = Tail(queue) /\ done' = done
        /\ audio' = [NoAudio EXCEPT !.pc = "claim", !.s = Head(queue)]
    BY <1>4 DEF AudioTake
  <2>3. Head(queue) \in Sessions
    BY <2>1 DEF Begun
  <2>4. audio' \in AudioType /\ audio'.s = Head(queue)
    BY <2>2, <2>3, NoTask DEF AudioType, AudioPCs
  <2> QED
    BY <1>1, <1>2, <2>1, <2>2, <2>4 DEF TaskInv, ShapeInv
<1>5. CASE AudioPost
  <2>1. /\ audio.pc = "post" /\ audio' = NoAudio /\ queue' = queue
        /\ done' \in {done, [seq |-> audio.s, ok |-> audio.completed]}
    BY <1>5 DEF AudioPost
  <2>2. done' \in DoneType
        /\ (done'.seq # None => done'.seq \in Begun(sess))
    BY <1>3, <2>1 DEF TaskInv, DoneType, AudioType
  <2> QED
    BY <1>1, <1>2, <2>1, <2>2, NoTask DEF TaskInv, ShapeInv
<1>6. CASE ~(AudioTake \/ AudioPost)
  <2>1. /\ audio.pc # "idle" /\ UNCHANGED <<queue, done>>
    BY <1>6 DEF AudioStep, CodecFails, AudioClaim, AudioCheck, AudioBreak,
                AudioPlay, AudioLook, AudioTail
  <2>2. \/ \E pc \in AudioPCs : audio' = [audio EXCEPT !.pc = pc]
        \/ \E pc \in AudioPCs, held \in BOOLEAN :
             audio' = [audio EXCEPT !.pc = pc, !.held = held]
        \/ \E completed \in BOOLEAN :
             audio' = [audio EXCEPT !.pc = "post", !.held = FALSE,
                                    !.completed = completed]
    <3>1. CASE AudioClaim \/ AudioCheck \/ AudioLook
      BY <3>1 DEF AudioClaim, AudioCheck, AudioLook, AudioPCs
    <3>2. CASE AudioPlay
      <4>1. audio.pc \in AudioPCs
        BY <1>3 DEF AudioType
      <4> QED
        BY <3>2, <4>1 DEF AudioPlay, AudioPCs
    <3>3. CASE AudioBreak \/ CodecFails \/ AudioTail
      BY <3>3 DEF AudioBreak, CodecFails, AudioTail, Leaves, AudioPCs
    <3> QED
      BY <1>6, <3>1, <3>2, <3>3 DEF AudioStep
  <2>3. audio' \in AudioType /\ audio'.s = audio.s
    <3>1. "post" \in AudioPCs
      BY DEF AudioPCs
    <3> QED
      BY <1>3, <2>2, <3>1 DEF AudioType
  <2> QED
    BY <1>1, <1>2, <2>1, <2>3 DEF TaskInv, ShapeInv
<1> QED
  BY <1>4, <1>5, <1>6

(* The owner task.                                                         *)
LEMMA ToldDecoder ==
  ASSUME dec \in DecType, NEW h \in BOOLEAN, NEW p \in BOOLEAN
  PROVE  /\ Told(h, p) \in DecType
         /\ Told(h, p).pc = dec.pc /\ Told(h, p).s = dec.s
         /\ Told(h, p).held = dec.held
BY DEF Told, DecType

SameDecoder ==
  /\ dec' \in DecType /\ running' = running
  /\ dec'.pc = dec.pc /\ dec'.s = dec.s /\ dec'.held = dec.held

LEMMA ToldSame ==
  ASSUME dec \in DecType, running' = running,
         \/ dec' = dec
         \/ \E h \in BOOLEAN, p \in BOOLEAN : dec' = Told(h, p)
  PROVE  SameDecoder
BY ToldDecoder DEF SameDecoder

(* A stop that begins leaves the player's session and stream alone.        *)
LEMMA HaltBeginsShape ==
  ASSUME NEW p \in PlayerType, p.stream \in {None, p.s},
         p.state = "ready" => p.s = None,
         NEW why \in Whys \ {"busy", "bgbusy"}, HaltBegins(p, why),
         dec \in DecType
  PROVE  /\ ShapeInv'
         /\ player'.s = p.s /\ player'.stream = p.stream
         /\ player'.state = p.state
         /\ \/ player'.priming = p.priming
               /\ p.stream # None /\ stream_halt' = p.stream
               /\ owner'.pc = "audio"
            \/ ~player'.priming
               /\ p.stream = None /\ stream_halt' = stream_halt
               /\ owner'.pc = "feed"
         /\ owner'.s = p.s /\ owner'.why = why /\ owner'.audio
         /\ \/ dec' = dec
            \/ \E h \in BOOLEAN, parked \in BOOLEAN : dec' = Told(h, parked)
<1>1. CASE p.stream # None
  <2>1. /\ stream_halt' = p.stream /\ player' = p /\ dec' = dec
        /\ owner' = [Idle EXCEPT !.pc = "audio", !.why = why, !.s = p.s]
    BY <1>1 DEF HaltBegins
  <2>2. owner'.pc = "audio" /\ owner'.why = why /\ owner'.s = p.s
        /\ owner'.audio
    BY <2>1 DEF Idle
  <2> QED
    BY <1>1, <2>1, <2>2 DEF ShapeInv
<1>2. CASE p.stream = None
  <2>1. /\ stream_halt' = stream_halt
        /\ player' = [p EXCEPT !.priming = FALSE]
        /\ dec' = Told(TRUE, dec.parked)
        /\ owner' = [Idle EXCEPT !.pc = "feed", !.why = why, !.s = p.s]
    BY <1>2 DEF HaltBegins
  <2>2. owner'.pc = "feed" /\ owner'.why = why /\ owner'.s = p.s
        /\ owner'.audio
    BY <2>1 DEF Idle
  <2>3. /\ player'.s = p.s /\ player'.stream = p.stream
        /\ player'.state = p.state /\ player'.priming = FALSE
    BY <2>1 DEF PlayerType
  <2>4. dec.parked \in BOOLEAN /\ TRUE \in BOOLEAN
    BY DEF DecType
  <2> QED
    BY <1>2, <2>1, <2>2, <2>3, <2>4 DEF ShapeInv
<1> QED
  BY <1>1, <1>2

(* A stop that is over leaves no session to the player, and nothing that   *)
(* passes for the end of a song.                                           *)
LEMMA HaltedShape ==
  ASSUME LeaseInv, ShapeInv, owner.pc # "idle", NEW d, Halted(d)
  PROVE  /\ ShapeInv'
         /\ player'.s = None /\ player'.stream = None
         /\ player'.state # "ended"
         /\ owner'.s = None /\ owner'.pc \in {"idle", "next", "feed"}
<1> DEFINE p == [player EXCEPT !.s = None, !.stream = None]
<1>1. player \in PlayerType /\ owner.why \in Whys
  BY DEF LeaseInv, OwnerType
<1>2. /\ p.s = None /\ p.stream = None /\ p.state = player.state
      /\ p \in PlayerType
  BY <1>1 DEF PlayerType
<1>3. /\ TornDown(p).s = None /\ TornDown(p).stream = None
      /\ TornDown(p).state = "ready"
      /\ NoPlayer.s = None /\ NoPlayer.stream = None
      /\ NoPlayer.state = "ready"
  BY DEF TornDown, NoPlayer
<1>4. player' = [p EXCEPT !.state = "error"] => player'.state = "error"
      /\ player'.s = None /\ player'.stream = None
  BY <1>2 DEF PlayerType
<1>5. /\ player'.s = None /\ player'.stream = None
      /\ player'.state # "ended"
  <2>1. \/ player' = [p EXCEPT !.state = "error"]
        \/ player' = TornDown(p) \/ player' = NoPlayer
        \/ player' = p /\ owner.why \in {"busy", "bgbusy"}
    BY DEF Halted
  <2> QED
    BY <1>2, <1>3, <1>4, <2>1 DEF ShapeInv
<1>6. /\ Idle.s = None /\ Idle.pc = "idle" /\ Idle.why = "none"
      /\ [Idle EXCEPT !.pc = "next"].s = None
      /\ [Idle EXCEPT !.pc = "next"].pc = "next"
      /\ [Idle EXCEPT !.pc = "next"].why = "none"
      /\ [Idle EXCEPT !.pc = "feed", !.why = "bgend"].s = None
      /\ [Idle EXCEPT !.pc = "feed", !.why = "bgend"].pc = "feed"
      /\ [Idle EXCEPT !.pc = "feed", !.why = "bgend"].why = "bgend"
  BY DEF Idle
<1>7. \/ owner' = Idle
      \/ owner' = [Idle EXCEPT !.pc = "next"] /\ player' = TornDown(p)
      \/ owner' = [Idle EXCEPT !.pc = "feed", !.why = "bgend"]
  BY DEF Halted
<1> HIDE DEF p
<1>8. /\ owner'.s = None /\ owner'.pc \in {"idle", "next", "feed"}
      /\ owner'.why \in {"none", "bgend"}
      /\ owner'.pc = "next" => player'.state = "ready"
  BY <1>3, <1>6, <1>7
<1> QED
  BY <1>5, <1>8 DEF ShapeInv

LEMMA OwnerBegun ==
  ASSUME LeaseInv, Looks \/ HaltFeed \/ HaltAck \/ Service \/ NoLaunch
  PROVE  Begun(sess') = Begun(sess)
<1>1. CASE Looks \/ HaltFeed \/ NoLaunch
  BY <1>1, LooksKeep, HaltFeedTells
     DEF Obeys, Kept, SameOwner, Begun, NoLaunch
<1>2. CASE HaltAck
  BY <1>2, HaltAckEnds, SessionRecords, QuarantinedRecord
     DEF Begun, Live, LeaseInv
<1>3. CASE Service
  <2>1. \A s \in Sessions :
          sess'[s] = IF s \in Reapable THEN Gone ELSE sess[s]
    BY <1>3, ServiceReaps, DisposedSessions
  <2> QED
    BY <2>1, SessionRecords DEF Begun, Reapable
<1> QED
  BY <1>1, <1>2, <1>3

LEMMA OwnerTask ==
  ASSUME TaskInv, Begun(sess') = Begun(sess), SameDecoder, audio' = audio,
         \/ queue' = queue
         \/ \E s \in Begun(sess) : queue' = Append(queue, s),
         done' = done \/ done' = [done EXCEPT !.seq = None]
  PROVE  TaskInv'
<1>1. done' \in DoneType /\ done'.seq \in {done.seq, None}
  BY DEF TaskInv, DoneType
<1>2. queue' \in Seq(Begun(sess))
  BY DEF TaskInv
<1> QED
  BY <1>1, <1>2 DEF TaskInv, SameDecoder

LEMMA LooksTask ==
  ASSUME LeaseInv, TaskInv, ShapeInv, Looks
  PROVE  TaskInv' /\ ShapeInv'
<1>1. /\ player \in PlayerType /\ owner \in OwnerType /\ dec \in DecType
      /\ dec.halt \in BOOLEAN /\ dec.parked \in BOOLEAN
  BY DEF LeaseInv, TaskInv, DecType
<1>2. UNCHANGED <<running, queue, audio, done>>
  BY DEF Looks, HaltAudio, Resume, Pause, Close, Open, CardRead,
         RequestFolder, FolderChosen, FolderDeclined, FsPump, BackgroundStop,
         BackgroundNext, Adopt, AppStarts, AppEnds, Suspend, SilentOwner,
         OwnerOnly, decVars, audioVars
<1>3. ASSUME SameDecoder PROVE TaskInv'
  BY <1>2, <1>3, OwnerBegun, OwnerTask
<1>4. CASE \E why \in Whys \ {"busy", "bgbusy"} : HaltBegins(player, why)
  <2>1. PICK why \in Whys \ {"busy", "bgbusy"} : HaltBegins(player, why)
    BY <1>4
  <2>2. /\ ShapeInv'
        /\ \/ dec' = dec
           \/ \E h \in BOOLEAN, parked \in BOOLEAN : dec' = Told(h, parked)
    BY <1>1, <2>1, HaltBeginsShape DEF ShapeInv
  <2> QED
    BY <1>1, <1>2, <1>3, <2>2, ToldSame
<1>5. CASE HaltAudio
  <2>1. /\ player' = player /\ dec' = Told(TRUE, dec.parked)
        /\ owner' = [owner EXCEPT !.pc = "feed",
                                  !.audio = stream_active # player.stream]
        /\ owner.pc = "audio"
    BY <1>5 DEF HaltAudio
  <2>2. owner'.pc = "feed" /\ owner'.why = owner.why
    BY <1>1, <2>1 DEF OwnerType
  <2>3. ShapeInv'
    BY <2>1, <2>2 DEF ShapeInv
  <2>4. SameDecoder
    BY <1>1, <1>2, <2>1, ToldSame
  <2> QED
    BY <1>3, <2>3, <2>4
<1>6. CASE Resume \/ Pause
  <2>1. /\ owner' = owner
        /\ \E p \in BOOLEAN : dec' = Told(dec.halt, p)
        /\ \E st \in {"playing", "paused"} :
             player' = [player EXCEPT !.state = st]
        /\ owner.pc = "idle"
    BY <1>6 DEF Resume, Pause, InApp, OwnerIdle
  <2>2. ShapeInv'
    BY <1>1, <2>1 DEF ShapeInv, PlayerType
  <2>3. SameDecoder
    BY <1>1, <1>2, <2>1, ToldSame
  <2> QED
    BY <1>3, <2>2, <2>3
<1>7. CASE /\ owner' = owner /\ dec' = dec
           /\ owner.pc = "idle"
           /\ \/ player' = player \/ \E b \in BOOLEAN :
                                       player' = [player EXCEPT !.bg = b]
              \/ player' = [NoPlayer EXCEPT !.open = TRUE]
  <2>1. ShapeInv'
    BY <1>1, <1>7 DEF ShapeInv, PlayerType, NoPlayer
  <2>2. SameDecoder
    BY <1>1, <1>2, <1>7, ToldSame
  <2> QED
    BY <1>3, <2>1, <2>2
<1>8. CASE Close \/ BackgroundStop \/ BackgroundNext
  BY <1>4, <1>8 DEF Close, BackgroundStop, BackgroundNext, Whys
<1>9. CASE Open \/ CardRead \/ RequestFolder \/ FolderChosen \/ FolderDeclined
           \/ FsPump \/ Adopt
           \/ \E kind \in {"app", "overlay"} : AppStarts(kind)
  BY <1>1, <1>7, <1>9
     DEF Open, CardRead, RequestFolder, FolderChosen, FolderDeclined, FsPump,
         Adopt, AppStarts, SilentOwner, InApp, OwnerIdle, decVars
<1>10. CASE AppEnds
  <2>1. player.open \in BOOLEAN
    BY <1>1 DEF PlayerType
  <2>2. \/ HaltBegins(player, "reset")
        \/ /\ player' = [player EXCEPT !.bg = player.open]
           /\ UNCHANGED <<dec, owner>> /\ owner.pc = "idle"
    BY <1>10 DEF AppEnds, InApp, OwnerIdle
  <2> QED
    BY <1>4, <1>7, <2>1, <2>2 DEF Whys
<1>11. CASE Suspend
  <2>1. \/ HaltBegins(player, "suspend")
        \/ UNCHANGED <<dec, owner, player>> /\ owner.pc = "idle"
    BY <1>11 DEF Suspend, InApp, OwnerIdle
  <2> QED
    BY <1>4, <1>7, <2>1 DEF Whys
<1> QED
  BY <1>5, <1>6, <1>8, <1>9, <1>10, <1>11 DEF Looks

LEMMA HaltsTask ==
  ASSUME LeaseInv, TaskInv, ShapeInv, HaltFeed \/ HaltAck
  PROVE  /\ TaskInv' /\ ShapeInv' /\ SameDecoder
         /\ UNCHANGED <<queue, audio, done, stream_active>>
<1>1. /\ dec \in DecType /\ dec.halt \in BOOLEAN /\ dec.parked \in BOOLEAN
      /\ owner \in OwnerType
  BY DEF TaskInv, DecType, LeaseInv
<1>2. /\ UNCHANGED <<queue, audio, done, stream_active>> /\ running' = running
      /\ owner.pc \in {"feed", "ack"}
  BY DEF HaltFeed, HaltAck, SilentOwner, OwnerOnly
<1>3. dec' = dec \/ dec' = Told(dec.halt \/ owner.why = "bgbusy", dec.parked)
  BY DEF HaltFeed, HaltAck, SilentOwner
<1>4. SameDecoder
  <2>1. (dec.halt \/ owner.why = "bgbusy") \in BOOLEAN
    OBVIOUS
  <2> QED
    BY <1>1, <1>2, <1>3, <2>1, ToldSame
<1>5. TaskInv'
  BY <1>2, <1>4, OwnerBegun, OwnerTask
<1>6. ShapeInv'
  <2>1. CASE Halted(sd) \/ \E d : Halted(d)
    BY <1>2, <2>1, HaltedShape
  <2>2. CASE UNCHANGED player /\ owner' = [owner EXCEPT !.pc = "ack"]
             /\ owner.pc = "feed"
    <3>1. owner'.pc = "ack" /\ owner'.why = owner.why
      BY <1>1, <2>2 DEF OwnerType
    <3> QED
      BY <2>2, <3>1 DEF ShapeInv
  <2> QED
    BY <2>1, <2>2 DEF HaltFeed, HaltAck
<1> QED
  BY <1>2, <1>4, <1>5, <1>6

(* player_service_stream(), by what it does to the player.                 *)
Completes ==
  /\ player.stream # None /\ done.seq = player.stream
  /\ player.open
  /\ done' = [done EXCEPT !.seq = None]
  /\ player' = [player EXCEPT
       !.stream = None,
       !.state = IF /\ done.ok /\ ~sess[player.s].faults
                    /\ sess[player.s].terminal # "error"
                   THEN "ended" ELSE "error"]
  /\ UNCHANGED <<dec, queue, stream_halt, owner>>
Enqueues ==
  /\ player.priming /\ player.s # None /\ AudioPrompt
  /\ player.state = "playing"
  /\ queue' = Append(queue, player.s)
  /\ player' = [player EXCEPT !.priming = FALSE, !.stream = player.s]
  /\ UNCHANGED <<dec, stream_halt, owner, done>>
GivesUp ==
  /\ \/ HaltBegins(player, "error")
     \/ HaltBegins([player EXCEPT !.priming = FALSE], "error")
  /\ UNCHANGED <<queue, done>>
ServiceRests == UNCHANGED <<dec, queue, stream_halt, owner, done, player>>

LEMMA ServiceSplits ==
  ASSUME Service
  PROVE  /\ owner.pc = "idle"
         /\ UNCHANGED <<running, audio, stream_active>>
         /\ Completes \/ Enqueues \/ GivesUp \/ ServiceRests
<1>1. CASE ServiceRest
  BY <1>1 DEF ServiceRest, SilentOwner, OwnerOnly, OwnerIdle, ServiceRests
<1>2. CASE ServicePausedFault \/ ServicePrimeTimeout
  BY <1>2 DEF ServicePausedFault, ServicePrimeTimeout, OwnerOnly, OwnerIdle,
              Priming, GivesUp
<1>3. CASE ServiceStart
  BY <1>3 DEF ServiceStart, Priming, OwnerIdle, Enqueues, GivesUp
<1>4. CASE ServiceDone
  BY <1>4 DEF ServiceDone, OwnerIdle, Completes, decVars
<1> QED
  BY <1>1, <1>2, <1>3, <1>4 DEF Service

LEMMA ServiceTask ==
  ASSUME LeaseInv, TaskInv, ShapeInv, Service
  PROVE  TaskInv' /\ ShapeInv' /\ SameDecoder
<1>1. /\ dec \in DecType /\ player \in PlayerType
      /\ PlayerLive(player, sess)
  BY DEF TaskInv, LeaseInv
<1>2. /\ owner.pc = "idle" /\ running' = running /\ audio' = audio
  BY ServiceSplits
<1>3. ASSUME SameDecoder,
             \/ queue' = queue
             \/ \E s \in Begun(sess) : queue' = Append(queue, s),
             done' = done \/ done' = [done EXCEPT !.seq = None]
      PROVE  TaskInv'
  BY <1>2, <1>3, OwnerBegun, OwnerTask
<1>4. dec' = dec => SameDecoder
  BY <1>1, <1>2, ToldSame
<1>5. CASE Completes
  <2>1. ShapeInv'
    BY <1>1, <1>2, <1>5 DEF Completes, ShapeInv, PlayerType
  <2> QED
    BY <1>3, <1>4, <1>5, <2>1 DEF Completes
<1>6. CASE Enqueues
  <2>1. player.s \in Begun(sess)
    BY <1>1, <1>6 DEF Enqueues, PlayerLive, Live, Begun
  <2>2. ShapeInv'
    BY <1>1, <1>2, <1>6 DEF Enqueues, ShapeInv, PlayerType
  <2> QED
    BY <1>3, <1>4, <1>6, <2>1, <2>2 DEF Enqueues
<1>7. CASE GivesUp
  <2> DEFINE p == [player EXCEPT !.priming = FALSE]
  <2>1. /\ p \in PlayerType /\ p.s = player.s /\ p.stream = player.stream
        /\ p.state = player.state
    BY <1>1 DEF PlayerType
  <2>2. "error" \in Whys \ {"busy", "bgbusy"}
    BY DEF Whys
  <2> HIDE DEF p
  <2>3. PICK q \in {player, p} : HaltBegins(q, "error")
    BY <1>7 DEF GivesUp, p
  <2>4. /\ q \in PlayerType /\ q.stream \in {None, q.s}
        /\ q.state = "ready" => q.s = None
    BY <1>1, <2>1 DEF ShapeInv
  <2>5. /\ ShapeInv'
        /\ \/ dec' = dec
           \/ \E h \in BOOLEAN, parked \in BOOLEAN : dec' = Told(h, parked)
    BY <1>1, <2>2, <2>3, <2>4, HaltBeginsShape
  <2>6. SameDecoder
    BY <1>1, <1>2, <2>5, ToldSame
  <2> QED
    BY <1>3, <1>7, <2>5, <2>6 DEF GivesUp
<1>8. CASE ServiceRests
  BY <1>2, <1>3, <1>4, <1>8 DEF ServiceRests, ShapeInv
<1> QED
  BY <1>5, <1>6, <1>7, <1>8, ServiceSplits

(* A new session is one that was never begun.                              *)
LEMMA NextSession ==
  ASSUME TaskInv, Used + 1 \in Sessions
  PROVE  /\ Used + 1 \notin Begun(sess)
         /\ \E n \in Nat : Begun(sess) \cup {Used + 1} = 1 .. n
<1>1. PICK n \in Nat : Begun(sess) = 1 .. n
  BY DEF TaskInv
<1>2. Cardinality(1 .. n) = n
  BY FS_Interval
<1>3. Used = n
  BY <1>1, <1>2 DEF Used, Begun
<1>4. n + 1 \notin 1 .. n /\ (1 .. n) \cup {n + 1} = 1 .. (n + 1)
      /\ n + 1 \in Nat
  OBVIOUS
<1> QED
  BY <1>1, <1>3, <1>4

LEMMA LaunchTask ==
  ASSUME LeaseInv, TaskInv, ShapeInv, LaunchStep
  PROVE  /\ TaskInv' /\ ShapeInv'
         /\ Begun(sess') = Begun(sess) \cup {Used + 1}
         /\ Used + 1 \notin Begun(sess) /\ Used + 1 \in Sessions
         /\ \A r \in Sessions : r # Used + 1 =>
              sess'[r] = IF r \in Reapable THEN Gone ELSE sess[r]
         /\ sess'[Used + 1] \in {Fresh} \cup Unplayed
<1> DEFINE s == Used + 1
<1>1. /\ dec \in DecType /\ player \in PlayerType /\ s \in Sessions
  BY DEF TaskInv, LeaseInv, LaunchStep
<1>2. s \notin Begun(sess) /\ \E n \in Nat : Begun(sess) \cup {s} = 1 .. n
  BY <1>1, NextSession
<1> HIDE DEF s
<1>3. PICK w \in {Fresh} \cup Unplayed :
        sess' = [Disposed(sess, Reapable) EXCEPT ![s] = w]
  BY DEF LaunchStep, Launches, LaunchFails, s
<1>4. \A r \in Sessions :
        sess'[r] = IF r = s THEN w
                   ELSE IF r \in Reapable THEN Gone ELSE sess[r]
  BY <1>1, <1>3, DisposedSessions DEF Disposed
<1>5. Begun(sess') = Begun(sess) \cup {s}
  BY <1>1, <1>3, <1>4, SessionRecords DEF Begun, Reapable
<1>6. /\ UNCHANGED <<queue, audio, done>>
      /\ queue \in Seq(Begun(sess)) /\ Begun(sess) \subseteq Begun(sess')
  BY <1>5 DEF LaunchStep, audioVars, TaskInv
<1>7. queue' \in Seq(Begun(sess'))
  BY <1>6
<1>8. CASE Launches
  <2>1. /\ dec' \in DecType /\ dec'.pc = "read" /\ dec'.s = s
    BY <1>1, <1>8 DEF Launches, s, NoDecoder, DecType, DecPCs
  <2>2. TaskInv'
    BY <1>2, <1>5, <1>6, <1>7, <1>8, <2>1 DEF TaskInv, Launches
  <2>3. /\ player'.s = s /\ player'.state = "playing"
        /\ player'.stream = player.stream
        /\ owner' = Idle
    BY <1>1, <1>8 DEF Launches, PlayerType, s
  <2>4. player.s = None
    BY DEF LaunchStep, ShapeInv
  <2>5. ShapeInv'
    BY <2>3, <2>4 DEF ShapeInv, Idle
  <2> QED
    BY <1>1, <1>2, <1>3, <1>4, <1>5, <2>2, <2>5 DEF s
<1>9. CASE LaunchFails
  <2>1. TaskInv'
    BY <1>2, <1>5, <1>6, <1>7, <1>9 DEF TaskInv, LaunchFails, decVars
  <2>2. player'.s = player.s /\ player'.stream = player.stream
        /\ player'.state = player.state /\ owner'.pc = "ack"
    BY <1>1, <1>9 DEF LaunchFails, PlayerType
  <2>3. ShapeInv'
    BY <1>9, <2>2 DEF ShapeInv, LaunchFails
  <2> QED
    BY <1>1, <1>2, <1>3, <1>4, <1>5, <2>1, <2>3 DEF s
<1> QED
  BY <1>8, <1>9 DEF LaunchStep

LEMMA OwnerTaskStep ==
  ASSUME LeaseInv, TaskInv, ShapeInv, OwnerStep
  PROVE  TaskInv' /\ ShapeInv'
<1>1. CASE NoLaunch
  <2>1. SameDecoder
    BY <1>1, ToldSame DEF NoLaunch, decVars, TaskInv
  <2>2. TaskInv'
    BY <1>1, <2>1, OwnerBegun, OwnerTask DEF NoLaunch, audioVars
  <2>3. ShapeInv'
    BY <1>1 DEF NoLaunch, NoPlayer, Idle, ShapeInv
  <2> QED
    BY <2>2, <2>3
<1>2. Looks \/ HaltFeed \/ HaltAck \/ Service \/ Play \/ BackgroundLaunch
  BY DEF OwnerStep, OwnerWaits, Looks
<1> QED
  BY <1>1, <1>2, LooksTask, HaltsTask, ServiceTask, LaunchSplits, LaunchTask

LEMMA TaskNext ==
  LeaseInv /\ TaskInv /\ ShapeInv /\ [Next]_vars => TaskInv' /\ ShapeInv'
<1> SUFFICES ASSUME LeaseInv, TaskInv, ShapeInv, [Next]_vars
             PROVE  TaskInv' /\ ShapeInv'
  OBVIOUS
<1>1. CASE \E s \in Sessions : ReaderStep(s)
  BY <1>1, ReaderTask
<1>2. CASE DecoderStep \/ AudioStep \/ CodecFails
  BY <1>2, DecoderTask, AudioTask
<1>3. CASE OwnerStep
  BY <1>3, OwnerTaskStep
<1>4. CASE CardPulled \/ UNCHANGED vars
  BY <1>4 DEF CardPulled, vars, decVars, audioVars, TaskInv, ShapeInv
<1> QED
  BY <1>1, <1>2, <1>3, <1>4, NextSplits

-----------------------------------------------------------------------------
(* A song that is over.  Every packet that was taken made one slot of PCM, *)
(* and the flush one more; an eof stands behind everything that was put    *)
(* into its ring, so a ring that is empty behind it has been played.       *)
Decoded(x) ==
  \/ x.faults
  \/ /\ x.packets.eof /\ Empty(x.packets)
     /\ x.pcm.filled = x.packets.drained + 1
PlayedOut(x) == x.pcm.eof /\ Empty(x.pcm)

Counted(x, n) == x.pcm.filled = x.packets.drained + n
DecoderAt(d, x) ==
  /\ d.pc # "out" => ~x.pcm.eof
  /\ d.pc = "read" => Counted(x, IF d.held THEN 1 ELSE 0)
  /\ d.pc \in {"look", "tail"} => ~d.held /\ Counted(x, 0)
  /\ d.pc = "decode" => d.held /\ Counted(x, 0)
  /\ d.pc = "tail" => x.packets.eof
  /\ d.pc \in {"flush", "eof"} =>
       \/ x.faults
       \/ /\ x.packets.eof /\ Empty(x.packets) /\ ~d.held
          /\ Counted(x, IF d.pc = "eof" THEN 1 ELSE 0)
  /\ d.pc = "out" /\ x.pcm.eof => x.faults \/ ~d.held
AudioAt(a, x) ==
  /\ a.held => x.pcm.drained < x.pcm.filled
  /\ a.completed => a.pc = "post" /\ PlayedOut(x)
  /\ a.pc \in {"look", "tail"} => ~a.held
  /\ a.pc = "tail" => x.pcm.eof

SongOf(s) ==
  /\ FileEnded(sess[s])
  /\ sess[s].pcm.drained <= sess[s].pcm.filled
  /\ sess[s].pcm.eof => Decoded(sess[s])
  /\ dec.pc # "off" /\ dec.s = s => DecoderAt(dec, sess[s])
  /\ audio.pc # "idle" /\ audio.s = s => AudioAt(audio, sess[s])
  /\ done.seq = s /\ done.ok => PlayedOut(sess[s])
SongOver(x) ==
  /\ PlayedOut(x) /\ Decoded(x) /\ ~x.faults /\ x.packets.filled = Song
EndedInv ==
  player.state = "ended" => player.s # None /\ SongOver(sess[player.s])

SongInv == EndedInv /\ \A s \in Sessions : Live(sess, s) => SongOf(s)

(* A step that leaves the rings of a session to the tasks.                 *)
LEMMA SongStays ==
  ASSUME NEW s \in Sessions, SongOf(s), SameRings(sess[s], sess'[s]),
         dec'.pc = dec.pc, dec'.s = dec.s, dec'.held = dec.held,
         audio' = audio,
         done' = done \/ done' = [done EXCEPT !.seq = None], done \in DoneType
  PROVE  SongOf(s)'
<1>1. done'.seq = s => done'.seq = done.seq /\ done'.ok = done.ok
  BY NoTask DEF DoneType
<1> QED
  BY <1>1 DEF SongOf, SameRings, SameFile, SameDecoded, SamePlayed, Decoded,
         PlayedOut, Counted, DecoderAt, AudioAt, FileEnded, Empty

LEMMA SongOverStays ==
  ASSUME NEW x, NEW y, SameRings(x, y), SongOver(x)
  PROVE  SongOver(y)
BY DEF SongOver, SameRings, SameFile, SameDecoded, SamePlayed, Decoded,
       PlayedOut, Empty

LEMMA SongInit == Init => SongInv
BY SessionRecords
   DEF Init, SongInv, EndedInv, NoPlayer, Live

(* The reader.                                                             *)
LEMMA ReaderSong ==
  ASSUME LeaseInv, SongInv, NEW s \in Sessions, ReaderStep(s)
  PROVE  SongInv'
<1>1. UNCHANGED <<dec, audio, done, player>>
  BY DEF ReaderStep, ReaderSignal, ReaderGot, ReaderEof, ReaderAck,
         ReaderOnly, decVars, audioVars
<1>2. /\ \A r \in Sessions : r # s => sess'[r] = sess[r]
      /\ SameOwner(sess[s], sess'[s]) /\ SameDecoded(sess[s], sess'[s])
      /\ SamePlayed(sess[s], sess'[s])
      /\ sess[s].packets.eof => sess'[s].packets.eof
      /\ FileEnded(sess[s]) => FileEnded(sess'[s])
      /\ sess[s].pc = "ending" => sess'[s].packets = sess[s].packets
      /\ sess[s].pc # "acked"
  BY ReaderTouches
<1>3. \A r \in Sessions : Live(sess', r) <=> Live(sess, r)
  BY <1>2 DEF Live, SameOwner
<1>4. ASSUME FileEnded(sess[s]), sess[s].packets.eof
      PROVE  sess'[s].packets = sess[s].packets
  BY <1>2, <1>4 DEF FileEnded
<1>5. ASSUME NEW r \in Sessions, Live(sess, r) PROVE SongOf(r)'
  <2>1. SongOf(r)
    BY <1>5 DEF SongInv
  <2>2. CASE r # s
    BY <1>1, <1>2, <2>1, <2>2 DEF SongOf
  <2>3. CASE r = s
    BY <1>1, <1>2, <1>4, <2>1, <2>3
       DEF SongOf, SameDecoded, SamePlayed, Decoded, PlayedOut, Counted,
           DecoderAt, AudioAt, Empty
  <2> QED
    BY <2>2, <2>3
<1>6. EndedInv'
  <2> SUFFICES ASSUME player.state = "ended"
               PROVE  player.s # None /\ SongOver(sess'[player.s])
    BY <1>1 DEF EndedInv
  <2>1. player.s # None /\ SongOver(sess[player.s])
    BY DEF SongInv, EndedInv
  <2>2. Live(sess, player.s) /\ player.s \in Sessions
    BY <2>1 DEF LeaseInv, PlayerLive, Live
  <2>3. FileEnded(sess[player.s])
    BY <2>2 DEF SongInv, SongOf
  <2>4. sess[player.s].packets.eof
    BY <2>1 DEF SongOver, Decoded
  <2>5. CASE player.s = s
    BY <1>2, <1>4, <2>1, <2>3, <2>4, <2>5
       DEF SongOver, SameDecoded, SamePlayed, Decoded, PlayedOut, Empty
  <2>6. CASE player.s # s
    BY <1>2, <2>1, <2>2, <2>6
  <2> QED
    BY <2>5, <2>6, <2>1
<1> QED
  BY <1>3, <1>5, <1>6 DEF SongInv

(* The decoder: what it does to its own session, step by step.             *)
DecoderGoes(x, y) ==
  /\ y.pcm.drained = x.pcm.drained
  /\ x.pcm.filled <= y.pcm.filled
  /\ x.pcm.eof => /\ y.pcm = x.pcm
                  /\ ~x.faults /\ Decoded(x) =>
                       ~y.faults /\ y.packets = x.packets
  /\ y.pcm.eof => Decoded(y)
  /\ dec'.pc # "off" => DecoderAt(dec', y)

LEMMA DecoderSession ==
  ASSUME LeaseInv, TaskInv, DecoderStep, NEW s \in Sessions, dec.s = s,
         DecoderAt(dec, sess[s]), sess[s].pcm.eof => Decoded(sess[s])
  PROVE  DecoderGoes(sess[s], sess'[s])
<1> DEFINE x == sess[s]
<1>1. /\ sess \in [Sessions -> AnySession] /\ x \in AnySession
      /\ x.packets \in AnyRing /\ x.pcm \in AnyRing /\ dec \in DecType
  BY DEF LeaseInv, AnySession, TaskInv
<1>2. /\ NoDecoder.pc = "off"
  BY NoTask
<1>3. \A pc : /\ [dec EXCEPT !.pc = pc].pc = pc
              /\ [dec EXCEPT !.pc = pc].held = dec.held
              /\ \A h : /\ [dec EXCEPT !.pc = pc, !.held = h].pc = pc
                        /\ [dec EXCEPT !.pc = pc, !.held = h].held = h
  BY <1>1 DEF DecType
<1>4. CASE DecRead
  <2> DEFINE left == Released(x.packets, dec.held)
  <2>1. x.pcm.eof = FALSE /\ dec.pc = "read"
        /\ Counted(x, IF dec.held THEN 1 ELSE 0)
    BY <1>1, <1>4 DEF DecRead, DecoderAt, AnyRing
  <2>2. \/ sess' = sess /\ dec' = [dec EXCEPT !.pc = "out"]
        \/ /\ sess'[s] = [x EXCEPT !.packets = left]
           /\ \/ dec' = [dec EXCEPT !.pc = "look", !.held = FALSE]
              \/ dec' = [dec EXCEPT !.pc = "decode", !.held = TRUE]
    BY <1>1, <1>4 DEF DecRead, Decoder, Packets
  <2>3. /\ left.drained = x.packets.drained + (IF dec.held THEN 1 ELSE 0)
        /\ left.filled = x.packets.filled /\ left.eof = x.packets.eof
    BY <1>1 DEF Released, AnyRing
  <2>4. sess'[s] = [x EXCEPT !.packets = left] =>
          sess'[s].pcm = x.pcm /\ sess'[s].packets = left
    BY <1>1 DEF AnySession
  <2> HIDE DEF left
  <2>5. CASE sess' = sess /\ dec' = [dec EXCEPT !.pc = "out"]
    BY <1>1, <1>3, <2>1, <2>5 DEF DecoderGoes, DecoderAt, AnyRing
  <2>6. CASE /\ sess'[s] = [x EXCEPT !.packets = left]
             /\ dec' = [dec EXCEPT !.pc = "look", !.held = FALSE]
    BY <1>1, <1>3, <2>1, <2>3, <2>4, <2>6
       DEF DecoderGoes, DecoderAt, Counted, AnyRing
  <2>7. CASE /\ sess'[s] = [x EXCEPT !.packets = left]
             /\ dec' = [dec EXCEPT !.pc = "decode", !.held = TRUE]
    BY <1>1, <1>3, <2>1, <2>3, <2>4, <2>7
       DEF DecoderGoes, DecoderAt, Counted, AnyRing
  <2> QED
    BY <2>2, <2>5, <2>6, <2>7
<1>5. CASE DecLook
  <2>1. /\ x.pcm.eof = FALSE /\ dec.pc = "look" /\ Counted(x, 0) /\ ~dec.held
        /\ sess' = sess
    BY <1>1, <1>5 DEF DecLook, DecoderAt, AnyRing
  <2>2. \/ dec' = [dec EXCEPT !.pc = "out"]
        \/ dec' = [dec EXCEPT !.pc = "tail"] /\ x.packets.eof
        \/ dec' = [dec EXCEPT !.pc = "decode", !.held = TRUE]
    BY <1>5 DEF DecLook, Decoder, DecTakes, Packets
  <2>3. CASE dec' = [dec EXCEPT !.pc = "out"]
    BY <1>1, <1>3, <2>1, <2>3 DEF DecoderGoes, DecoderAt, AnyRing
  <2>4. CASE dec' = [dec EXCEPT !.pc = "tail"] /\ x.packets.eof
    BY <1>1, <1>3, <2>1, <2>4 DEF DecoderGoes, DecoderAt, Counted, AnyRing
  <2>5. CASE dec' = [dec EXCEPT !.pc = "decode", !.held = TRUE]
    BY <1>1, <1>3, <2>1, <2>5 DEF DecoderGoes, DecoderAt, Counted, AnyRing
  <2> QED
    BY <2>2, <2>3, <2>4, <2>5
<1>6. CASE DecTail
  <2>1. /\ x.pcm.eof = FALSE /\ dec.pc = "tail" /\ Counted(x, 0) /\ ~dec.held
        /\ x.packets.eof
    BY <1>1, <1>6 DEF DecTail, DecoderAt, AnyRing
  <2>2. \/ sess' = sess /\ dec' = [dec EXCEPT !.pc = "decode", !.held = TRUE]
        \/ /\ Empty(x.packets) /\ dec' = [dec EXCEPT !.pc = "flush"]
           /\ \E v : sess' = [sess EXCEPT ![s].faults = v]
    BY <1>6 DEF DecTail, Decoder, DecTakes, Packets
  <2>3. CASE sess' = sess /\ dec' = [dec EXCEPT !.pc = "decode", !.held = TRUE]
    BY <1>1, <1>3, <2>1, <2>3 DEF DecoderGoes, DecoderAt, Counted, AnyRing
  <2>4. CASE /\ Empty(x.packets) /\ dec' = [dec EXCEPT !.pc = "flush"]
             /\ \E v : sess' = [sess EXCEPT ![s].faults = v]
    <3>1. sess'[s].pcm = x.pcm /\ sess'[s].packets = x.packets
      BY <1>1, <2>4 DEF AnySession
    <3>2. dec'.pc = "flush" /\ dec'.held = FALSE
      BY <1>1, <1>3, <2>1, <2>4 DEF DecType
    <3> QED
      BY <1>1, <2>1, <2>4, <3>1, <3>2
         DEF DecoderGoes, DecoderAt, Counted, AnyRing
  <2> QED
    BY <2>2, <2>3, <2>4
<1>7. CASE DecDecode
  <2>1. /\ x.pcm.eof = FALSE /\ dec.pc = "decode" /\ Counted(x, 0) /\ dec.held
    BY <1>1, <1>7 DEF DecDecode, DecoderAt, AnyRing
  <2>2. \/ sess' = sess /\ dec' = [dec EXCEPT !.pc = "out"]
        \/ /\ sess' = [sess EXCEPT ![s].pcm = Published(@)]
           /\ dec' = [dec EXCEPT !.pc = "read"]
        \/ /\ sess' = [sess EXCEPT ![s].faults = TRUE]
           /\ dec' = [dec EXCEPT !.pc = "flush"]
    BY <1>7 DEF DecDecode, Decoder
  <2>3. CASE sess' = sess /\ dec' = [dec EXCEPT !.pc = "out"]
    BY <1>1, <1>3, <2>1, <2>3 DEF DecoderGoes, DecoderAt, AnyRing
  <2>4. CASE /\ sess' = [sess EXCEPT ![s].pcm = Published(@)]
             /\ dec' = [dec EXCEPT !.pc = "read"]
    <3>1. /\ sess'[s].pcm = Published(x.pcm) /\ sess'[s].packets = x.packets
      BY <1>1, <2>4 DEF AnySession
    <3>2. /\ Published(x.pcm).filled = x.pcm.filled + 1
          /\ Published(x.pcm).drained = x.pcm.drained
          /\ Published(x.pcm).eof = x.pcm.eof
      BY <1>1 DEF AnyRing, Published
    <3> QED
      BY <1>1, <1>3, <2>1, <2>4, <3>1, <3>2
         DEF DecoderGoes, DecoderAt, Counted, AnyRing
  <2>5. CASE /\ sess' = [sess EXCEPT ![s].faults = TRUE]
             /\ dec' = [dec EXCEPT !.pc = "flush"]
    <3>1. /\ sess'[s].pcm = x.pcm /\ sess'[s].faults = TRUE
      BY <1>1, <2>5 DEF AnySession
    <3> QED
      BY <1>1, <1>3, <2>1, <2>5, <3>1
         DEF DecoderGoes, DecoderAt, Counted, AnyRing
  <2> QED
    BY <2>2, <2>3, <2>4, <2>5
<1>8. CASE DecFlush
  <2>1. /\ x.pcm.eof = FALSE /\ dec.pc = "flush"
        /\ \/ x.faults
           \/ /\ x.packets.eof /\ Empty(x.packets) /\ ~dec.held
              /\ Counted(x, 0)
    BY <1>1, <1>8 DEF DecFlush, DecoderAt, AnyRing
  <2>2. \/ sess' = sess /\ dec' = [dec EXCEPT !.pc = "out"]
        \/ /\ sess' = [sess EXCEPT ![s].pcm = Published(@)]
           /\ dec' = [dec EXCEPT !.pc = "eof"]
    BY <1>8 DEF DecFlush, Decoder
  <2>3. CASE sess' = sess /\ dec' = [dec EXCEPT !.pc = "out"]
    BY <1>1, <1>3, <2>1, <2>3 DEF DecoderGoes, DecoderAt, AnyRing
  <2>4. CASE /\ sess' = [sess EXCEPT ![s].pcm = Published(@)]
             /\ dec' = [dec EXCEPT !.pc = "eof"]
    <3>1. /\ sess'[s].pcm = Published(x.pcm) /\ sess'[s].packets = x.packets
          /\ sess'[s].faults = x.faults
      BY <1>1, <2>4 DEF AnySession
    <3>2. /\ Published(x.pcm).filled = x.pcm.filled + 1
          /\ Published(x.pcm).drained = x.pcm.drained
          /\ Published(x.pcm).eof = x.pcm.eof
      BY <1>1 DEF AnyRing, Published
    <3> QED
      BY <1>1, <1>3, <2>1, <2>4, <3>1, <3>2
         DEF DecoderGoes, DecoderAt, Counted, AnyRing
  <2> QED
    BY <2>2, <2>3, <2>4
<1>9. CASE DecEof
  <2>1. /\ x.pcm.eof = FALSE /\ dec.pc = "eof"
        /\ \/ x.faults
           \/ /\ x.packets.eof /\ Empty(x.packets) /\ ~dec.held
              /\ Counted(x, 1)
    BY <1>1, <1>9 DEF DecEof, DecoderAt, AnyRing
  <2>2. /\ sess' = [sess EXCEPT ![s].pcm.eof = TRUE]
        /\ dec' = [dec EXCEPT !.pc = "out"]
    BY <1>9 DEF DecEof, Decoder
  <2>3. /\ sess'[s].packets = x.packets /\ sess'[s].faults = x.faults
        /\ sess'[s].pcm.filled = x.pcm.filled
        /\ sess'[s].pcm.drained = x.pcm.drained
        /\ sess'[s].pcm.eof = TRUE
    BY <1>1, <2>2 DEF AnySession, AnyRing
  <2> QED
    BY <1>1, <1>3, <2>1, <2>2, <2>3
       DEF DecoderGoes, DecoderAt, Decoded, Counted, AnyRing
<1>10. CASE DecOut
  <2>1. /\ x.pcm.eof => x.faults \/ ~dec.held
        /\ dec' = NoDecoder
        /\ sess' = [sess EXCEPT ![s].packets = Released(@, dec.held)]
    BY <1>10 DEF DecOut, DecoderAt
  <2>2. /\ sess'[s].pcm = x.pcm /\ sess'[s].faults = x.faults
        /\ sess'[s].packets = Released(x.packets, dec.held)
    BY <1>1, <2>1 DEF AnySession
  <2>3. ~dec.held => Released(x.packets, dec.held) = x.packets
    BY DEF Released
  <2> QED
    BY <1>1, <1>2, <2>1, <2>2, <2>3 DEF DecoderGoes, Decoded, AnyRing
<1> QED
  BY <1>4, <1>5, <1>6, <1>7, <1>8, <1>9, <1>10 DEF DecoderStep

LEMMA DecoderSong ==
  ASSUME LeaseInv, TaskInv, ShapeInv, SongInv, DecoderStep
  PROVE  SongInv'
<1>1. UNCHANGED <<audio, done, player>>
  BY DEF DecoderStep, DecRead, DecLook, DecTail, DecDecode, DecFlush, DecEof,
         DecOut, DecoderOnly, audioVars
<1>2. /\ \A r \in Sessions : r # dec.s => sess'[r] = sess[r]
      /\ \A r \in Sessions : /\ SameOwner(sess[r], sess'[r])
                             /\ SameFile(sess[r], sess'[r])
                             /\ SamePlayed(sess[r], sess'[r])
  BY DecoderTouches
<1>3. dec.pc # "off" /\ (dec'.pc # "off" => dec'.s = dec.s)
  BY DecoderTask
<1>4. \A r \in Sessions : Live(sess', r) <=> Live(sess, r)
  BY <1>2 DEF Live, SameOwner
<1>5. ASSUME NEW r \in Sessions, Live(sess, r), dec.s = r
      PROVE  DecoderGoes(sess[r], sess'[r])
  BY <1>3, <1>5, DecoderSession DEF SongInv, SongOf
<1>6. \A r \in Sessions : sess[r].pcm \in AnyRing /\ sess'[r].pcm \in AnyRing
  <2>1. LeaseInv'
    BY LeaseNext, NextSplits
  <2> QED
    BY <2>1 DEF LeaseInv, AnySession
<1>7. ASSUME NEW r \in Sessions, Live(sess, r) PROVE SongOf(r)'
  <2>1. SongOf(r)
    BY <1>7 DEF SongInv
  <2>2. CASE r # dec.s
    BY <1>1, <1>2, <1>3, <2>1, <2>2 DEF SongOf
  <2>3. CASE r = dec.s
    <3>1. DecoderGoes(sess[r], sess'[r])
      BY <1>5, <1>7, <2>3
    <3>2. FileEnded(sess'[r])
      BY <1>2, <2>1 DEF SongOf, FileEnded, SameFile
    <3>3. sess'[r].pcm.drained <= sess'[r].pcm.filled
      BY <1>6, <2>1, <3>1 DEF SongOf, DecoderGoes, AnyRing
    <3>4. PlayedOut(sess[r]) => PlayedOut(sess'[r])
      BY <3>1 DEF DecoderGoes, PlayedOut
    <3>5. AudioAt(audio, sess[r]) => AudioAt(audio, sess'[r])
      BY <1>6, <3>1, <3>4 DEF DecoderGoes, AudioAt, AnyRing
    <3> QED
      BY <1>1, <2>1, <3>1, <3>2, <3>3, <3>4, <3>5 DEF SongOf, DecoderGoes
  <2> QED
    BY <2>2, <2>3
<1>8. EndedInv'
  <2> SUFFICES ASSUME player.state = "ended"
               PROVE  player.s # None /\ SongOver(sess'[player.s])
    BY <1>1 DEF EndedInv
  <2>1. player.s # None /\ SongOver(sess[player.s])
    BY DEF SongInv, EndedInv
  <2>2. Live(sess, player.s) /\ player.s \in Sessions
    BY <2>1 DEF LeaseInv, PlayerLive, Live
  <2>3. CASE player.s = dec.s
    BY <1>5, <2>1, <2>2, <2>3
       DEF SongOver, DecoderGoes, Decoded, PlayedOut
  <2>4. CASE player.s # dec.s
    BY <1>2, <2>1, <2>2, <2>4
  <2> QED
    BY <2>1, <2>3, <2>4
<1> QED
  BY <1>4, <1>7, <1>8 DEF SongInv

(* The audio task: what it does to the session it plays, step by step.     *)
AudioGoes(x, y) ==
  /\ y.pcm.drained <= y.pcm.filled
  /\ PlayedOut(x) => PlayedOut(y)
  /\ audio'.pc # "idle" => AudioAt(audio', y)

LEMMA AudioSession ==
  ASSUME LeaseInv, TaskInv, AudioStep \/ CodecFails, audio.pc # "idle",
         NEW s \in Sessions, audio.s = s, AudioAt(audio, sess[s]),
         sess[s].pcm.drained <= sess[s].pcm.filled
  PROVE  AudioGoes(sess[s], sess'[s])
<1> DEFINE x == sess[s]
           left == Released(x.pcm, audio.held)
<1>1. /\ sess \in [Sessions -> AnySession] /\ x \in AnySession
      /\ x.pcm \in AnyRing /\ audio \in AudioType
  BY DEF LeaseInv, AnySession, TaskInv
<1>2. /\ left.drained = x.pcm.drained + (IF audio.held THEN 1 ELSE 0)
      /\ left.filled = x.pcm.filled /\ left.eof = x.pcm.eof
      /\ ~audio.held => left = x.pcm
  BY <1>1 DEF Released, AnyRing
<1>3. left.drained <= left.filled
  BY <1>1, <1>2 DEF AudioAt, AnyRing
<1>4. PlayedOut(x) => left = x.pcm
  BY <1>1, <1>2 DEF AudioAt, PlayedOut, Empty, AnyRing
<1>5. [x EXCEPT !.pcm = left].pcm = left
  BY <1>1 DEF AnySession
<1>6. \A pc : /\ [audio EXCEPT !.pc = pc].pc = pc
              /\ [audio EXCEPT !.pc = pc].held = audio.held
              /\ [audio EXCEPT !.pc = pc].completed = audio.completed
              /\ \A h : /\ [audio EXCEPT !.pc = pc, !.held = h].pc = pc
                        /\ [audio EXCEPT !.pc = pc, !.held = h].held = h
                        /\ [audio EXCEPT !.pc = pc, !.held = h].completed
                             = audio.completed
  BY <1>1 DEF AudioType
<1>7. \A c : /\ [audio EXCEPT !.pc = "post", !.held = FALSE,
                              !.completed = c].pc = "post"
             /\ [audio EXCEPT !.pc = "post", !.held = FALSE,
                              !.completed = c].held = FALSE
             /\ [audio EXCEPT !.pc = "post", !.held = FALSE,
                              !.completed = c].completed = c
  BY <1>1 DEF AudioType
<1> HIDE DEF left
<1>8. CASE AudioClaim \/ AudioCheck
  <2>1. /\ sess' = sess /\ audio.pc \in {"claim", "check"}
        /\ \E pc \in {"check", "post", "play"} :
             audio' = [audio EXCEPT !.pc = pc]
    BY <1>8 DEF AudioClaim, AudioCheck
  <2> QED
    BY <1>1, <1>6, <2>1 DEF AudioGoes, AudioAt
<1>9. ASSUME NEW c \in BOOLEAN, Leaves(c), c => PlayedOut(x)
      PROVE  AudioGoes(x, sess'[s])
  <2>1. sess'[s].pcm = left
    BY <1>1, <1>5, <1>9 DEF Leaves, left
  <2>2. c => PlayedOut(sess'[s])
    BY <1>4, <1>9, <2>1 DEF PlayedOut
  <2>3. PlayedOut(x) => PlayedOut(sess'[s])
    BY <1>4, <2>1 DEF PlayedOut
  <2>4. audio'.pc = "post" /\ audio'.held = FALSE /\ audio'.completed = c
    BY <1>7, <1>9 DEF Leaves
  <2> QED
    BY <1>3, <2>1, <2>2, <2>3, <2>4 DEF AudioGoes, AudioAt
<1>10. CASE AudioBreak \/ CodecFails
  BY <1>9, <1>10 DEF AudioBreak, CodecFails
<1>11. CASE AudioPlay
  <2>1. /\ audio.pc = "play" /\ sess'[s].pcm = left
        /\ audio' = [audio EXCEPT !.pc = IF Empty(left) THEN "look" ELSE @,
                                  !.held = ~Empty(left)]
    BY <1>1, <1>5, <1>11 DEF AudioPlay, left
  <2>2. /\ audio'.pc = IF Empty(left) THEN "look" ELSE "play"
        /\ audio'.held = ~Empty(left) /\ audio'.completed = audio.completed
    BY <1>1, <2>1 DEF AudioType
  <2>3. ~audio.completed
    BY <2>1 DEF AudioAt
  <2>4. ~Empty(left) => left.drained < left.filled
    BY <1>1, <1>2, <1>3 DEF Empty, AnyRing
  <2>5. PlayedOut(x) => PlayedOut(sess'[s])
    BY <1>4, <2>1 DEF PlayedOut
  <2>6. /\ audio'.held => left.drained < left.filled
        /\ audio'.pc = "look" => ~audio'.held
        /\ audio'.pc \in {"look", "play"} /\ ~audio'.completed
    BY <2>2, <2>3, <2>4
  <2> QED
    BY <1>3, <2>1, <2>5, <2>6 DEF AudioGoes, AudioAt
<1>12. CASE AudioLook
  <2>1. /\ sess' = sess /\ audio.pc = "look"
        /\ audio' = [audio EXCEPT !.pc = IF x.pcm.eof THEN "tail" ELSE "play"]
    BY <1>12 DEF AudioLook
  <2> QED
    BY <1>1, <1>6, <2>1 DEF AudioGoes, AudioAt
<1>13. CASE AudioTail
  <2>1. audio.pc = "tail" /\ x.pcm.eof /\ ~audio.held
    BY <1>13 DEF AudioTail, AudioAt
  <2>2. CASE Empty(x.pcm) /\ Leaves(TRUE)
    BY <1>9, <2>1, <2>2 DEF PlayedOut
  <2>3. CASE sess' = sess /\ audio' = [audio EXCEPT !.pc = "play"]
    BY <1>1, <1>6, <2>1, <2>3 DEF AudioGoes, AudioAt
  <2> QED
    BY <1>13, <2>2, <2>3 DEF AudioTail
<1>14. CASE AudioPost
  BY <1>14, NoTask DEF AudioPost, AudioGoes
<1> QED
  BY <1>8, <1>10, <1>11, <1>12, <1>13, <1>14 DEF AudioStep, AudioTake

LEMMA AudioSong ==
  ASSUME LeaseInv, TaskInv, ShapeInv, SongInv, AudioStep \/ CodecFails
  PROVE  SongInv'
<1>1. UNCHANGED <<dec, player>>
  BY DEF AudioStep, CodecFails, AudioTake, AudioClaim, AudioCheck, AudioBreak,
         AudioPlay, AudioLook, AudioTail, AudioPost, AudioOnly, decVars
<1>2. /\ \A r \in Sessions : r # audio.s => sess'[r] = sess[r]
      /\ \A r \in Sessions : /\ SameOwner(sess[r], sess'[r])
                             /\ SameFile(sess[r], sess'[r])
                             /\ SameDecoded(sess[r], sess'[r])
  BY AudioTouches
<1>3. \A r \in Sessions : Live(sess', r) <=> Live(sess, r)
  BY <1>2 DEF Live, SameOwner
<1>4. CASE AudioTake
  <2>1. /\ sess' = sess /\ done' = done
        /\ audio' = [NoAudio EXCEPT !.pc = "claim", !.s = Head(queue)]
    BY <1>4 DEF AudioTake
  <2>2. audio'.pc = "claim" /\ ~audio'.held /\ ~audio'.completed
    BY <2>1 DEF NoAudio
  <2>3. \A r \in Sessions : AudioAt(audio', sess[r])
    BY <2>2 DEF AudioAt
  <2> QED
    BY <1>1, <2>1, <2>3 DEF SongInv, SongOf, EndedInv
<1>5. CASE ~AudioTake
  <2>1. audio.pc # "idle"
    BY <1>5 DEF AudioStep, CodecFails, AudioClaim, AudioCheck, AudioBreak,
                AudioPlay, AudioLook, AudioTail, AudioPost
  <2>2. \/ done' = done
        \/ /\ audio.pc = "post" /\ sess' = sess
           /\ done' = [seq |-> audio.s, ok |-> audio.completed]
    BY <1>5 DEF AudioStep, CodecFails, AudioClaim, AudioCheck, AudioBreak,
                AudioPlay, AudioLook, AudioTail, AudioPost
  <2>3. audio'.pc # "idle" => audio'.s = audio.s
    <3>1. audio \in AudioType
      BY DEF TaskInv
    <3> QED
      BY <1>5, <3>1, NoTask
         DEF AudioStep, CodecFails, AudioClaim, AudioCheck, AudioBreak,
             AudioPlay, AudioLook, AudioTail, AudioPost, Leaves, AudioType
  <2>4. ASSUME NEW r \in Sessions, Live(sess, r), audio.s = r
        PROVE  AudioGoes(sess[r], sess'[r])
    BY <2>1, <2>4, AudioSession DEF SongInv, SongOf
  <2>5. ASSUME NEW r \in Sessions, Live(sess, r) PROVE SongOf(r)'
    <3>1. SongOf(r)
      BY <2>5 DEF SongInv
    <3>2. CASE r # audio.s
      BY <1>1, <1>2, <2>2, <2>3, <3>1, <3>2 DEF SongOf
    <3>3. CASE r = audio.s
      <4>1. AudioGoes(sess[r], sess'[r])
        BY <2>4, <2>5, <3>3
      <4>2. FileEnded(sess'[r])
        BY <1>2, <3>1 DEF SongOf, FileEnded, SameFile
      <4>3. /\ sess'[r].pcm.eof => Decoded(sess'[r])
            /\ DecoderAt(dec, sess[r]) => DecoderAt(dec, sess'[r])
        BY <1>2, <3>1 DEF SongOf, Decoded, SameFile, SameDecoded, DecoderAt,
                          Counted, Empty
      <4>4. done'.seq = r /\ done'.ok => PlayedOut(sess'[r])
        BY <2>1, <2>2, <3>1, <3>3, <4>1 DEF SongOf, AudioGoes, AudioAt
      <4> QED
        BY <1>1, <3>1, <4>1, <4>2, <4>3, <4>4 DEF SongOf, AudioGoes
    <3> QED
      BY <3>2, <3>3
  <2>6. EndedInv'
    <3> SUFFICES ASSUME player.state = "ended"
                 PROVE  player.s # None /\ SongOver(sess'[player.s])
      BY <1>1 DEF EndedInv
    <3>1. player.s # None /\ SongOver(sess[player.s])
      BY DEF SongInv, EndedInv
    <3>2. Live(sess, player.s) /\ player.s \in Sessions
      BY <3>1 DEF LeaseInv, PlayerLive, Live
    <3>3. CASE player.s = audio.s
      <4>1. AudioGoes(sess[player.s], sess'[player.s])
        BY <2>4, <3>2, <3>3
      <4> QED
        BY <1>2, <3>1, <3>2, <4>1
           DEF SongOver, AudioGoes, Decoded, SameFile, SameDecoded, Empty
    <3>4. CASE player.s # audio.s
      BY <1>2, <3>1, <3>2, <3>4
    <3> QED
      BY <3>1, <3>3, <3>4
  <2> QED
    BY <1>3, <2>5, <2>6 DEF SongInv
<1> QED
  BY <1>4, <1>5

(* The owner task.  The rings it leaves behind are those of the sessions   *)
(* it leaves live, or those of a new one.                                  *)
LEMMA HaltFreesNothingElse ==
  ASSUME LeaseInv, HaltAck
  PROVE  /\ ~Live(sess', owner.s)
         /\ \A r \in Sessions : r # owner.s => sess'[r] = sess[r]
<1>1. sess[owner.s] \in AnySession
  BY HaltAckEnds DEF LeaseInv
<1> QED
  BY <1>1, HaltAckEnds, SessionRecords, QuarantinedRecord DEF Live

LEMMA RingsLeft ==
  ASSUME LeaseInv, Looks \/ HaltFeed \/ HaltAck \/ Service \/ NoLaunch
  PROVE  \A r \in Sessions : Live(sess', r) =>
           Live(sess, r) /\ SameRings(sess[r], sess'[r])
<1>1. \A x : SameRings(x, x)
  BY KeptItself DEF Kept
<1>2. CASE Looks \/ HaltFeed \/ NoLaunch
  BY <1>1, <1>2, LooksKeep, HaltFeedTells
     DEF Kept, Obeys, SameOwner, Live, NoLaunch
<1>3. CASE HaltAck
  BY <1>1, <1>3, HaltFreesNothingElse DEF Live
<1>4. CASE Service
  <2>1. \A r \in Sessions :
          sess'[r] = IF r \in Reapable THEN Gone ELSE sess[r]
    BY <1>4, ServiceReaps, DisposedSessions
  <2> QED
    BY <1>1, <2>1, SessionRecords DEF Live
<1> QED
  BY <1>2, <1>3, <1>4

LEMMA SongsStay ==
  ASSUME LeaseInv, TaskInv, SongInv, SameDecoder, audio' = audio,
         done' = done \/ done' = [done EXCEPT !.seq = None],
         \A r \in Sessions : Live(sess', r) =>
           Live(sess, r) /\ SameRings(sess[r], sess'[r])
  PROVE  \A r \in Sessions : Live(sess', r) => SongOf(r)'
<1> SUFFICES ASSUME NEW r \in Sessions, Live(sess', r) PROVE SongOf(r)'
  OBVIOUS
<1>1. SongOf(r) /\ SameRings(sess[r], sess'[r])
  BY DEF SongInv
<1>2. done \in DoneType
  BY DEF TaskInv
<1> QED
  BY <1>1, <1>2, SongStays DEF SameDecoder

(* A player that is left "ended" by such a step was "ended".               *)
LEMMA StaysEnded ==
  ASSUME LeaseInv, LeaseInv', SongInv, player'.state = "ended",
         player.state = "ended", player'.s = player.s,
         \A r \in Sessions : Live(sess', r) =>
           Live(sess, r) /\ SameRings(sess[r], sess'[r])
  PROVE  EndedInv'
<1>1. player.s # None /\ SongOver(sess[player.s])
  BY DEF SongInv, EndedInv
<1>2. Live(sess', player.s) /\ player.s \in Sessions
  BY <1>1 DEF LeaseInv, PlayerLive, Live
<1> QED
  BY <1>1, <1>2, SongOverStays DEF EndedInv

LEMMA LooksSong ==
  ASSUME LeaseInv, LeaseInv', TaskInv, ShapeInv, SongInv, Looks
  PROVE  SongInv'
<1>1. UNCHANGED <<running, audio, done>>
  BY DEF Looks, HaltAudio, Resume, Pause, Close, Open, CardRead,
         RequestFolder, FolderChosen, FolderDeclined, FsPump, BackgroundStop,
         BackgroundNext, Adopt, AppStarts, AppEnds, Suspend, SilentOwner,
         OwnerOnly, decVars, audioVars
<1>2. player \in PlayerType /\ dec \in DecType
  BY DEF LeaseInv, TaskInv
<1>3. dec.halt \in BOOLEAN /\ dec.parked \in BOOLEAN
  BY <1>2 DEF DecType
<1>4. SameDecoder
  <2>1. \/ dec' = dec
        \/ \E h \in BOOLEAN, p \in BOOLEAN : dec' = Told(h, p)
    BY <1>3 DEF Looks, HaltAudio, Resume, Pause, Close, Open, CardRead,
         RequestFolder, FolderChosen, FolderDeclined, FsPump, BackgroundStop,
         BackgroundNext, Adopt, AppStarts, AppEnds, Suspend, SilentOwner,
         HaltBegins, decVars
  <2> QED
    BY <1>1, <1>2, <2>1, ToldSame
<1>5. player'.state = "ended" =>
        player'.s = player.s /\ player.state = "ended"
  <2>1. \/ player' = player
        \/ player' = [player EXCEPT !.priming = FALSE]
        \/ \E b : player' = [player EXCEPT !.bg = b]
        \/ \E st \in {"playing", "paused"} :
             player' = [player EXCEPT !.state = st]
        \/ player' = [NoPlayer EXCEPT !.open = TRUE]
    BY DEF Looks, HaltAudio, Resume, Pause, Close, Open, CardRead,
         RequestFolder, FolderChosen, FolderDeclined, FsPump, BackgroundStop,
         BackgroundNext, Adopt, AppStarts, AppEnds, Suspend, SilentOwner,
         HaltBegins
  <2> QED
    BY <1>2, <2>1 DEF PlayerType, NoPlayer
<1>6. EndedInv'
  <2>1. CASE player'.state = "ended"
    BY <1>5, <2>1, RingsLeft, StaysEnded
  <2>2. CASE player'.state # "ended"
    BY <2>2 DEF EndedInv
  <2> QED
    BY <2>1, <2>2
<1> QED
  BY <1>1, <1>4, <1>6, RingsLeft, SongsStay DEF SongInv

LEMMA HaltsSong ==
  ASSUME LeaseInv, LeaseInv', TaskInv, ShapeInv, SongInv, HaltFeed \/ HaltAck
  PROVE  SongInv'
<1>1. SameDecoder /\ UNCHANGED <<audio, done>>
  BY HaltsTask
<1>2. owner.pc # "idle"
  BY DEF HaltFeed, HaltAck
<1>3. player'.state = "ended" => player' = player
  <2>1. player' = player \/ Halted(sd) \/ \E d : Halted(d)
    BY DEF HaltFeed, HaltAck
  <2> QED
    BY <1>2, <2>1, HaltedShape
<1>4. EndedInv'
  <2>1. CASE player'.state = "ended"
    BY <1>3, <2>1, RingsLeft, StaysEnded
  <2>2. CASE player'.state # "ended"
    BY <2>2 DEF EndedInv
  <2> QED
    BY <2>1, <2>2
<1> QED
  BY <1>1, <1>4, RingsLeft, SongsStay DEF SongInv

LEMMA ServiceSong ==
  ASSUME LeaseInv, LeaseInv', TaskInv, ShapeInv, SongInv, Service
  PROVE  SongInv'
<1>1. SameDecoder /\ audio' = audio
  BY ServiceTask, ServiceSplits
<1>2. player \in PlayerType
  BY DEF LeaseInv
<1>3. done' = done \/ done' = [done EXCEPT !.seq = None]
  BY ServiceSplits DEF Completes, Enqueues, GivesUp, ServiceRests
<1>4. EndedInv'
  <2>1. CASE Completes
    <3> SUFFICES ASSUME player'.state = "ended"
                 PROVE  player'.s # None /\ SongOver(sess'[player'.s])
      BY DEF EndedInv
    <3>1. /\ done.ok /\ ~sess[player.s].faults
          /\ sess[player.s].terminal # "error" /\ player'.s = player.s
      BY <1>2, <2>1 DEF Completes, PlayerType
    <3>2. player.s = done.seq /\ player.s # None
      BY <2>1 DEF Completes, ShapeInv
    <3>3. Live(sess, player.s) /\ player.s \in Sessions
      BY <3>2 DEF LeaseInv, PlayerLive, Live
    <3>4. Live(sess', player.s)
      BY <3>1, <3>2 DEF LeaseInv, PlayerLive
    <3>5. SongOf(player.s)
      BY <3>3 DEF SongInv
    <3>6. PlayedOut(sess[player.s]) /\ Decoded(sess[player.s])
      BY <3>1, <3>2, <3>5 DEF SongOf, PlayedOut
    <3>7. SongOver(sess[player.s])
      BY <3>1, <3>5, <3>6 DEF SongOver, SongOf, FileEnded, Decoded
    <3> QED
      BY <3>1, <3>2, <3>3, <3>4, <3>7, RingsLeft, SongOverStays
  <2>2. CASE Enqueues
    BY <1>2, <2>2 DEF Enqueues, EndedInv, PlayerType
  <2>3. CASE GivesUp \/ ServiceRests
    <3>1. player'.state = player.state /\ player'.s = player.s
      BY <1>2, <2>3 DEF GivesUp, ServiceRests, HaltBegins, PlayerType
    <3>2. CASE player'.state = "ended"
      BY <3>1, <3>2, RingsLeft, StaysEnded
    <3>3. CASE player'.state # "ended"
      BY <3>3 DEF EndedInv
    <3> QED
      BY <3>2, <3>3
  <2> QED
    BY <2>1, <2>2, <2>3, ServiceSplits
<1> QED
  BY <1>1, <1>3, <1>4, RingsLeft, SongsStay DEF SongInv

LEMMA LaunchSong ==
  ASSUME LeaseInv, TaskInv, ShapeInv, SongInv, LaunchStep
  PROVE  SongInv'
<1>1. PICK s \in Sessions :
        /\ s = Used + 1 /\ s \notin Begun(sess)
        /\ \A r \in Sessions : r # s =>
             sess'[r] = IF r \in Reapable THEN Gone ELSE sess[r]
        /\ sess'[s] \in {Fresh} \cup Unplayed
  BY LaunchTask
<1>2. UNCHANGED <<audio, done>>
  BY DEF LaunchStep, audioVars
<1>3. \/ dec' = dec
      \/ /\ dec'.pc = "read" /\ dec'.s = s /\ dec'.held = FALSE
         /\ dec.pc = "off"
  <2>1. CASE Launches
    <3>1. [NoDecoder EXCEPT !.pc = "read", !.s = s].pc = "read"
          /\ [NoDecoder EXCEPT !.pc = "read", !.s = s].s = s
          /\ [NoDecoder EXCEPT !.pc = "read", !.s = s].held = FALSE
      BY DEF NoDecoder
    <3> QED
      BY <1>1, <2>1, <3>1 DEF Launches, TaskInv
  <2> QED
    BY <2>1 DEF LaunchStep, LaunchFails, decVars
<1>4. player'.state # "ended"
  <2>1. player \in PlayerType /\ player.state = "ready"
    BY DEF LeaseInv, LaunchStep, ShapeInv
  <2> QED
    BY <2>1 DEF LaunchStep, Launches, LaunchFails, PlayerType
<1>5. SongOf(s)'
  <2>1. /\ audio.pc # "idle" => audio.s # s
        /\ done.seq # s
        /\ dec.pc # "off" => dec.s # s
    BY <1>1, NoTask DEF TaskInv
  <2>2. /\ sess'[s].packets = Rewound /\ sess'[s].pcm = Rewound
    BY <1>1, SessionRecords
  <2>3. Rewound.filled = 0 /\ Rewound.drained = 0 /\ Rewound.eof = FALSE
    BY DEF Rewound
  <2> QED
    BY <1>2, <1>3, <2>1, <2>2, <2>3
       DEF SongOf, FileEnded, DecoderAt, Counted
<1>6. ASSUME NEW r \in Sessions, r # s, Live(sess', r) PROVE SongOf(r)'
  <2>1. sess'[r] = sess[r] /\ Live(sess, r)
    BY <1>1, <1>6, SessionRecords DEF Live
  <2>2. SongOf(r)
    BY <2>1 DEF SongInv
  <2> QED
    BY <1>2, <1>3, <1>6, <2>1, <2>2 DEF SongOf
<1> QED
  BY <1>4, <1>5, <1>6 DEF SongInv, EndedInv

LEMMA SongNext ==
  LeaseInv /\ TaskInv /\ ShapeInv /\ SongInv /\ [Next]_vars => SongInv'
<1> SUFFICES ASSUME LeaseInv, TaskInv, ShapeInv, SongInv, [Next]_vars
             PROVE  SongInv'
  OBVIOUS
<1>1. LeaseInv'
  BY LeaseNext
<1>2. CASE \E s \in Sessions : ReaderStep(s)
  BY <1>2, ReaderSong
<1>3. CASE DecoderStep \/ AudioStep \/ CodecFails
  BY <1>3, DecoderSong, AudioSong
<1>4. CASE NoLaunch
  <2>1. SameDecoder
    BY <1>4, ToldSame DEF NoLaunch, decVars, TaskInv
  <2>2. EndedInv'
    BY <1>4 DEF NoLaunch, NoPlayer, EndedInv
  <2> QED
    BY <1>4, <2>1, <2>2, RingsLeft, SongsStay DEF SongInv, NoLaunch, audioVars
<1>5. CASE OwnerStep
  <2>1. Looks \/ HaltFeed \/ HaltAck \/ Service \/ Play \/ BackgroundLaunch
    BY <1>5 DEF OwnerStep, OwnerWaits, Looks
  <2> QED
    BY <1>1, <1>4, <2>1, LooksSong, HaltsSong, ServiceSong, LaunchSplits,
       LaunchSong
<1>6. CASE CardPulled \/ UNCHANGED vars
  BY <1>6 DEF CardPulled, vars, decVars, audioVars, SongInv, SongOf, EndedInv
<1> QED
  BY <1>2, <1>3, <1>5, <1>6, NextSplits

LEMMA EndedPlayed == SongInv => EndedPlayedAll
BY DEF SongInv, EndedInv, SongOver, Decoded, PlayedOut, Empty, EndedPlayedAll

(* A task works on a session that was launched: mp3_sd_session_start()     *)
(* numbers it, and mp3_feed_start() and sound_stream_start() are given it; *)
(* a player that is ready has none.                                        *)
THEOREM TaskTheorem == Spec => [](TaskInv /\ ShapeInv)
BY TaskInit, TaskNext, LeaseTheorem, PTL DEF Spec

(* Whatever is paused, pulled, stopped, slow or late: a player that says   *)
(* "ended" has played its file to the last slot of both rings.             *)
THEOREM SongTheorem == Spec => []EndedPlayedAll
BY TaskTheorem, SongInit, SongNext, EndedPlayed, LeaseTheorem, PTL DEF Spec

-----------------------------------------------------------------------------
(* The rings and who may touch them.  The decoder is the last at a         *)
(* session's rings only while it has not been seen to stop.                *)
DecoderInv ==
  \A s \in Sessions :
    sess[s].decoder_stopped \/ sess[s].st = "freed" => ~DecoderIn(s)

LEMMA DecoderInit == Init => DecoderInv
BY NoTask, SessionRecords DEF Init, DecoderInv, DecoderIn

LEMMA DecoderNext ==
  LeaseInv /\ TaskInv /\ ShapeInv /\ DecoderInv /\ [Next]_vars => DecoderInv'
<1> SUFFICES ASSUME LeaseInv, TaskInv, ShapeInv, DecoderInv, [Next]_vars
             PROVE  DecoderInv'
  OBVIOUS
<1>1. ASSUME \A r \in Sessions : SameOwner(sess[r], sess'[r]),
             dec'.pc # "off" => dec.pc # "off" /\ dec'.s = dec.s
      PROVE  DecoderInv'
  BY <1>1 DEF DecoderInv, DecoderIn, SameOwner
<1>2. CASE \E s \in Sessions : ReaderStep(s)
  <2>1. PICK s \in Sessions : ReaderStep(s)
    BY <1>2
  <2>2. UNCHANGED dec
    BY <2>1 DEF ReaderStep, ReaderSignal, ReaderGot, ReaderEof, ReaderAck,
                ReaderOnly, decVars
  <2>3. \A r \in Sessions : SameOwner(sess[r], sess'[r])
    BY <2>1, ReaderTouches DEF SameOwner
  <2> QED
    BY <1>1, <2>2, <2>3
<1>3. CASE DecoderStep
  BY <1>1, <1>3, DecoderTouches, DecoderTask
<1>4. CASE AudioStep \/ CodecFails
  <2>1. UNCHANGED dec
    BY <1>4 DEF AudioStep, CodecFails, AudioTake, AudioClaim, AudioCheck,
                AudioBreak, AudioPlay, AudioLook, AudioTail, AudioPost,
                AudioOnly, decVars
  <2> QED
    BY <1>1, <1>4, <2>1, AudioTouches
<1>5. CASE Looks \/ NoLaunch \/ CardPulled \/ UNCHANGED vars
  <2>1. \A r \in Sessions : SameOwner(sess[r], sess'[r])
    BY <1>5, LooksKeep DEF Kept, SameOwner, NoLaunch, CardPulled, vars
  <2>2. dec'.pc = dec.pc /\ dec'.s = dec.s
    <3>1. dec \in DecType /\ dec.halt \in BOOLEAN /\ dec.parked \in BOOLEAN
      BY DEF TaskInv, DecType
    <3>2. \/ dec' = dec
          \/ \E h \in BOOLEAN, p \in BOOLEAN : dec' = Told(h, p)
      BY <1>5, <3>1 DEF Looks, HaltAudio, Resume, Pause, Close, Open,
           CardRead, RequestFolder, FolderChosen, FolderDeclined, FsPump,
           BackgroundStop, BackgroundNext, Adopt, AppStarts, AppEnds,
           Suspend, SilentOwner, HaltBegins, NoLaunch, CardPulled, vars,
           decVars
    <3> QED
      BY <3>1, <3>2, ToldDecoder
  <2> QED
    BY <1>1, <2>1, <2>2
<1>6. CASE HaltFeed
  <2>1. SameDecoder
    BY <1>6, HaltsTask
  <2>2. ~running => dec.pc = "off"
    BY DEF TaskInv
  <2> QED
    BY <1>6, <2>1, <2>2, HaltFeedTells
       DEF DecoderInv, DecoderIn, SameDecoder, Kept, Obeys, SameOwner
<1>7. CASE HaltAck
  <2>1. SameDecoder
    BY <1>7, HaltsTask
  <2>2. /\ sess[owner.s] \in AnySession /\ owner.s \in Sessions
        /\ \A r \in Sessions : r # owner.s => sess'[r] = sess[r]
        /\ sess'[owner.s] = IF Free(owner.s) THEN Gone
                            ELSE Quarantined(sess[owner.s])
    BY <1>7, HaltAckEnds DEF LeaseInv
  <2>3. /\ sess'[owner.s].decoder_stopped => sess[owner.s].decoder_stopped
        /\ sess'[owner.s].st = "freed" => sess[owner.s].decoder_stopped
    BY <2>2, SessionRecords, QuarantinedRecord DEF Free
  <2> QED
    BY <2>1, <2>2, <2>3 DEF DecoderInv, DecoderIn, SameDecoder
<1>8. CASE Service
  <2>1. SameDecoder
    BY <1>8, ServiceTask
  <2>2. \A r \in Sessions :
          sess'[r] = IF r \in Reapable THEN Gone ELSE sess[r]
    BY <1>8, ServiceReaps, DisposedSessions
  <2>3. \A r \in Reapable : ~DecoderIn(r)
    BY DEF Reapable, DecoderInv, TaskInv, DecoderIn
  <2> QED
    BY <2>1, <2>2, <2>3, SessionRecords DEF DecoderInv, DecoderIn, SameDecoder
<1>9. CASE LaunchStep
  <2>1. PICK s \in Sessions :
          /\ s = Used + 1 /\ s \notin Begun(sess)
          /\ \A r \in Sessions : r # s =>
               sess'[r] = IF r \in Reapable THEN Gone ELSE sess[r]
          /\ sess'[s] \in {Fresh} \cup Unplayed
    BY <1>9, LaunchTask
  <2>2. \/ dec' = dec /\ (dec.pc # "off" => dec.s # s)
        \/ dec'.s = s /\ dec.pc = "off" /\ sess'[s] = Fresh
    <3>1. CASE Launches
      <4>1. sess' = [Disposed(sess, Reapable) EXCEPT ![s] = Fresh]
        BY <2>1, <3>1 DEF Launches
      <4>2. sess'[s] = Fresh
        BY <4>1 DEF Disposed
      <4>3. dec'.s = s
        BY <2>1, <3>1 DEF Launches, NoDecoder
      <4> QED
        BY <3>1, <4>2, <4>3 DEF Launches, TaskInv
    <3>2. CASE LaunchFails
      BY <2>1, <3>2 DEF LaunchFails, decVars, TaskInv
    <3> QED
      BY <1>9, <3>1, <3>2 DEF LaunchStep
  <2>3. \A r \in Reapable : ~DecoderIn(r)
    BY DEF Reapable, DecoderInv, TaskInv, DecoderIn
  <2>4. ASSUME NEW r \in Sessions,
               sess'[r].decoder_stopped \/ sess'[r].st = "freed"
        PROVE  ~DecoderIn(r)'
    <3>1. CASE r = s
      BY <2>1, <2>2, <2>4, <3>1, SessionRecords DEF DecoderIn
    <3>2. CASE r # s
      <4>1. ~DecoderIn(r)
        BY <2>1, <2>3, <2>4, <3>2 DEF DecoderInv
      <4> QED
        BY <2>2, <3>2, <4>1 DEF DecoderIn
    <3> QED
      BY <3>1, <3>2
  <2> QED
    BY <2>4 DEF DecoderInv
<1>10. CASE OwnerStep
  <2>1. Looks \/ HaltFeed \/ HaltAck \/ Service \/ Play \/ BackgroundLaunch
    BY <1>10 DEF OwnerStep, OwnerWaits, Looks
  <2> QED
    BY <1>5, <1>6, <1>7, <1>8, <1>9, <2>1, LaunchSplits
<1> QED
  BY <1>2, <1>3, <1>4, <1>5, <1>10, NextSplits

(* The audio task.  There is one request at most, and a stop that is told  *)
(* that the task has left knows it has, or that it will be turned away.    *)
Waits(s) ==
  \/ \E i \in DOMAIN queue : queue[i] = s
  \/ audio.s = s /\ audio.pc \in {"claim", "check"}
Awaited == IF player.stream # None THEN player.stream ELSE stream_halt
Quiet(s) == ~AudioIn(s) /\ (Waits(s) => stream_halt = s)

QueueInv ==
  /\ Len(queue) <= 1
  /\ queue # <<>> => audio.pc \notin {"claim", "check"} /\ audio.s # queue[1]
  /\ audio.pc \in {"check", "play", "look", "tail"} => stream_active = audio.s
  /\ audio.pc = "idle" => audio.s = None
HaltInv ==
  /\ ~player.open => player.s = None
  /\ owner.pc \in {"audio", "feed", "ack"} /\ player.stream # None
       => stream_halt = player.stream
  /\ owner.pc = "audio" => player.stream = owner.s /\ owner.s # None
RingOf(s) ==
  /\ Waits(s) => s = Awaited
  /\ player.s = s /\ player.stream = None => ~Waits(s) /\ ~AudioIn(s)
  /\ player.s = s /\ player.priming =>
       player.stream = None /\ audio.s # s /\ done.seq # s
  /\ done.seq = s => ~Waits(s) /\ ~AudioIn(s)
  /\ owner.pc = "feed" /\ owner.audio /\ owner.s = s => Quiet(s)
  /\ sess[s].audio_stopped \/ sess[s].st = "freed" => Quiet(s)
  /\ sess[s].st = "live" /\ sess[s].audio_stopped =>
       owner.pc = "ack" /\ owner.s = s
RingInv == QueueInv /\ HaltInv /\ \A s \in Sessions : RingOf(s)

LEMMA RingInit == Init => RingInv
<1> SUFFICES ASSUME Init PROVE RingInv
  OBVIOUS
<1>1. queue = <<>> /\ audio.pc = "idle" /\ audio.s = None
  BY NoTask DEF Init
<1>2. QueueInv
  BY <1>1 DEF QueueInv
<1>3. HaltInv
  BY DEF Init, HaltInv, NoPlayer, Idle
<1>4. ASSUME NEW s \in Sessions PROVE RingOf(s)
  <2>1. ~Waits(s) /\ ~AudioIn(s) /\ s # None
    BY <1>1, NoTask DEF Waits, AudioIn
  <2>2. done.seq = None /\ player.s = None
    BY DEF Init, NoPlayer
  <2>3. owner.pc = "idle" /\ sess[s].st = "none"
        /\ sess[s].audio_stopped = FALSE
    BY DEF Init, Idle, NoSession
  <2> QED
    BY <2>1, <2>2, <2>3 DEF RingOf
<1> QED
  BY <1>2, <1>3, <1>4 DEF RingInv

(* What a step leaves of the stops that are under way.                     *)
Stopping(x, y) ==
  /\ y.audio_stopped \/ y.st = "freed" => x.audio_stopped \/ x.st = "freed"
  /\ y.st = "live" /\ y.audio_stopped => x.st = "live" /\ x.audio_stopped

LEMMA SameOwnerStops ==
  \A x, y : SameOwner(x, y) => Stopping(x, y)
BY DEF SameOwner, Stopping

LEMMA ReapStops ==
  ASSUME NEW r \in Sessions,
         sess'[r] = IF r \in Reapable THEN Gone ELSE sess[r]
  PROVE  Stopping(sess[r], sess'[r])
BY SessionRecords DEF Stopping, Reapable

LEMMA AckStops ==
  ASSUME LeaseInv, HaltAck
  PROVE  \A r \in Sessions : Stopping(sess[r], sess'[r])
<1>1. /\ sess[owner.s] \in AnySession /\ owner.s \in Sessions
      /\ \A r \in Sessions : r # owner.s => sess'[r] = sess[r]
      /\ sess'[owner.s] = IF Free(owner.s) THEN Gone
                          ELSE Quarantined(sess[owner.s])
  BY HaltAckEnds DEF LeaseInv
<1>2. CASE Free(owner.s)
  BY <1>1, <1>2, SessionRecords DEF Stopping, Free
<1>3. CASE ~Free(owner.s)
  BY <1>1, <1>3, QuarantinedRecord DEF Stopping
<1> QED
  BY <1>2, <1>3

(* The reader and the decoder see nothing of this.                         *)
LEMMA WorkersRing ==
  ASSUME RingInv, UNCHANGED <<queue, audio, stream_active, stream_halt, done,
                              player, owner>>,
         \A r \in Sessions : Stopping(sess[r], sess'[r])
  PROVE  RingInv'
BY DEF RingInv, QueueInv, HaltInv, RingOf, Waits, AudioIn, Awaited, Quiet,
       Stopping

(* The audio task.                                                         *)
LEMMA AudioRing ==
  ASSUME LeaseInv, TaskInv, RingInv, AudioStep \/ CodecFails
  PROVE  RingInv'
<1>1. UNCHANGED <<stream_halt, player, owner>>
  BY DEF AudioStep, CodecFails, AudioTake, AudioClaim, AudioCheck, AudioBreak,
         AudioPlay, AudioLook, AudioTail, AudioPost, AudioOnly
<1>2. \A r \in Sessions : Stopping(sess[r], sess'[r])
  BY AudioTouches, SameOwnerStops
<1>3. HaltInv'
  BY <1>1 DEF RingInv, HaltInv
<1>4. /\ audio \in AudioType /\ queue \in Seq(Sessions)
      /\ audio.pc # "idle" => audio.s \in Sessions
      /\ None \notin Sessions
  BY NoTask DEF TaskInv, Begun
<1>5. ASSUME \A s \in Sessions : Waits(s)' => Waits(s),
             \A s \in Sessions : AudioIn(s)' => AudioIn(s) \/ Waits(s),
             \A s \in Sessions : AudioIn(s)' => AudioIn(s) \/ stream_halt # s,
             audio'.s \in {audio.s, None}
               \/ \E s \in Sessions : audio'.s = s /\ Waits(s),
             done' = done
      PROVE  \A s \in Sessions : RingOf(s)'
  BY <1>1, <1>2, <1>4, <1>5 DEF RingInv, RingOf, Awaited, Quiet, Stopping
<1>6. CASE AudioTake
  <2>1. /\ queue # <<>> /\ queue' = Tail(queue) /\ done' = done
        /\ audio' = [NoAudio EXCEPT !.pc = "claim", !.s = Head(queue)]
        /\ audio.pc = "idle"
    BY <1>6 DEF AudioTake
  <2>2. Len(queue) = 1 /\ Head(queue) = queue[1] /\ queue' = <<>>
    <3>1. Len(queue) \in Nat /\ Len(queue) <= 1 /\ Len(queue) # 0
      BY <1>4, <2>1 DEF RingInv, QueueInv
    <3>2. queue \in Seq(Sessions) /\ queue # <<>>
      BY <1>4, <2>1
    <3>3. /\ Len(Tail(queue)) = Len(queue) - 1
          /\ Tail(queue) \in Seq(Sessions)
      BY <3>2, HeadTailProperties
    <3>4. Tail(queue) = <<>>
      BY <3>1, <3>3
    <3>5. Len(queue) = 1
      BY <3>1
    <3>6. Head(queue) = queue[1]
      BY <3>2
    <3> QED
      BY <2>1, <3>4, <3>5, <3>6
  <2>3. audio'.pc = "claim" /\ audio'.s = queue[1]
    BY <2>1, <2>2 DEF NoAudio
  <2>4. QueueInv'
    BY <2>2, <2>3 DEF QueueInv
  <2>5. queue[1] \in Sessions /\ Waits(queue[1])
    BY <1>4, <2>2 DEF Waits
  <2>6. \A s \in Sessions : (Waits(s)' => s = queue[1]) /\ ~AudioIn(s)'
    BY <2>2, <2>3 DEF Waits, AudioIn
  <2> QED
    BY <1>3, <1>5, <2>1, <2>3, <2>4, <2>5, <2>6 DEF RingInv
<1>7. CASE AudioPost
  <2>1. /\ audio.pc = "post" /\ audio' = NoAudio /\ queue' = queue
        /\ done' = IF player.stream = audio.s
                     THEN [seq |-> audio.s, ok |-> audio.completed] ELSE done
    BY <1>7 DEF AudioPost
  <2>2. audio'.pc = "idle" /\ audio'.s = None
    BY <2>1, NoTask
  <2>3. QueueInv'
    BY <1>4, <2>1, <2>2 DEF RingInv, QueueInv
  <2>4. \A s \in Sessions : (Waits(s)' => Waits(s)) /\ ~AudioIn(s)'
    BY <2>1, <2>2 DEF Waits, AudioIn
  <2>5. CASE player.stream # audio.s
    BY <1>3, <1>5, <2>1, <2>2, <2>3, <2>4, <2>5 DEF RingInv
  <2>6. CASE player.stream = audio.s
    <3>1. done'.seq = audio.s /\ audio.s \in Sessions
      BY <1>4, <2>1, <2>6
    <3>2. ~Waits(audio.s)
      <4>1. audio.pc \notin {"claim", "check"}
        BY <2>1
      <4>2. \A i \in DOMAIN queue : i = 1 /\ queue # <<>>
        BY <1>4 DEF RingInv, QueueInv
      <4> QED
        BY <4>1, <4>2 DEF RingInv, QueueInv, Waits
    <3>3. ASSUME NEW s \in Sessions PROVE RingOf(s)'
      <4>1. RingOf(s)
        BY DEF RingInv
      <4>2. Awaited' = Awaited
        BY <1>1 DEF Awaited
      <4>3. done'.seq = s => ~Waits(s)
        BY <3>1, <3>2
      <4>4. Quiet(s) => Quiet(s)'
        BY <1>1, <2>4 DEF Quiet
      <4>5. player.s = s /\ player.priming =>
              player.stream = None /\ audio'.s # s /\ done'.seq # s
        BY <1>4, <2>2, <2>6, <3>1, <4>1 DEF RingOf
      <4>6. (Waits(s)' => Waits(s)) /\ ~AudioIn(s)'
        BY <2>4
      <4>7. Stopping(sess[s], sess'[s])
        BY <1>2
      <4> QED
        BY <1>1, <4>1, <4>2, <4>3, <4>4, <4>5, <4>6, <4>7
           DEF RingOf, Stopping
    <3> QED
      BY <1>3, <2>3, <3>3 DEF RingInv
  <2> QED
    BY <2>5, <2>6
<1>8. CASE ~(AudioTake \/ AudioPost)
  <2>1. /\ audio.pc # "idle" /\ UNCHANGED <<queue, done>>
    BY <1>8 DEF AudioStep, CodecFails, AudioClaim, AudioCheck, AudioBreak,
                AudioPlay, AudioLook, AudioTail
  <2>2. /\ audio'.s = audio.s
        /\ \/ /\ audio.pc = "claim" /\ audio'.pc = "check"
              /\ stream_active' = audio.s
           \/ audio'.pc = "post"
           \/ /\ audio.pc = "check" /\ audio'.pc = "play"
              /\ stream_halt # audio.s /\ stream_active' = stream_active
           \/ /\ audio.pc \in {"play", "look", "tail"}
              /\ audio'.pc \in {"play", "look", "tail"}
              /\ stream_active' = stream_active
    <3>1. CASE AudioClaim \/ AudioCheck \/ AudioLook
      BY <1>4, <3>1 DEF AudioClaim, AudioCheck, AudioLook, Stopped, Stays,
                        AudioType
    <3>2. CASE AudioBreak \/ CodecFails
      BY <1>4, <3>2 DEF AudioBreak, CodecFails, Leaves, AudioType
    <3>3. CASE AudioPlay
      <4>1. /\ audio.pc = "play" /\ stream_active' = stream_active
            /\ \E pc \in {"play", "look"}, h \in BOOLEAN :
                 audio' = [audio EXCEPT !.pc = pc, !.held = h]
        BY <3>3 DEF AudioPlay, Stays
      <4> QED
        BY <1>4, <4>1 DEF AudioType
    <3>4. CASE AudioTail
      BY <1>4, <3>4 DEF AudioTail, Leaves, Stays, AudioType
    <3> QED
      BY <1>8, <3>1, <3>2, <3>3, <3>4 DEF AudioStep
  <2>3. QueueInv'
    BY <2>1, <2>2 DEF RingInv, QueueInv
  <2>4. ASSUME NEW s \in Sessions
        PROVE  /\ Waits(s)' => Waits(s)
               /\ AudioIn(s)' => AudioIn(s) \/ Waits(s)
               /\ AudioIn(s)' => AudioIn(s) \/ stream_halt # s
    BY <2>1, <2>2 DEF Waits, AudioIn
  <2> QED
    BY <1>3, <1>5, <2>1, <2>2, <2>3, <2>4 DEF RingInv
<1> QED
  BY <1>6, <1>7, <1>8

(* The owner task.                                                         *)
LEMMA SameAudio ==
  ASSUME UNCHANGED <<queue, audio>>
  PROVE  \A s \in Sessions : (Waits(s)' <=> Waits(s))
                             /\ (AudioIn(s)' <=> AudioIn(s))
BY DEF Waits, AudioIn

SamePlayer ==
  /\ player'.s = player.s /\ player'.stream = player.stream
  /\ player'.priming => player.priming
  /\ player'.open = player.open
SameQueue == UNCHANGED <<queue, audio, stream_active>>
FewerStops == \A r \in Sessions : Stopping(sess[r], sess'[r])

LEMMA StandsRing ==
  ASSUME RingInv, SameQueue, SamePlayer, FewerStops,
         UNCHANGED <<done, owner, stream_halt>>
  PROVE  RingInv'
<1>1. QueueInv' /\ HaltInv'
  BY DEF RingInv, QueueInv, HaltInv, SameQueue, SamePlayer
<1>2. ASSUME NEW s \in Sessions PROVE RingOf(s)'
  <2>1. RingOf(s) /\ Stopping(sess[s], sess'[s])
    BY DEF RingInv, FewerStops
  <2>2. (Waits(s)' <=> Waits(s)) /\ (AudioIn(s)' <=> AudioIn(s))
    BY SameAudio DEF SameQueue
  <2>3. Awaited' = Awaited /\ (Quiet(s)' <=> Quiet(s))
    BY <2>2 DEF SamePlayer, Awaited, Quiet
  <2> QED
    BY <2>1, <2>2, <2>3 DEF RingOf, SameQueue, SamePlayer, Stopping
<1> QED
  BY <1>1, <1>2 DEF RingInv

(* A stop begins: with the audio task if there is a stream.                *)
BeginsStop ==
  /\ owner'.s = player.s /\ owner'.audio
  /\ \/ /\ player.stream # None /\ stream_halt' = player.stream
        /\ owner'.pc = "audio"
     \/ /\ player.stream = None /\ stream_halt' = stream_halt
        /\ owner'.pc = "feed"

LEMMA BeginsRing ==
  ASSUME LeaseInv, ShapeInv, RingInv, SameQueue, SamePlayer, FewerStops,
         UNCHANGED done, owner.pc = "idle", BeginsStop
  PROVE  RingInv'
<1>1. QueueInv'
  BY DEF RingInv, QueueInv, SameQueue
<1>2. HaltInv'
  BY DEF RingInv, HaltInv, SamePlayer, BeginsStop, ShapeInv
<1>3. ASSUME NEW s \in Sessions PROVE RingOf(s)'
  <2>1. RingOf(s) /\ Stopping(sess[s], sess'[s]) /\ s # None
    BY NoTask DEF RingInv, FewerStops
  <2>2. (Waits(s)' <=> Waits(s)) /\ (AudioIn(s)' <=> AudioIn(s))
    BY SameAudio DEF SameQueue
  <2>3. Waits(s) => s = Awaited'
    BY <2>1 DEF SamePlayer, BeginsStop, RingOf, Awaited
  <2>4. Quiet(s) => Quiet(s)'
    BY <2>1, <2>2 DEF RingOf, Awaited, Quiet, BeginsStop
  <2>5. owner'.pc = "feed" /\ owner'.audio /\ owner'.s = s => Quiet(s)'
    BY <2>1, <2>2 DEF RingOf, Quiet, BeginsStop
  <2>6. ~(sess'[s].st = "live" /\ sess'[s].audio_stopped)
    BY <2>1 DEF RingOf, Stopping
  <2> QED
    BY <2>1, <2>2, <2>3, <2>4, <2>5, <2>6
       DEF RingOf, SameQueue, SamePlayer, Stopping
<1> QED
  BY <1>1, <1>2, <1>3 DEF RingInv

(* sound_stream_stop() comes back.                                         *)
LEMMA HaltAudioRing ==
  ASSUME LeaseInv, RingInv, HaltAudio
  PROVE  RingInv'
<1>1. /\ UNCHANGED <<queue, audio, stream_active, stream_halt, done, player,
                     sess>>
      /\ owner.pc = "audio"
      /\ owner' = [owner EXCEPT !.pc = "feed",
                                !.audio = stream_active # player.stream]
  BY DEF HaltAudio, OwnerOnly
<1>2. /\ owner'.pc = "feed" /\ owner'.s = owner.s
      /\ owner'.audio <=> stream_active # player.stream
  BY <1>1 DEF LeaseInv, OwnerType
<1>3. player.stream = owner.s /\ owner.s # None
      /\ stream_halt = player.stream
  BY <1>1 DEF RingInv, HaltInv
<1>4. QueueInv' /\ HaltInv'
  BY <1>1, <1>2, <1>3 DEF RingInv, QueueInv, HaltInv
<1>5. ASSUME NEW s \in Sessions PROVE RingOf(s)'
  <2>1. RingOf(s)
    BY DEF RingInv
  <2>2. (Waits(s)' <=> Waits(s)) /\ (AudioIn(s)' <=> AudioIn(s))
    BY <1>1, SameAudio
  <2>3. Awaited' = Awaited /\ (Quiet(s)' <=> Quiet(s))
    BY <1>1, <2>2 DEF Awaited, Quiet
  <2>4. owner'.audio /\ owner'.s = s => Quiet(s)
    BY <1>2, <1>3 DEF RingInv, QueueInv, Quiet, AudioIn
  <2> QED
    BY <1>1, <1>2, <1>3, <2>1, <2>2, <2>3, <2>4 DEF RingOf
<1> QED
  BY <1>4, <1>5 DEF RingInv

(* mp3_feed_stop() comes back: the session is told what has stopped.       *)
LEMMA TellsRing ==
  ASSUME LeaseInv, RingInv, HaltFeed, owner.s # None
  PROVE  RingInv'
<1>1. /\ UNCHANGED <<queue, audio, stream_active, stream_halt, done, player>>
      /\ owner.pc = "feed" /\ owner' = [owner EXCEPT !.pc = "ack"]
  BY DEF HaltFeed, SilentOwner, OwnerOnly
<1>2. owner'.pc = "ack" /\ owner'.s = owner.s
  BY <1>1 DEF LeaseInv, OwnerType
<1>3. QueueInv' /\ HaltInv'
  BY <1>1, <1>2 DEF RingInv, QueueInv, HaltInv
<1>4. ASSUME NEW s \in Sessions PROVE RingOf(s)'
  <2>1. RingOf(s)
    BY DEF RingInv
  <2>2. (Waits(s)' <=> Waits(s)) /\ (AudioIn(s)' <=> AudioIn(s))
    BY <1>1, SameAudio
  <2>3. Awaited' = Awaited /\ (Quiet(s)' <=> Quiet(s))
    BY <1>1, <2>2 DEF Awaited, Quiet
  <2>4. SameOwner(sess[s], sess'[s]) \/ (s = owner.s /\ Obeys(s))
    BY HaltFeedTells DEF Kept
  <2>5. sess'[s].audio_stopped \/ sess'[s].st = "freed" => Quiet(s)
    BY <1>1, <2>1, <2>4 DEF RingOf, SameOwner, Obeys
  <2>6. sess'[s].st = "live" /\ sess'[s].audio_stopped => s = owner.s
    BY <1>1, <2>1, <2>4 DEF RingOf, SameOwner
  <2> QED
    BY <1>1, <1>2, <2>1, <2>2, <2>3, <2>5, <2>6 DEF RingOf
<1> QED
  BY <1>3, <1>4 DEF RingInv

(* The stop is over.                                                       *)
LEMMA OverRing ==
  ASSUME LeaseInv, ShapeInv, RingInv, NEW d, Halted(d),
         owner.pc \in {"feed", "ack"}, SameQueue, FewerStops,
         UNCHANGED <<stream_halt, done>>,
         owner.pc = "ack" => ~Live(sess', owner.s)
  PROVE  RingInv'
<1>1. /\ player'.s = None /\ player'.stream = None
      /\ owner'.s = None /\ owner'.pc \in {"idle", "next", "feed"}
  BY HaltedShape
<1>2. QueueInv' /\ HaltInv'
  BY <1>1 DEF RingInv, QueueInv, HaltInv, SameQueue
<1>3. ASSUME NEW s \in Sessions PROVE RingOf(s)'
  <2>1. RingOf(s) /\ Stopping(sess[s], sess'[s]) /\ s # None
    BY NoTask DEF RingInv, FewerStops
  <2>2. (Waits(s)' <=> Waits(s)) /\ (AudioIn(s)' <=> AudioIn(s))
    BY SameAudio DEF SameQueue
  <2>3. Waits(s) => s = Awaited'
    BY <1>1, <2>1 DEF RingOf, Awaited, RingInv, HaltInv
  <2>4. Quiet(s)' <=> Quiet(s)
    BY <2>2 DEF Quiet
  <2>5. ~(sess'[s].st = "live" /\ sess'[s].audio_stopped)
    BY <2>1 DEF RingOf, Stopping, Live
  <2> QED
    BY <1>1, <2>1, <2>2, <2>3, <2>4, <2>5 DEF RingOf, Stopping
<1> QED
  BY <1>2, <1>3 DEF RingInv

LEMMA HaltsRing ==
  ASSUME LeaseInv, TaskInv, ShapeInv, RingInv, HaltFeed \/ HaltAck
  PROVE  RingInv'
<1>1. SameQueue /\ UNCHANGED <<done, stream_halt>>
  BY HaltsTask DEF HaltFeed, HaltAck, SilentOwner, SameQueue
<1>2. CASE HaltFeed /\ owner.s # None
  BY <1>2, TellsRing
<1>3. CASE HaltFeed /\ owner.s = None
  <2>1. Halted(sd) /\ sess' = sess /\ owner.pc = "feed"
    BY <1>3 DEF HaltFeed
  <2>2. FewerStops
    BY <2>1, SameOwnerStops, KeptItself DEF FewerStops, Kept
  <2> QED
    BY <1>1, <2>1, <2>2, OverRing
<1>4. CASE HaltAck
  <2>1. PICK d : Halted(d)
    BY <1>4 DEF HaltAck
  <2>2. ~Live(sess', owner.s) /\ owner.pc = "ack" /\ FewerStops
    BY <1>4, HaltFreesNothingElse, AckStops DEF HaltAck, FewerStops
  <2> QED
    BY <1>1, <2>1, <2>2, OverRing
<1> QED
  BY <1>2, <1>3, <1>4

(* The completion of a launch ends the player's stream.                    *)
LEMMA CompletesRing ==
  ASSUME LeaseInv, TaskInv, ShapeInv, RingInv, Completes, SameQueue,
         FewerStops, owner.pc = "idle"
  PROVE  RingInv'
<1>1. /\ player'.s = player.s /\ player'.stream = None
      /\ player'.priming = player.priming /\ player'.open = player.open
      /\ player.stream = player.s /\ player.s # None /\ done.seq = player.s
      /\ UNCHANGED <<owner, stream_halt>>
  BY DEF Completes, LeaseInv, PlayerType, ShapeInv
<1>2. done'.seq = None
  BY DEF Completes, TaskInv, DoneType
<1>3. QueueInv' /\ HaltInv'
  BY <1>1 DEF RingInv, QueueInv, HaltInv, SameQueue
<1>4. ASSUME NEW s \in Sessions PROVE RingOf(s)'
  <2>1. RingOf(s) /\ Stopping(sess[s], sess'[s]) /\ s # None
    BY NoTask DEF RingInv, FewerStops
  <2>2. (Waits(s)' <=> Waits(s)) /\ (AudioIn(s)' <=> AudioIn(s))
    BY SameAudio DEF SameQueue
  <2>3. ~Waits(s)
    BY <1>1, <2>1 DEF RingOf, Awaited
  <2>4. player.s = s => ~AudioIn(s) /\ ~player.priming
    BY <1>1, <2>1 DEF RingOf
  <2>5. Quiet(s)' <=> Quiet(s)
    BY <1>1, <2>2 DEF Quiet
  <2> QED
    BY <1>1, <1>2, <2>1, <2>2, <2>3, <2>4, <2>5 DEF RingOf, Stopping
<1> QED
  BY <1>3, <1>4 DEF RingInv

(* sound_stream_start(): here no other sound may keep a request waiting.   *)
LEMMA EnqueuesRing ==
  ASSUME Prompt, LeaseInv, ShapeInv, RingInv, Enqueues, FewerStops,
         UNCHANGED <<audio, stream_active>>, owner.pc = "idle"
  PROVE  RingInv'
<1>1. /\ player'.s = player.s /\ player'.stream = player.s
      /\ player'.priming = FALSE /\ player'.open = player.open
      /\ player.s # None /\ player.s \in Sessions /\ player.priming
      /\ Live(sess, player.s)
      /\ UNCHANGED <<owner, stream_halt, done>>
  BY DEF Enqueues, LeaseInv, PlayerType, PlayerLive
<1>2. /\ queue = <<>> /\ queue' = <<player.s>>
      /\ audio.pc \notin {"claim", "check"}
  BY DEF Enqueues, AudioPrompt
<1>3. player.stream = None /\ audio.s # player.s /\ done.seq # player.s
  BY <1>1 DEF RingInv, RingOf
<1>4. QueueInv'
  BY <1>2, <1>3 DEF RingInv, QueueInv
<1>5. HaltInv'
  BY <1>1 DEF RingInv, HaltInv
<1>6. ASSUME NEW s \in Sessions PROVE RingOf(s)'
  <2>1. RingOf(s) /\ Stopping(sess[s], sess'[s]) /\ s # None
    BY NoTask DEF RingInv, FewerStops
  <2>2. (Waits(s)' => s = player.s) /\ (AudioIn(s)' <=> AudioIn(s))
    BY <1>2 DEF Waits, AudioIn
  <2>3. s # player.s => (Quiet(s) => Quiet(s)')
    BY <1>1, <2>2 DEF Quiet
  <2>4. s = player.s =>
          ~(sess'[s].audio_stopped \/ sess'[s].st = "freed")
    BY <1>1, <2>1 DEF RingOf, Stopping, Live
  <2>5. Awaited' = player.s
    BY <1>1 DEF Awaited
  <2> QED
    BY <1>1, <1>3, <2>1, <2>2, <2>3, <2>4, <2>5 DEF RingOf, Stopping
<1> QED
  BY <1>4, <1>5, <1>6 DEF RingInv

LEMMA BeginsAs ==
  ASSUME ShapeInv, NEW p \in PlayerType, NEW why \in Whys \ {"busy", "bgbusy"},
         HaltBegins(p, why), dec \in DecType,
         p.s = player.s, p.stream = player.stream, p.state = player.state,
         p.open = player.open, p.priming => player.priming
  PROVE  SamePlayer /\ BeginsStop
<1>1. player'.open = player.open
  BY DEF HaltBegins, PlayerType
<1>2. /\ player'.s = p.s /\ player'.stream = p.stream
      /\ owner'.s = p.s /\ owner'.audio
      /\ \/ /\ player'.priming = p.priming
            /\ p.stream # None /\ stream_halt' = p.stream
            /\ owner'.pc = "audio"
         \/ /\ ~player'.priming
            /\ p.stream = None /\ stream_halt' = stream_halt
            /\ owner'.pc = "feed"
  BY HaltBeginsShape DEF ShapeInv
<1> QED
  BY <1>1, <1>2 DEF SamePlayer, BeginsStop

LEMMA ServiceRing ==
  ASSUME Prompt, LeaseInv, TaskInv, ShapeInv, RingInv, Service
  PROVE  RingInv'
<1>1. /\ owner.pc = "idle" /\ UNCHANGED <<running, audio, stream_active>>
      /\ Completes \/ Enqueues \/ GivesUp \/ ServiceRests
  BY ServiceSplits
<1>2. FewerStops
  <2>1. \A r \in Sessions :
          sess'[r] = IF r \in Reapable THEN Gone ELSE sess[r]
    BY ServiceReaps, DisposedSessions
  <2> QED
    BY <2>1, ReapStops DEF FewerStops
<1>3. CASE Completes
  BY <1>1, <1>2, <1>3, CompletesRing DEF SameQueue, Completes
<1>4. CASE Enqueues
  BY <1>1, <1>2, <1>4, EnqueuesRing
<1>5. CASE GivesUp
  <2> DEFINE p == [player EXCEPT !.priming = FALSE]
  <2>1. /\ player \in PlayerType /\ p \in PlayerType /\ p.s = player.s
        /\ p.stream = player.stream /\ p.state = player.state
        /\ p.open = player.open /\ p.priming = FALSE
    BY DEF LeaseInv, PlayerType
  <2> HIDE DEF p
  <2>2. PICK q \in {player, p} : HaltBegins(q, "error")
    BY <1>5 DEF GivesUp, p
  <2>3. SamePlayer /\ BeginsStop
    <3>1. "error" \in Whys \ {"busy", "bgbusy"} /\ dec \in DecType
      BY DEF Whys, TaskInv
    <3> QED
      BY <2>1, <2>2, <3>1, BeginsAs
  <2> QED
    BY <1>1, <1>2, <1>5, <2>3, BeginsRing DEF GivesUp, SameQueue
<1>6. CASE ServiceRests
  <2>1. SamePlayer /\ SameQueue
    BY <1>1, <1>6 DEF ServiceRests, SamePlayer, SameQueue
  <2> QED
    BY <1>2, <1>6, <2>1, StandsRing DEF ServiceRests
<1> QED
  BY <1>1, <1>3, <1>4, <1>5, <1>6

LEMMA LooksRing ==
  ASSUME LeaseInv, TaskInv, ShapeInv, RingInv, Looks
  PROVE  RingInv'
<1>1. SameQueue /\ UNCHANGED done
  BY DEF Looks, HaltAudio, Resume, Pause, Close, Open, CardRead,
         RequestFolder, FolderChosen, FolderDeclined, FsPump, BackgroundStop,
         BackgroundNext, Adopt, AppStarts, AppEnds, Suspend, SilentOwner,
         OwnerOnly, audioVars, SameQueue
<1>2. FewerStops
  BY LooksKeep, SameOwnerStops DEF FewerStops, Kept
<1>3. player \in PlayerType
  BY DEF LeaseInv
<1>4. CASE HaltAudio
  BY <1>4, HaltAudioRing
<1>5. CASE \E why \in Whys \ {"busy", "bgbusy"} :
             HaltBegins(player, why) /\ owner.pc = "idle"
  <2>1. SamePlayer /\ BeginsStop
    BY <1>3, <1>5, BeginsAs DEF TaskInv
  <2> QED
    BY <1>1, <1>2, <1>5, <2>1, BeginsRing
<1>6. CASE Open
  <2>1. CASE player' = [NoPlayer EXCEPT !.open = TRUE]
    <3>1. /\ player'.s = None /\ player'.stream = None /\ player'.open
          /\ ~player'.priming
      BY <2>1 DEF NoPlayer
    <3>2. player.s = None /\ player.stream = None
      BY <1>6 DEF Open, RingInv, HaltInv, ShapeInv
    <3>3. UNCHANGED <<owner, stream_halt>>
      BY <1>6 DEF Open, SilentOwner
    <3>4. QueueInv' /\ HaltInv'
      BY <1>1, <3>1, <3>2, <3>3 DEF RingInv, QueueInv, HaltInv, SameQueue
    <3>5. ASSUME NEW s \in Sessions PROVE RingOf(s)'
      <4>1. RingOf(s) /\ Stopping(sess[s], sess'[s]) /\ s # None
        BY <1>2, NoTask DEF RingInv, FewerStops
      <4>2. (Waits(s)' <=> Waits(s)) /\ (AudioIn(s)' <=> AudioIn(s))
        BY <1>1, SameAudio DEF SameQueue
      <4>3. Awaited' = Awaited /\ (Quiet(s)' <=> Quiet(s))
        BY <3>1, <3>2, <3>3, <4>2 DEF Awaited, Quiet
      <4> QED
        BY <1>1, <3>1, <3>3, <4>1, <4>2, <4>3 DEF RingOf, Stopping
    <3> QED
      BY <3>4, <3>5 DEF RingInv
  <2>2. CASE player' = player
    <3>1. SamePlayer /\ UNCHANGED <<owner, stream_halt>>
      BY <1>6, <2>2 DEF SamePlayer, Open, SilentOwner
    <3> QED
      BY <1>1, <1>2, <3>1, StandsRing
  <2> QED
    BY <1>6, <2>1, <2>2 DEF Open
<1>7. CASE Resume \/ Pause \/ Adopt
  <2>1. /\ UNCHANGED <<owner, stream_halt>>
        /\ \/ \E st \in {"playing", "paused"} :
                player' = [player EXCEPT !.state = st]
           \/ player' = [player EXCEPT !.bg = FALSE]
    BY <1>7 DEF Resume, Pause, Adopt, SilentOwner
  <2>2. SamePlayer
    BY <1>3, <2>1 DEF SamePlayer, PlayerType
  <2> QED
    BY <1>1, <1>2, <2>1, <2>2, StandsRing
<1>8. CASE Close \/ BackgroundStop \/ BackgroundNext
  BY <1>5, <1>8
     DEF Close, BackgroundStop, BackgroundNext, InApp, OwnerIdle, Whys
<1>9. CASE CardRead \/ RequestFolder \/ FolderChosen \/ FolderDeclined
           \/ FsPump \/ \E kind \in {"app", "overlay"} : AppStarts(kind)
  <2>1. UNCHANGED <<owner, stream_halt, player>>
    BY <1>9 DEF CardRead, RequestFolder, FolderChosen, FolderDeclined, FsPump,
                AppStarts, SilentOwner, audioVars
  <2>2. SamePlayer
    BY <2>1 DEF SamePlayer
  <2> QED
    BY <1>1, <1>2, <2>1, <2>2, StandsRing
<1>10. CASE AppEnds \/ Suspend
  <2>1. \/ HaltBegins(player, "reset") /\ owner.pc = "idle"
        \/ HaltBegins(player, "suspend") /\ owner.pc = "idle"
        \/ /\ UNCHANGED <<owner, stream_halt>>
           /\ \E b : player' = [player EXCEPT !.bg = b]
        \/ UNCHANGED <<owner, stream_halt, player>>
    BY <1>10 DEF AppEnds, Suspend, InApp, OwnerIdle
  <2>2. CASE UNCHANGED <<owner, stream_halt>>
             /\ \/ \E b : player' = [player EXCEPT !.bg = b]
                \/ player' = player
    <3>1. SamePlayer
      BY <1>3, <2>2 DEF SamePlayer, PlayerType
    <3> QED
      BY <1>1, <1>2, <2>2, <3>1, StandsRing
  <2> QED
    BY <1>5, <2>1, <2>2 DEF Whys
<1> QED
  BY <1>4, <1>6, <1>7, <1>8, <1>9, <1>10 DEF Looks

LEMMA LaunchRing ==
  ASSUME LeaseInv, TaskInv, ShapeInv, RingInv, LaunchStep
  PROVE  RingInv'
<1>1. PICK s \in Sessions :
        /\ s = Used + 1 /\ s \notin Begun(sess)
        /\ \A r \in Sessions : r # s =>
             sess'[r] = IF r \in Reapable THEN Gone ELSE sess[r]
        /\ sess'[s] \in {Fresh} \cup Unplayed
  BY LaunchTask
<1>2. /\ UNCHANGED <<queue, audio, stream_active, stream_halt, done>>
      /\ player.s = None /\ player.stream = None /\ player.state = "ready"
      /\ player \in PlayerType
  BY DEF LaunchStep, audioVars, ShapeInv, LeaseInv
<1>3. /\ player'.stream = None
      /\ \/ /\ player'.s = s /\ player'.open /\ owner'.pc = "idle"
            /\ sess'[s] = Fresh
         \/ /\ player'.s = None /\ owner'.pc = "ack" /\ owner'.s = s
  <2>1. CASE Launches
    <3>1. sess' = [Disposed(sess, Reapable) EXCEPT ![s] = Fresh]
      BY <1>1, <2>1 DEF Launches
    <3>2. sess'[s] = Fresh
      BY <3>1 DEF Disposed
    <3>3. owner'.pc = "idle"
      BY <2>1 DEF Launches, Idle
    <3>4. player'.stream = None /\ player'.s = s /\ player'.open
      BY <1>1, <1>2, <2>1 DEF Launches, PlayerType
    <3> QED
      BY <3>2, <3>3, <3>4
  <2>2. CASE LaunchFails
    BY <1>1, <1>2, <2>2 DEF LaunchFails, PlayerType
  <2> QED
    BY <2>1, <2>2 DEF LaunchStep
<1>4. QueueInv' /\ HaltInv'
  BY <1>2, <1>3 DEF RingInv, QueueInv, HaltInv
<1>5. \A r \in Sessions : (Waits(r)' <=> Waits(r))
                          /\ (AudioIn(r)' <=> AudioIn(r))
  BY <1>2, SameAudio
<1>6. ~Waits(s) /\ ~AudioIn(s) /\ audio.s # s /\ done.seq # s /\ s # None
  <2>1. audio.s # s /\ done.seq # s /\ s # None
    BY <1>1, NoTask DEF TaskInv, RingInv, QueueInv
  <2>2. \A i \in DOMAIN queue : queue[i] \in Begun(sess)
    BY DEF TaskInv
  <2> QED
    BY <1>1, <2>1, <2>2 DEF Waits, AudioIn
<1>7. ASSUME NEW r \in Sessions PROVE RingOf(r)'
  <2>1. RingOf(r) /\ Awaited' = Awaited /\ (Quiet(r)' <=> Quiet(r))
    BY <1>2, <1>3, <1>5 DEF RingInv, Awaited, Quiet
  <2>2. CASE r = s
    BY <1>1, <1>2, <1>3, <1>5, <1>6, <2>1, <2>2, SessionRecords
       DEF RingOf, Quiet
  <2>3. CASE r # s
    <3>1. Stopping(sess[r], sess'[r])
      BY <1>1, <2>3, ReapStops
    <3>2. ~(sess[r].st = "live" /\ sess[r].audio_stopped)
      <4>1. owner.pc # "ack"
        BY DEF LaunchStep
      <4> QED
        BY <2>1, <4>1 DEF RingOf
    <3> QED
      BY <1>2, <1>3, <1>5, <2>1, <2>3, <3>1, <3>2, NoTask
         DEF RingOf, Stopping
  <2> QED
    BY <2>2, <2>3
<1> QED
  BY <1>4, <1>7 DEF RingInv

LEMMA RingNext ==
  ASSUME Prompt
  PROVE  LeaseInv /\ TaskInv /\ ShapeInv /\ RingInv /\ [Next]_vars => RingInv'
<1> SUFFICES ASSUME LeaseInv, TaskInv, ShapeInv, RingInv, [Next]_vars
             PROVE  RingInv'
  OBVIOUS
<1>1. CASE (\E s \in Sessions : ReaderStep(s)) \/ DecoderStep
  <2>1. UNCHANGED <<queue, audio, stream_active, stream_halt, done, player,
                    owner>>
    BY <1>1 DEF ReaderStep, ReaderSignal, ReaderGot, ReaderEof, ReaderAck,
         ReaderOnly, DecoderStep, DecRead, DecLook, DecTail, DecDecode,
         DecFlush, DecEof, DecOut, DecoderOnly, audioVars
  <2>2. \A r \in Sessions : SameOwner(sess[r], sess'[r])
    BY <1>1, ReaderTouches, DecoderTouches DEF SameOwner
  <2> QED
    BY <2>1, <2>2, SameOwnerStops, WorkersRing
<1>2. CASE AudioStep \/ CodecFails
  BY <1>2, AudioRing
<1>3. CASE NoLaunch
  <2>1. /\ player'.s = None /\ player'.stream = None /\ ~player'.priming
        /\ owner'.pc = "idle" /\ player.stream = None /\ sess' = sess
        /\ UNCHANGED <<queue, audio, stream_active, stream_halt, done>>
    BY <1>3 DEF NoLaunch, NoPlayer, Idle, ShapeInv, audioVars
  <2>2. QueueInv' /\ HaltInv'
    BY <2>1 DEF RingInv, QueueInv, HaltInv
  <2>3. ASSUME NEW s \in Sessions PROVE RingOf(s)'
    <3>1. RingOf(s) /\ s # None
      BY NoTask DEF RingInv
    <3>2. (Waits(s)' <=> Waits(s)) /\ (AudioIn(s)' <=> AudioIn(s))
      BY <2>1, SameAudio
    <3>3. Awaited' = Awaited /\ (Quiet(s)' <=> Quiet(s))
      BY <2>1, <3>2 DEF Awaited, Quiet
    <3>4. owner.pc = "next"
      BY <1>3 DEF NoLaunch
    <3> QED
      BY <2>1, <3>1, <3>2, <3>3, <3>4 DEF RingOf
  <2> QED
    BY <2>2, <2>3 DEF RingInv
<1>4. CASE OwnerStep
  <2>1. Looks \/ HaltFeed \/ HaltAck \/ Service \/ Play \/ BackgroundLaunch
    BY <1>4 DEF OwnerStep, OwnerWaits, Looks
  <2> QED
    BY <1>3, <2>1, LooksRing, HaltsRing, ServiceRing, LaunchSplits, LaunchRing
<1>5. CASE CardPulled \/ UNCHANGED vars
  <2>1. UNCHANGED <<queue, audio, stream_active, stream_halt, done, player,
                    owner, sess>>
    BY <1>5 DEF CardPulled, vars, audioVars
  <2>2. \A r \in Sessions : Stopping(sess[r], sess'[r])
    BY <2>1 DEF Stopping
  <2> QED
    BY <2>1, <2>2, WorkersRing
<1> QED
  BY <1>1, <1>2, <1>4, <1>5, NextSplits

LEMMA RingsHeld ==
  ASSUME DecoderInv, RingInv PROVE RingsAreHeld
BY DEF DecoderInv, RingInv, RingOf, Quiet, RingsAreHeld

(* With no other sound ahead of a stream in the audio task's queue, the    *)
(* handshakes of a stop are enough: no session's memory is freed while the *)
(* decoder or the audio task may still touch its rings.                    *)
THEOREM RingsTheorem ==
  ASSUME Prompt
  PROVE  Spec => []RingsAreHeld
<1>1. Init => DecoderInv /\ RingInv
  BY DecoderInit, RingInit
<1>2. LeaseInv /\ TaskInv /\ ShapeInv /\ DecoderInv /\ RingInv
        /\ [Next]_vars => (DecoderInv /\ RingInv)'
  BY DecoderNext, RingNext
<1>3. DecoderInv /\ RingInv => RingsAreHeld
  BY RingsHeld
<1> QED
  BY <1>1, <1>2, <1>3, TaskTheorem, LeaseTheorem, PTL DEF Spec
=============================================================================
