----------------------------- MODULE AudioPath -----------------------------
(***************************************************************************)
(* Sound from the RTP packet to the card: Engine::on_audio                 *)
(* (src/src/net/engine.cpp), the AudioPlayer's inbox and thread            *)
(* (src/src/media/audio_player.cpp) and the AudioJitterBuffer              *)
(* (src/src/media/audio_jitter.cpp).                                       *)
(*                                                                         *)
(* The network may lose, delay and repeat packets; a resume changes the    *)
(* RTP source, whose numbers start anywhere.  A tick is half a packet of   *)
(* sound, and ring and card are counted in ticks of sound.  What a packet  *)
(* sounds like is left out, and so are the volume and the drift servo's    *)
(* single samples.                                                         *)
(***************************************************************************)
EXTENDS Integers, Sequences, FiniteSets, SequencesExt

CONSTANTS
    None,
    Serial,       \* RTP sequence numbers wrap here (2^16)
    Reorder,      \* how far back a delayed or repeated packet may lie
    Starts,       \* where a source's numbers may start
    MaxEpoch,     \* bound: sources within a run
    InboxCap,     \* kMaxInbox
    MaxWait,      \* kMaxWaitMs
    MaxLate,      \* kMaxLate
    FillCap,      \* packets concealed for a gap (10)
    Packet,       \* ticks of sound in a packet
    MaxLatency, TrimTo,   \* kMaxLatencyMs, kTrimToMs
    CardSize,     \* alsa_buffer_
    RingBound     \* bound: a card that stays lost is left at this much sound

AudioAssumption ==
    /\ Serial \in Nat \ {0, 1} /\ Reorder \in Nat /\ Starts \subseteq 0 .. Serial - 1
    /\ MaxEpoch \in Nat /\ InboxCap \in Nat \ {0} /\ MaxWait \in Nat \ {0}
    /\ MaxLate \in Nat \ {0} /\ FillCap \in Nat /\ Packet \in Nat \ {0}
    /\ CardSize \in Nat \ {0, 1} /\ TrimTo \in Nat /\ MaxLatency \in Nat
    /\ MaxLatency >= TrimTo + Packet
    /\ None \notin 0 .. Serial - 1

VARIABLES
    running,    \* running_
    resync,     \* resync_requested_
    source,     \* the number of the next packet the server sends
    past,       \* how many were sent before it (counted up to Reorder)
    epoch,      \* which source this is
    inbox,      \* inbox_: packets with their age
    batch,      \* what the audio thread has taken from it
    pc,         \* the audio thread: "wait" or "taken"
    pending,    \* pending_ of the reorder buffer: a set, no number twice
    next,       \* next_seq_, None before have_next_
    ring,       \* ring_: decoded sound the card had no room for
    card,       \* sound queued in the card
    state,      \* of the PCM: "prepared", "playing" or "xrun"
    of,         \* history: the source next_seq_ was taken from
    skew,       \* history: packets of sound the last turn made, decoded and
                \* concealed, less the numbers it went through
    raced       \* history: the last resync was asked for between a turn's
                \* take and its look at the flag, with packets queued since

netVars == <<source, past, epoch>>
orderVars == <<pending, next, of>>
cardVars == <<ring, card, state>>
vars == <<running, resync, inbox, batch, pc, skew, raced, netVars, orderVars, cardVars>>

Packets == [seq : 0 .. Serial - 1, age : 0 .. MaxWait, of : 0 .. MaxEpoch]

(* RFC 1982. *)
Distance(a, b) == (a - b) % Serial
Before(a, b) == Distance(a, b) >= Serial \div 2

StartAt == CHOOSE n \in {3 * Packet, CardSize \div 2} :
               n <= 3 * Packet /\ n <= CardSize \div 2

TypeOK ==
    /\ running \in BOOLEAN /\ resync \in BOOLEAN
    /\ source \in 0 .. Serial - 1 /\ past \in 0 .. Reorder /\ epoch \in 0 .. MaxEpoch
    /\ inbox \in Seq(Packets) /\ Len(inbox) <= InboxCap
    /\ batch \in Seq(Packets) /\ Len(batch) <= InboxCap
    /\ pc \in {"wait", "taken"}
    /\ pending \subseteq Packets /\ next \in 0 .. Serial - 1 \cup {None}
    /\ of \in 0 .. MaxEpoch
    /\ \A p, q \in pending : p.seq = q.seq => p = q
    /\ ring \in Nat /\ card \in 0 .. CardSize
    /\ state \in {"prepared", "playing", "xrun"}
    /\ skew \in Int /\ raced \in BOOLEAN

Init ==
    /\ running = FALSE /\ resync = FALSE
    /\ source \in Starts /\ past = 0 /\ epoch = 0
    /\ inbox = <<>> /\ batch = <<>> /\ pc = "wait"
    /\ pending = {} /\ next = None /\ of = 0
    /\ ring = 0 /\ card = 0 /\ state = "prepared" /\ skew = 0 /\ raced = FALSE

-----------------------------------------------------------------------------
(* The engine: the player's life, the RTP source, the worker's packets. *)

(* ALSA opens and configures a device, or refuses it.                        *)
OpenPcm == BOOLEAN

(* The card itself, or "default" when that is taken.                         *)
OpenAlsa == {direct \/ shared : direct, shared \in OpenPcm}

OpenDecoder == BOOLEAN

(* start(): init() opens the card and the decoder, or goes without sound.   *)
Open ==
    /\ ~running
    /\ \E card0 \in OpenAlsa, decoder \in OpenDecoder : running' = (card0 /\ decoder)
    /\ resync' = FALSE
    /\ inbox' = <<>> /\ batch' = <<>> /\ pc' = "wait"
    /\ pending' = {} /\ next' = None /\ of' = epoch
    /\ ring' = 0 /\ card' = 0 /\ state' = "prepared" /\ skew' = 0
    /\ raced' = FALSE
    /\ UNCHANGED netVars

(* stop(): shutdown() joins the thread; init() clears the rest.  The next    *)
(* session is another source.                                               *)
Shutdown ==
    /\ running /\ pc = "wait" /\ epoch < MaxEpoch
    /\ running' = FALSE
    /\ inbox' = <<>>
    /\ epoch' = epoch + 1 /\ source' \in Starts /\ past' = 0
    /\ UNCHANGED <<resync, batch, pc, skew, raced, orderVars, cardVars>>

(* rearm_for_resume(): resync() and a new RTP source. *)
Resume ==
    /\ running /\ epoch < MaxEpoch
    /\ resync' = TRUE
    /\ raced' = (pc = "taken" /\ inbox # <<>>)
    /\ epoch' = epoch + 1 /\ source' \in Starts /\ past' = 0
    /\ UNCHANGED <<running, inbox, batch, pc, skew, orderVars, cardVars>>

Queued(q, p) == Append(IF Len(q) >= InboxCap THEN Tail(q) ELSE q, p)

(* on_audio() and submit(): the server's next packet, or, from further back, *)
(* a delayed or a repeated one.                                              *)
Submit(back) ==
    /\ back <= past
    /\ source' = IF back = 0 THEN (source + 1) % Serial ELSE source
    /\ past' = IF back = 0 /\ past < Reorder THEN past + 1 ELSE past
    /\ inbox' = IF running
                THEN Queued(inbox, [seq |-> (source - back) % Serial, age |-> 0, of |-> epoch])
                ELSE inbox
    /\ UNCHANGED <<running, resync, epoch, batch, pc, skew, raced, orderVars, cardVars>>

Lose ==
    /\ source' = (source + 1) % Serial
    /\ past' = IF past < Reorder THEN past + 1 ELSE past
    /\ UNCHANGED <<running, resync, epoch, inbox, batch, pc, skew, raced, orderVars, cardVars>>

(* No outage lasts half the number space (11 minutes).                      *)
InReach ==
    LET InHand == ToSet(inbox) \cup ToSet(batch) \cup pending
    IN  /\ \A p \in InHand : p.of = epoch => Distance(source + 1, p.seq) < Serial \div 2
        /\ next # None /\ of = epoch => Distance(source + 1, next) < Serial \div 2

Network == InReach /\ (Lose \/ \E back \in 0 .. Reorder : Submit(back))

-----------------------------------------------------------------------------
(* The audio thread. *)

Take ==
    /\ running /\ pc = "wait"
    /\ pc' = "taken"
    /\ batch' = inbox /\ inbox' = <<>>
    /\ UNCHANGED <<running, resync, skew, raced, netVars, orderVars, cardVars>>

(* Mutant: the turn that starts over goes on with what it had taken. *)
StartOverGoesOn ==
    /\ pc = "taken" /\ resync
    /\ resync' = FALSE
    /\ pending' = {} /\ next' = None /\ of' = epoch
    /\ ring' = 0 /\ card' = 0 /\ state' = "prepared" /\ skew' = 0
    /\ UNCHANGED <<running, inbox, batch, pc, raced, netVars>>

(* The player starts over: what was taken belongs to the old source.        *)
StartOver ==
    /\ pc = "taken" /\ resync
    /\ resync' = FALSE /\ pc' = "wait"
    /\ batch' = <<>>
    /\ pending' = {} /\ next' = None /\ of' = epoch
    /\ ring' = 0 /\ card' = 0 /\ state' = "prepared" /\ skew' = 0
    /\ UNCHANGED <<running, inbox, raced, netVars>>

(* push(), one packet after the other. *)
Push(b, p) ==
    LET first == IF b.next = None THEN [b EXCEPT !.next = p.seq, !.of = p.of] ELSE b
    IN  IF Before(p.seq, first.next) \/ \E q \in b.pending : q.seq = p.seq
        THEN first
        ELSE [first EXCEPT !.pending = @ \cup {p}]

PushedUpTo[n \in 0 .. Len(batch)] ==
    IF n = 0 THEN [pending |-> pending, next |-> next, of |-> of]
             ELSE Push(PushedUpTo[n - 1], batch[n])

Pushed == PushedUpTo[Len(batch)]

(* pop() gives the next number up for lost. *)
GivesUp(q) == (\E p \in q : p.age >= MaxWait) \/ Cardinality(q) >= MaxLate

Earliest(q) ==
    CHOOSE s \in {p.seq : p \in q} : \A p \in q : ~Before(p.seq, s)

Least(m, n) == IF m <= n THEN m ELSE n

(* Packets of sound made up for that many lost ones. *)
Concealed(lost) == Least(lost, FillCap)

(* Mutant: the losses already concealed are concealed again. *)
PopForgets(b) ==
    LET here == \E p \in b.pending : p.seq = b.next
        seq == IF here THEN b.next ELSE Earliest(b.pending)
        lost == b.lost + Distance(seq, b.next)
    IN  IF b.pending = {} \/ ~(here \/ GivesUp(b.pending)) THEN b
        ELSE [b EXCEPT !.pending = {p \in @ : p.seq # seq},
                       !.next = (seq + 1) % Serial,
                       !.lost = lost,
                       !.capped = @ \/ lost - b.lost > FillCap,
                       !.made = @ + 1 + Concealed(lost - b.filled),
                       !.popped = @ + 1]

(* A turn of thread_main()'s loop around pop(): a packet leaves, and what    *)
(* lost() has grown by since the last one is concealed first.                *)
Pop(b) ==
    LET here == \E p \in b.pending : p.seq = b.next
        seq == IF here THEN b.next ELSE Earliest(b.pending)
        lost == b.lost + Distance(seq, b.next)
    IN  IF b.pending = {} \/ ~(here \/ GivesUp(b.pending)) THEN b
        ELSE [b EXCEPT !.pending = {p \in @ : p.seq # seq},
                       !.next = (seq + 1) % Serial,
                       !.lost = lost, !.filled = lost,
                       !.capped = @ \/ lost - b.filled > FillCap,
                       !.made = @ + 1 + Concealed(lost - b.filled),
                       !.popped = @ + 1]

Popping == [pending |-> Pushed.pending, next |-> Pushed.next,
            lost |-> 0, filled |-> 0, capped |-> FALSE, made |-> 0, popped |-> 0]

PoppedUpTo[n \in 0 .. Cardinality(Pushed.pending)] ==
    IF n = 0 THEN Popping ELSE Pop(PoppedUpTo[n - 1])

Popped == PoppedUpTo[Cardinality(Pushed.pending)]

Skew(b) == IF b.popped = 0 \/ b.capped THEN 0 ELSE b.made - Distance(b.next, Pushed.next)

(* feed()'s trim, of whole packets off the ring. *)
Trimmed(sound) ==
    IF sound + card > MaxLatency
    THEN sound - Packet * Least((sound + card - TrimTo) \div Packet, sound \div Packet)
    ELSE sound

(* feed(): an underrun is recovered from, or the card stays lost; what fits  *)
(* is written, or the write fails and nothing is consumed.                   *)
Lost(sound) ==
    /\ state = "xrun"
    /\ sound <= RingBound
    /\ ring' = sound
    /\ UNCHANGED <<card, state>>

Written(sound) ==
    LET left == Trimmed(sound)
        want == Least(left, CardSize - card)
    IN  \E wrote \in {0, want} :
            /\ ring' = left - wrote
            /\ card' = card + wrote
            /\ state' = IF card' >= StartAt THEN "playing"
                        ELSE IF state = "xrun" THEN "prepared" ELSE state

Feed(sound) == Lost(sound) \/ Written(sound)

(* A packet the decoder refuses is no sound at all; the extremes stand for   *)
(* what lies between them.                                                   *)
Decoded(packets) == {0, packets}

(* The rest of the turn: push, pop, decode, feed.                            *)
Play ==
    /\ pc = "taken" /\ ~resync
    /\ pc' = "wait" /\ batch' = <<>>
    /\ pending' = Popped.pending /\ next' = Popped.next /\ of' = Pushed.of
    /\ skew' = Skew(Popped)
    /\ \E n \in Decoded(Popped.popped) :
           Feed(ring + Packet * (Popped.made - Popped.popped + n))
    /\ UNCHANGED <<running, resync, inbox, raced, netVars>>

-----------------------------------------------------------------------------
(* Time: packets grow older and the card plays. *)
Aged(p) == [p EXCEPT !.age = Least(@ + 1, MaxWait)]
Older(q) == [i \in DOMAIN q |-> Aged(q[i])]

Tick ==
    /\ inbox' = Older(inbox) /\ batch' = Older(batch)
    /\ pending' = {Aged(p) : p \in pending}
    /\ card' = IF state = "playing" THEN card - 1 ELSE card
    /\ state' = IF state = "playing" /\ card' = 0 THEN "xrun" ELSE state
    /\ UNCHANGED <<running, resync, pc, skew, raced, netVars, next, of, ring>>

Next ==
    \/ Open \/ Shutdown \/ Resume \/ Network
    \/ Take \/ StartOver \/ Play \/ Tick

Spec == Init /\ [][Next]_vars

-----------------------------------------------------------------------------
(* Properties. *)

(* Sound stays in its place: a turn decodes or conceals exactly one packet   *)
(* of sound for every number it moves past, however the numbers arrived,     *)
(* unless a gap was too long to fill.                                        *)
SoundInPlace == skew = 0

(* After a reconnect the reorder buffer waits for the new source: no packet  *)
(* of the old one, taken or queued when the resync was asked for, can make   *)
(* it turn the whole new stream away as late.  The exception is a resync     *)
(* asked for inside the audio thread's turn: it clears what the turn took,   *)
(* and what was queued since is taken for the new source's.                  *)
NewStreamHeard ==
    running /\ ~resync /\ pc = "wait" /\ next # None /\ ~raced => of = epoch

(* What is queued for the ear is bounded, however the network bunches its    *)
(* packets, unless the card stays lost.                                      *)
LatencyBounded == state = "xrun" \/ ring + card < MaxLatency + Packet
=============================================================================
