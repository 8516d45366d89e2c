---------------------------- MODULE InputChannel ----------------------------
(***************************************************************************)
(* The pad on its way to the server: Engine::set_pad, send_gamepad and the *)
(* "input" channel's sequence numbers (src/src/net/engine.cpp,             *)
(* src/src/gnx/xcloud_protocol.cpp).                                       *)
(*                                                                         *)
(* The input thread publishes the latest pad state; the worker, between    *)
(* two batches of packets, serialises it under the next sequence number    *)
(* and hands it to SCTP, which accepts it or has no room.  The channel is  *)
(* reliable and ordered, so what SCTP accepts is what the server sees: it  *)
(* stops applying input at the first gap.                                  *)
(*                                                                         *)
(* A tick stands for 8 ms and more; a stamp of the code is an age or the   *)
(* time left.  Sequence numbers are counted modulo Serial (2^32).          *)
(***************************************************************************)
EXTENDS Integers

CONSTANTS
    Frames,        \* the pad states worth telling apart
    None,
    Serial,        \* sequence numbers wrap here
    Room,          \* frames SCTP's send buffer takes before it refuses
    Backoff,       \* after a refusal (100 ms)
    Heartbeat,     \* an unchanged pad is sent again after this (250 ms)
    Second,        \* between two looks of the dead-channel detector
    DeadSeconds    \* of them in a row before a reconnect (3)

ASSUME InputAssumption ==
    /\ None \notin Frames
    /\ Serial \in Nat \ {0, 1} /\ Room \in Nat \ {0}
    /\ Backoff \in Nat \ {0} /\ Heartbeat \in Nat \ {0} /\ Second \in Nat \ {0}
    /\ DeadSeconds \in Nat \ {0}
    /\ None \notin 0 .. Heartbeat

VARIABLES
    frame,       \* pad_frame_, None while pad_valid_ is false
    sequence,    \* InputSerializer::sequence_
    lastPad,     \* last_pad_
    sentAge,     \* since last_pad_send_ (saturates; None: never)
    dirty,       \* pad_dirty_
    backoff,     \* ticks left of input_backoff_until_
    pc,          \* the worker's loop: "pump", "pad" or "stats"
    link,        \* peer_state_: "new", "connected", "closed"
    handshake,   \* handshake_done_
    room,        \* what SCTP's send buffer still takes
    wedged,      \* the association died: nothing drains any more
    presenter,   \* the presenter holds peer_mutex_ (request_keyframe)
    sent, failed,        \* input_sent_ and input_send_fail_ are not zero
    statsAge, deadSeconds,
    wire,        \* history: the last number SCTP accepted
    kept,        \* history: numbers lost since, to refused handshake sends
    server       \* history: the last pad state this transport accepted

padVars == <<lastPad, sentAge, dirty, backoff>>
linkVars == <<link, handshake, room, wedged>>
statVars == <<sent, failed, statsAge, deadSeconds>>
wireVars == <<sequence, wire, kept, server>>
vars == <<frame, pc, presenter, padVars, linkVars, statVars, wireVars>>

Succ(n) == (n + 1) % Serial
Pred(n) == (n + Serial - 1) % Serial
Older(age, limit) == IF age = None \/ age = limit THEN age ELSE age + 1

Init ==
    /\ frame = None
    /\ sequence = 0 /\ wire = 0 /\ kept = 0 /\ server = None
    /\ lastPad = None /\ sentAge = None /\ dirty = TRUE /\ backoff = 0
    /\ pc = "pump" /\ presenter = FALSE
    /\ link = "new" /\ handshake = FALSE /\ room = Room /\ wedged = FALSE
    /\ sent = FALSE /\ failed = FALSE /\ statsAge = 0 /\ deadSeconds = 0

TypeOK ==
    /\ frame \in Frames \cup {None} /\ lastPad \in Frames \cup {None}
    /\ server \in Frames \cup {None}
    /\ sequence \in 0 .. Serial - 1 /\ wire \in 0 .. Serial - 1 /\ kept \in 0 .. Serial - 1
    /\ sentAge \in {None} \cup 0 .. Heartbeat /\ dirty \in BOOLEAN
    /\ backoff \in 0 .. Backoff
    /\ pc \in {"pump", "pad", "stats"} /\ presenter \in BOOLEAN
    /\ link \in {"new", "connected", "closed"} /\ handshake \in BOOLEAN
    /\ room \in 0 .. Room /\ wedged \in BOOLEAN
    /\ sent \in BOOLEAN /\ failed \in BOOLEAN
    /\ statsAge \in 0 .. Second /\ deadSeconds \in 0 .. DeadSeconds - 1

-----------------------------------------------------------------------------
(* The input thread, the presenter, the clock and the network. *)

SetPad ==
    /\ \E f \in Frames \ {frame} : frame' = f
    /\ UNCHANGED <<pc, presenter, padVars, linkVars, statVars, wireVars>>

PresenterLocks ==
    /\ pc = "pump" /\ ~presenter
    /\ presenter' = TRUE
    /\ UNCHANGED <<frame, pc, padVars, linkVars, statVars, wireVars>>

PresenterUnlocks ==
    /\ pc = "pump" /\ presenter
    /\ presenter' = FALSE
    /\ UNCHANGED <<frame, pc, padVars, linkVars, statVars, wireVars>>

(* The worker reads the clock once, at the top of its loop. *)
Tick ==
    /\ pc = "pump"
    /\ sentAge' = Older(sentAge, Heartbeat)
    /\ statsAge' = Older(statsAge, Second)
    /\ backoff' = IF backoff = 0 THEN 0 ELSE backoff - 1
    /\ UNCHANGED <<frame, pc, presenter, lastPad, dirty, linkVars, sent, failed, deadSeconds,
                   wireVars>>

Drain ==
    /\ ~wedged /\ link = "connected" /\ room < Room
    /\ room' = room + 1
    /\ UNCHANGED <<frame, pc, presenter, padVars, link, handshake, wedged, statVars, wireVars>>

Wedge ==
    /\ link = "connected" /\ ~wedged
    /\ wedged' = TRUE /\ room' = 0
    /\ UNCHANGED <<frame, pc, presenter, padVars, link, handshake, statVars, wireVars>>

-----------------------------------------------------------------------------
(* The worker, in peer_connection_loop(): the transport comes up, the       *)
(* server acknowledges the handshake, the peer closes.                      *)

Connect ==
    /\ pc = "pump" /\ link = "new"
    /\ link' = "connected"
    /\ UNCHANGED <<frame, pc, presenter, padVars, handshake, room, wedged, statVars, wireVars>>

(* client_metadata() takes a number whether or not SCTP takes the packet;   *)
(* nothing looks at the result.                                             *)
HandshakeAck ==
    /\ pc = "pump" /\ link = "connected" /\ ~handshake
    /\ handshake' = TRUE
    /\ sequence' = Succ(sequence)
    /\ IF room > 0
       THEN wire' = sequence' /\ kept' = 0 /\ room' = room - 1
       ELSE kept' = Succ(kept) /\ UNCHANGED <<wire, room>>
    /\ UNCHANGED <<frame, pc, presenter, padVars, link, wedged, statVars, server>>

PeerCloses ==
    /\ pc = "pump" /\ link = "connected"
    /\ link' = "closed"
    /\ UNCHANGED <<frame, pc, presenter, padVars, handshake, room, wedged, statVars, wireVars>>

Pumped ==
    /\ pc = "pump"
    /\ pc' = "pad"
    /\ UNCHANGED <<frame, presenter, padVars, linkVars, statVars, wireVars>>

-----------------------------------------------------------------------------
(* The worker, in send_gamepad(). *)

MaySend == frame # None /\ handshake /\ link = "connected"

(* Idle suppression. *)
Unchanged ==
    ~dirty /\ frame = lastPad /\ sentAge # None /\ sentAge < Heartbeat

(* Mutant: a skipped attempt starts the back-off again. *)
PadSkippedAgain ==
    /\ pc = "pad" /\ (~MaySend \/ backoff > 0 \/ Unchanged)
    /\ pc' = "stats"
    /\ backoff' = IF backoff > 0 THEN Backoff ELSE 0
    /\ UNCHANGED <<frame, presenter, lastPad, sentAge, dirty, linkVars, statVars, wireVars>>

PadSkipped ==
    /\ pc = "pad" /\ (~MaySend \/ backoff > 0 \/ Unchanged)
    /\ pc' = "stats"
    /\ UNCHANGED <<frame, presenter, padVars, linkVars, statVars, wireVars>>

Attempted == pc = "pad" /\ MaySend /\ backoff = 0 /\ ~Unchanged

(* Eight milliseconds on peer_mutex_ and the frame is dropped. *)
PadDropped ==
    /\ Attempted /\ presenter
    /\ pc' = "stats"
    /\ UNCHANGED <<frame, presenter, padVars, linkVars, statVars, wireVars>>

GamepadPacket(s) == [number |-> Succ(s), pad |-> frame]

PadSent ==
    /\ Attempted /\ ~presenter /\ room > 0
    /\ LET packet == GamepadPacket(sequence)
       IN  sequence' = packet.number /\ wire' = packet.number /\ server' = packet.pad
    /\ kept' = 0
    /\ room' = room - 1
    /\ sent' = TRUE
    /\ lastPad' = frame /\ sentAge' = 0 /\ dirty' = FALSE /\ backoff' = 0
    /\ pc' = "stats"
    /\ UNCHANGED <<frame, presenter, link, handshake, wedged, failed, statsAge, deadSeconds>>

(* Mutant: the number of a refused packet is not given back. *)
RollbackNothing(s) == s

RollbackSequence(s) == Pred(s)

(* SCTP has no room: the number goes back. *)
PadRefused ==
    /\ Attempted /\ ~presenter /\ room = 0
    /\ sequence' = RollbackSequence(GamepadPacket(sequence).number)
    /\ failed' = TRUE
    /\ backoff' = Backoff
    /\ pc' = "stats"
    /\ UNCHANGED <<frame, presenter, lastPad, sentAge, dirty, linkVars, sent, statsAge,
                   deadSeconds, wire, kept, server>>

-----------------------------------------------------------------------------
(* The worker, once a second: the dead-channel detector. *)

SecondNotOver ==
    /\ pc = "stats" /\ link # "closed" /\ statsAge < Second
    /\ pc' = "pump"
    /\ UNCHANGED <<frame, presenter, padVars, linkVars, statVars, wireVars>>

DeadSecond == ~sent /\ failed

(* Mutant: the count of dead seconds is reset every second. *)
SecondOverForgets ==
    /\ pc = "stats" /\ link # "closed" /\ statsAge = Second
    /\ deadSeconds' = 0
    /\ statsAge' = 0 /\ sent' = FALSE /\ failed' = FALSE
    /\ pc' = "pump"
    /\ UNCHANGED <<frame, presenter, padVars, linkVars, wireVars>>

(* Mutant: one dead second too many before the reconnect. *)
SecondOverOneMore ==
    /\ pc = "stats" /\ link # "closed" /\ statsAge = Second
    /\ deadSeconds' = IF DeadSecond THEN deadSeconds + 1 ELSE 0
    /\ statsAge' = 0 /\ sent' = FALSE /\ failed' = FALSE
    /\ pc' = "pump"
    /\ UNCHANGED <<frame, presenter, padVars, linkVars, wireVars>>

SecondOver ==
    /\ pc = "stats" /\ link # "closed" /\ statsAge = Second
    /\ ~(DeadSecond /\ deadSeconds + 1 = DeadSeconds)
    /\ deadSeconds' = IF DeadSecond THEN deadSeconds + 1 ELSE 0
    /\ statsAge' = 0 /\ sent' = FALSE /\ failed' = FALSE
    /\ pc' = "pump"
    /\ UNCHANGED <<frame, presenter, padVars, linkVars, wireVars>>

(* rearm_for_resume() and the next run_peer(): the serialiser, the snapshot *)
(* and the back-off outlive the transport.                                  *)
Rearm ==
    /\ link' = "new" /\ handshake' = FALSE /\ room' = Room /\ wedged' = FALSE
    /\ dirty' = TRUE /\ server' = None
    /\ sent' = FALSE /\ failed' = FALSE /\ statsAge' = 0 /\ deadSeconds' = 0
    /\ pc' = "pump"
    /\ UNCHANGED <<frame, presenter, lastPad, sentAge, backoff, sequence, wire, kept>>

ChannelDead ==
    /\ pc = "stats" /\ link # "closed" /\ statsAge = Second
    /\ DeadSecond /\ deadSeconds + 1 = DeadSeconds
    /\ Rearm

PeerGone ==
    /\ pc = "stats" /\ link = "closed"
    /\ Rearm

Send == PadSkipped \/ PadDropped \/ PadSent \/ PadRefused
Stats == SecondNotOver \/ SecondOver \/ ChannelDead \/ PeerGone
Pump == Connect \/ HandshakeAck \/ PeerCloses \/ Pumped
Others == SetPad \/ PresenterLocks \/ PresenterUnlocks \/ Tick \/ Drain \/ Wedge

Next == Send \/ Stats \/ Pump \/ Others

Spec == Init /\ [][Next]_vars

(* The worker loops, time passes, a live association drains, the server     *)
(* answers the handshake; and the presenter, which holds the mutex for a    *)
(* moment once in a while, does not meet every attempt of the worker's.     *)
Fairness ==
    /\ WF_vars(Send) /\ WF_vars(Pumped) /\ WF_vars(Stats)
    /\ SF_vars(Tick) /\ WF_vars(Drain)
    /\ SF_vars(PresenterUnlocks) /\ SF_vars(Pumped /\ ~presenter /\ backoff = 0)
    /\ SF_vars(Connect) /\ SF_vars(HandshakeAck)

LiveSpec == Spec /\ Fairness

-----------------------------------------------------------------------------
(* Properties. *)

(* The numbers SCTP has accepted are consecutive, across refusals, dropped  *)
(* frames, resumes and the wrap, but for those of refused handshake sends   *)
(* (engine.cpp:732).                                                        *)
NoGapButHandshake == sequence = (wire + kept) % Serial

(* A pad state the player holds reaches the server, in spite of idle        *)
(* suppression, back-off, dropped frames and resumes, unless the            *)
(* association dies or the transport goes.                                  *)
PadArrives ==
    \A f \in Frames :
        frame = f ~> \/ server = f \/ frame # f
                     \/ wedged \/ link # "connected"

(* An association that no longer drains is noticed, as long as there is a   *)
(* pad to send: three seconds with refusals only, and the transport is      *)
(* replaced.                                                                *)
DeadChannelNoticed ==
    ~<>[](wedged /\ MaySend /\ ~presenter)

=============================================================================
