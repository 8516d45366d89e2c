---------------------------- MODULE VideoJitter ----------------------------
(***************************************************************************)
(* VideoJitterBuffer (src/src/media/video_jitter.{hpp,cpp}): RTP packets   *)
(* are gathered into frames kept in timestamp order; complete frames are   *)
(* emitted to the decoder, a frame that stays incomplete longer than the   *)
(* hold is given up, and after any loss only an IDR re-opens the stream.   *)
(*                                                                         *)
(* receive() runs on the network thread alone.  Its drain loop is cut into *)
(* one action per iteration, and pc = "drain" lets nothing else happen     *)
(* before the loop breaks.  The network is an environment: every packet of *)
(* the stream may arrive at any time, any number of times, or never.       *)
(*                                                                         *)
(* Times are ages: the code only ever uses now_ms - first_seen_ms, and     *)
(* compares it with two limits, so an age saturates just past the longer.  *)
(* Sequence tracking and receiver reports (the first half of receive())    *)
(* touch none of this state and are left out.                              *)
(***************************************************************************)
EXTENDS Integers, Sequences, FiniteSets

CONSTANTS
    Packets,    \* the packets of the stream: records, see Packet below
    TsMod,      \* timestamps count modulo TsMod (2^32 in the code)
    SeqMod,     \* sequence numbers count modulo SeqMod (2^16 in the code)
    RenackMs,   \* kRenackMs: age past which the missing packets are re-requested
    HoldMs,     \* kHoldMs: age past which an incomplete frame is given up
    MaxFrames,  \* kMaxFrames: frames the buffer may hold
    None        \* the empty optional last_ts_

Packet == [seq : 0 .. SeqMod - 1, ts : 0 .. TsMod - 1,
           head : BOOLEAN, marker : BOOLEAN, idr : BOOLEAN, padding : BOOLEAN]

Stamps == {p.ts : p \in Packets}

(* RFC 1982: a is newer than b if it is less than half the circle ahead. *)
TsNewer(a, b) ==
    LET d == (a - b) % TsMod
    IN  d # 0 /\ d < TsMod \div 2

Ages == 0 .. HoldMs + 1
Frame == [ts : Stamps, age : Ages, renacked : BOOLEAN, packets : SUBSET Packets]
AccessUnit == [ts : Stamps, idr : BOOLEAN, packets : SUBSET Packets]

ASSUME ConstantsAssumption ==
    /\ TsMod \in Nat \ {0} /\ SeqMod \in Nat \ {0}
    /\ Packets \subseteq Packet
    /\ RenackMs \in Nat /\ HoldMs \in Nat /\ RenackMs <= HoldMs
    /\ MaxFrames \in Nat \ {0}
    /\ None \notin Stamps

(* The stamps alive at one time span less than half the circle (6.6 hours  *)
(* of a 90 kHz clock), so serial comparison orders them linearly.          *)
ASSUME StampsAssumption ==
    /\ \A a, b \in Stamps : a # b => TsNewer(a, b) \/ TsNewer(b, a)
    /\ \A a, b, c \in Stamps : TsNewer(a, b) /\ TsNewer(b, c) => TsNewer(a, c)

(* Two packets of a frame have different numbers: a frame has far fewer     *)
(* than 2^16 packets.                                                       *)
ASSUME NumbersAssumption ==
    \A p, q \in Packets : ~p.padding /\ ~q.padding /\ p.ts = q.ts /\ p.seq = q.seq => p = q

VARIABLES
    frames,           \* frames_: pending frames
    lastTs,           \* last_ts_: newest timestamp emitted, discarded or given up
    waitingKeyframe,  \* waiting_keyframe_: everything but an IDR is discarded
    wantKeyframe,     \* *want_keyframe of the current or latest receive() call
    pc,               \* "idle", or "drain" inside the loop of receive()
    emitted,          \* history: access units emitted since the last reset()
    skipped,          \* history: timestamps popped without being emitted
    orderly           \* history: no frame was opened ahead of an earlier one

vars == <<frames, lastTs, waitingKeyframe, wantKeyframe, pc, emitted, skipped,
          orderly>>

-----------------------------------------------------------------------------
(* Mutant: the gap test is missing. *)
AssemblableWithGaps(f) ==
    (\E m \in f.packets : m.marker) /\ (\E h \in f.packets : h.head)

(* A frame can be assembled when it has its marker, its packets run without *)
(* a hole up to the marker, and the lowest of them starts a partition.      *)
Assemblable(f) ==
    \E m \in f.packets :
        LET Before(p) == (m.seq - p.seq) % SeqMod
        IN  /\ m.marker
            /\ {Before(p) : p \in f.packets} = 0 .. Cardinality(f.packets) - 1
            /\ \E h \in f.packets :
                  h.head /\ Before(h) = Cardinality(f.packets) - 1

HasKeyframe(f) == \E p \in f.packets : p.idr

(* find_or_create(): the frame of a timestamp, or where to insert a new one. *)
HasFrame(ts) == \E i \in DOMAIN frames : frames[i].ts = ts

(* Mutant: an off-by-one in the capacity test. *)
AcceptableOneTooMany(ts) ==
    /\ lastTs # None => TsNewer(ts, lastTs)
    /\ Len(frames) <= MaxFrames

Acceptable(ts) ==
    /\ lastTs # None => TsNewer(ts, lastTs)
    /\ Len(frames) < MaxFrames

(* The loop stops before the first frame that the new one is not newer than. *)
InsertionPoint(at, ts) ==
    /\ \A j \in 1 .. at - 1 : TsNewer(ts, frames[j].ts)
    /\ at <= Len(frames) => ~TsNewer(ts, frames[at].ts)

NewFrame(p) == [ts |-> p.ts, age |-> 0, renacked |-> FALSE, packets |-> {p}]

(* Mutant: new frames go to the back, as if packets never arrived reordered. *)
InsertFrameAtBack(at, p) == Append(frames, NewFrame(p))

InsertFrame(at, p) ==
    [i \in 1 .. Len(frames) + 1 |->
        IF i < at THEN frames[i] ELSE IF i = at THEN NewFrame(p) ELSE frames[i - 1]]

AddPacket(i, p) == [frames EXCEPT ![i].packets = @ \cup {p}]

(* History only: a packet of the frame was accepted, or its time has passed. *)
Seen(t) == HasFrame(t) \/ (lastTs # None /\ ~TsNewer(t, lastTs))

Has(f, p) == \E q \in f.packets : q.seq = p.seq

-----------------------------------------------------------------------------
Init ==
    /\ frames = <<>>
    /\ lastTs = None
    /\ waitingKeyframe = TRUE
    /\ wantKeyframe = FALSE
    /\ pc = "idle"
    /\ emitted = <<>>
    /\ skipped = {}
    /\ orderly = TRUE

(* receive() of a packet that returns early: padding, a frame too old or    *)
(* one too many, or a packet the buffer already has.                        *)
IgnorePacket(p) ==
    /\ pc = "idle"
    /\ \/ p.padding
       \/ ~HasFrame(p.ts) /\ ~Acceptable(p.ts)
       \/ \E i \in DOMAIN frames : frames[i].ts = p.ts /\ Has(frames[i], p)
    /\ wantKeyframe' = FALSE
    /\ UNCHANGED <<frames, lastTs, waitingKeyframe, pc, emitted, skipped, orderly>>

(* receive() of a packet that opens a frame ... *)
OpenFrame(p) ==
    /\ pc = "idle"
    /\ ~p.padding
    /\ ~HasFrame(p.ts)
    /\ Acceptable(p.ts)
    /\ \E at \in 1 .. Len(frames) + 1 :
          /\ InsertionPoint(at, p.ts)
          /\ frames' = InsertFrame(at, p)
    /\ pc' = "drain"
    /\ wantKeyframe' = FALSE
    /\ orderly' = (orderly /\ \A t \in Stamps : TsNewer(p.ts, t) => Seen(t))
    /\ UNCHANGED <<lastTs, waitingKeyframe, emitted, skipped>>

(* ... or joins one; either way the drain loop runs next. *)
JoinFrame(p) ==
    /\ pc = "idle"
    /\ ~p.padding
    /\ \E i \in DOMAIN frames :
          /\ frames[i].ts = p.ts
          /\ ~Has(frames[i], p)
          /\ frames' = AddPacket(i, p)
    /\ pc' = "drain"
    /\ wantKeyframe' = FALSE
    /\ UNCHANGED <<lastTs, waitingKeyframe, emitted, skipped, orderly>>

-----------------------------------------------------------------------------
(* One iteration of the drain loop each. *)
Draining == pc = "drain" /\ frames # <<>>

Front == Head(frames)

PopFront ==
    /\ lastTs' = Front.ts
    /\ frames' = Tail(frames)

(* Mutant: the loop breaks after an emitted frame instead of looking again. *)
EmitFrontAndBreak ==
    /\ Draining
    /\ Assemblable(Front)
    /\ waitingKeyframe => HasKeyframe(Front)
    /\ PopFront
    /\ waitingKeyframe' = FALSE
    /\ emitted' = Append(emitted, [ts |-> Front.ts, idr |-> HasKeyframe(Front),
                                   packets |-> Front.packets])
    /\ pc' = "idle"
    /\ UNCHANGED <<wantKeyframe, skipped, orderly>>

EmitFront ==
    /\ Draining
    /\ Assemblable(Front)
    /\ waitingKeyframe => HasKeyframe(Front)
    /\ PopFront
    /\ waitingKeyframe' = FALSE
    /\ emitted' = Append(emitted, [ts |-> Front.ts, idr |-> HasKeyframe(Front),
                                   packets |-> Front.packets])
    /\ UNCHANGED <<wantKeyframe, pc, skipped, orderly>>

(* Mutant: the first complete frame re-opens the gate, IDR or not. *)
DiscardFrontAndOpen ==
    /\ Draining
    /\ Assemblable(Front)
    /\ waitingKeyframe
    /\ ~HasKeyframe(Front)
    /\ PopFront
    /\ waitingKeyframe' = FALSE
    /\ wantKeyframe' = TRUE
    /\ skipped' = skipped \cup {Front.ts}
    /\ UNCHANGED <<pc, emitted, orderly>>

DiscardFront ==
    /\ Draining
    /\ Assemblable(Front)
    /\ waitingKeyframe
    /\ ~HasKeyframe(Front)
    /\ PopFront
    /\ wantKeyframe' = TRUE
    /\ skipped' = skipped \cup {Front.ts}
    /\ UNCHANGED <<waitingKeyframe, pc, emitted, orderly>>

(* The one repeat NACK; the same iteration goes on to the hold test. *)
RenackFront ==
    /\ Draining
    /\ ~Assemblable(Front)
    /\ ~Front.renacked
    /\ Front.age > RenackMs
    /\ frames' = [frames EXCEPT ![1].renacked = TRUE]
    /\ UNCHANGED <<lastTs, waitingKeyframe, wantKeyframe, pc, emitted, skipped, orderly>>

NothingToRenack == Front.renacked \/ Front.age <= RenackMs

(* Mutant: a frame given up does not close the gate. *)
GiveUpFrontKeepsGate ==
    /\ Draining
    /\ ~Assemblable(Front)
    /\ NothingToRenack
    /\ Front.age > HoldMs
    /\ PopFront
    /\ wantKeyframe' = TRUE
    /\ skipped' = skipped \cup {Front.ts}
    /\ UNCHANGED <<waitingKeyframe, pc, emitted, orderly>>

GiveUpFront ==
    /\ Draining
    /\ ~Assemblable(Front)
    /\ NothingToRenack
    /\ Front.age > HoldMs
    /\ PopFront
    /\ waitingKeyframe' = TRUE
    /\ wantKeyframe' = TRUE
    /\ skipped' = skipped \cup {Front.ts}
    /\ UNCHANGED <<pc, emitted, orderly>>

EndDrain ==
    /\ pc = "drain"
    /\ \/ frames = <<>>
       \/ /\ frames # <<>>
          /\ ~Assemblable(Front)
          /\ NothingToRenack
          /\ Front.age <= HoldMs
    /\ pc' = "idle"
    /\ UNCHANGED <<frames, lastTs, waitingKeyframe, wantKeyframe, emitted, skipped, orderly>>

-----------------------------------------------------------------------------
(* Mutant: reset() forgets the gate. *)
ResetKeepsGate ==
    /\ pc = "idle"
    /\ frames' = <<>>
    /\ lastTs' = None
    /\ emitted' = <<>>
    /\ skipped' = {}
    /\ orderly' = TRUE
    /\ UNCHANGED <<waitingKeyframe, wantKeyframe, pc>>

(* reset(): the engine starts, resumes on a fresh transport, or recovers    *)
(* from a decode stall.                                                     *)
Reset ==
    /\ pc = "idle"
    /\ frames' = <<>>
    /\ lastTs' = None
    /\ waitingKeyframe' = TRUE
    /\ emitted' = <<>>
    /\ skipped' = {}
    /\ orderly' = TRUE
    /\ UNCHANGED <<wantKeyframe, pc>>

(* Time passes between two calls. *)
Tick ==
    /\ pc = "idle"
    /\ \E i \in DOMAIN frames : frames[i].age <= HoldMs
    /\ frames' = [i \in DOMAIN frames |->
                     [frames[i] EXCEPT !.age = IF @ <= HoldMs THEN @ + 1 ELSE @]]
    /\ UNCHANGED <<lastTs, waitingKeyframe, wantKeyframe, pc, emitted, skipped, orderly>>

Receive(p) == IgnorePacket(p) \/ OpenFrame(p) \/ JoinFrame(p)

Drain == EmitFront \/ DiscardFront \/ RenackFront \/ GiveUpFront \/ EndDrain

Next == (\E p \in Packets : Receive(p)) \/ Drain \/ Reset \/ Tick

Spec == Init /\ [][Next]_vars

-----------------------------------------------------------------------------
(* Type invariant; the buffer never exceeds kMaxFrames. *)
TypeOK ==
    /\ frames \in Seq(Frame) /\ Len(frames) <= MaxFrames
    /\ lastTs \in Stamps \cup {None}
    /\ waitingKeyframe \in BOOLEAN
    /\ wantKeyframe \in BOOLEAN
    /\ pc \in {"idle", "drain"}
    /\ emitted \in Seq(AccessUnit)
    /\ skipped \subseteq Stamps
    /\ orderly \in BOOLEAN

(* The deque stays sorted, holds no frame at or before the last *)
(* one consumed, and files every packet under its own timestamp: the loop   *)
(* of find_or_create() and the early stale test keep front() the oldest     *)
(* frame whatever order packets arrive in (video_jitter.cpp:188-202).       *)
BufferOrdered ==
    \A i \in DOMAIN frames :
        /\ frames[i].packets # {}
        /\ \A p \in frames[i].packets : p.ts = frames[i].ts
        /\ lastTs # None => TsNewer(frames[i].ts, lastTs)
        /\ \A j \in 1 .. i - 1 : TsNewer(frames[i].ts, frames[j].ts)

(* "emits complete frames strictly in timestamp (decode) order"             *)
(* (video_jitter.hpp:23): retransmits, duplicates and late packets never    *)
(* make the decoder see a frame twice or after a later one.                 *)
DecodeOrder ==
    \A i \in DOMAIN emitted :
        /\ lastTs # None /\ ~TsNewer(emitted[i].ts, lastTs)
        /\ \A j \in 1 .. i - 1 : TsNewer(emitted[i].ts, emitted[j].ts)

(* "drops and refuses to emit anything until a fresh IDR"                   *)
(* (video_jitter.hpp:24-26): between a frame the buffer consumed without    *)
(* emitting it and any later frame it emits there is an emitted IDR, and    *)
(* the stream starts with one.                                              *)
GateAfterLoss ==
    /\ emitted # <<>> => emitted[1].idr
    /\ \A i \in DOMAIN emitted, t \in skipped :
          TsNewer(emitted[i].ts, t) =>
              \E k \in 1 .. i : emitted[k].idr /\ TsNewer(emitted[k].ts, t)

(* What the sender put into a frame. *)
SentIn(ts) == {p \in Packets : p.ts = ts /\ ~p.padding}

(* Whatever was lost, repeated or reordered, an emitted access unit is all  *)
(* that was sent of its frame from the head of one of its partitions up to  *)
(* its marker, with nothing missing in between.  Of a frame that is one     *)
(* partition that is the whole frame; of one with several, such as an IDR   *)
(* behind in-band SPS and PPS, leading partitions may be missing, which is  *)
(* as much as try_assemble() can tell (video_jitter.cpp:206-242).           *)
WholeFromHead(au) ==
    \E h, m \in au.packets :
        /\ h.head /\ m.marker
        /\ au.packets = {p \in SentIn(au.ts) :
                            (m.seq - p.seq) % SeqMod <= (m.seq - h.seq) % SeqMod}

EmittedWhole == \A i \in DOMAIN emitted : WholeFromHead(emitted[i])

(* "healthy frames still emit at once" (video_jitter.cpp:15): between two   *)
(* calls no complete frame waits at the front of the buffer, even when the  *)
(* call that just ended returned before its drain loop.                     *)
NoCompleteFrameWaits ==
    pc = "idle" /\ frames # <<>> => ~Assemblable(Front)

(* What reaches the decoder is what KeyframeGate allows: see that module.  *)
Gate == INSTANCE KeyframeGate WITH
    Newer <- TsNewer,
    last  <- lastTs,
    open  <- ~waitingKeyframe,
    fed   <- [i \in DOMAIN emitted |-> [ts |-> emitted[i].ts, idr |-> emitted[i].idr]]

GateSpec == Gate!Spec

-----------------------------------------------------------------------------
(* "no broken P-frames ever reach the decoder" (video_jitter.hpp:25-26), as *)
(* far as the code can keep it: as long as every frame got a packet into    *)
(* the buffer before any later frame did, an emitted frame that is not an   *)
(* IDR follows, in the decoder's input, its own predecessor in the stream.  *)
FollowsPredecessor(i) ==
    /\ i > 1
    /\ \A t \in Stamps : ~(/\ TsNewer(emitted[i].ts, t)
                           /\ TsNewer(t, emitted[i - 1].ts))

NoBrokenReference ==
    orderly => \A i \in DOMAIN emitted : emitted[i].idr \/ FollowsPredecessor(i)

(* The same without the condition, which is what the header says: "on       *)
(* unrecoverable loss (a frame times out, or a whole frame is missing)      *)
(* drops and refuses to emit anything until a fresh IDR"                    *)
(* (video_jitter.hpp:24-26).  The code has no test for a missing frame.     *)
MissingFrameClosesGate ==
    \A i \in DOMAIN emitted : emitted[i].idr \/ FollowsPredecessor(i)

(* "holds frames a short time (kHoldMs)" (video_jitter.hpp:22): when the    *)
(* front frame is past its hold, a media packet of a frame newer than all   *)
(* the buffer holds gets as far as the drain loop that gives the front up.  *)
FreshPacketEndsHold ==
    pc = "idle" /\ frames # <<>> /\ Front.age > HoldMs =>
        \A p \in Packets :
            (\A i \in DOMAIN frames : TsNewer(p.ts, frames[i].ts)) => Acceptable(p.ts)

=============================================================================
