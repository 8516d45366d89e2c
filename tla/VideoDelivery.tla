---------------------------- MODULE VideoDelivery ----------------------------
(***************************************************************************)
(* From the jitter buffer to the decoder: the engine's bounded queue of    *)
(* access units and its keyframe requests (src/src/net/engine.cpp), and    *)
(* the decode thread with its wake generation                              *)
(* (src/src/media/video_pipeline.cpp).  FramePicker goes on from there.    *)
(*                                                                         *)
(* Three threads: the worker (wpc), the decode thread (dpc) and the        *)
(* presenter (PresenterAsks, Stop).  The jitter buffer is its abstract     *)
(* self: while it waits for a keyframe it emits nothing but an IDR         *)
(* (KeyframeGate).  Units are numbered modulo Serial, so that a gap shows. *)
(***************************************************************************)
EXTENDS Naturals, Sequences

CONSTANTS QueueCap,     \* kMaxQueuedVideo
          DecoderCap,   \* units libavcodec holds before send returns EAGAIN
          FirstBackoff, \* 300 ms, in ticks
          LastBackoff,  \* 2 s, in ticks
          Serial        \* bound: units are numbered 0..Serial - 1

ASSUME ConstantsAssumption ==
    /\ QueueCap \in Nat \ {0} /\ DecoderCap \in Nat \ {0}
    /\ FirstBackoff \in Nat \ {0} /\ LastBackoff \in Nat
    /\ FirstBackoff <= LastBackoff
    /\ Serial \in Nat \ {0}

VARIABLES
    waiting,    \* jitter_.waiting_keyframe()
    handshake,  \* handshake_done_ and a peer exists
    sinceReq,   \* age of last_keyframe_req_, saturated at LastBackoff
    backoff,    \* pli_backoff_ms_; its reset value 0 stands for 300 ms
    wpc,        \* where the worker is in on_video(); "idle" outside
    ask,        \* want_keyframe || overflowed
    queue,      \* video_queue_
    nextId,     \* history: number of the next unit emitted
    seen,       \* the generation the decode thread read is still wake_gen_
                \* (kept only from the reading to the comparison)
    dpc,        \* where decode_loop() is; "failed" is failed_
    hand,       \* the unit the decode thread took, or None
    inside,     \* how many units libavcodec holds
    haveFrame,  \* frames_decoded_ > 0
    quit,       \* quit_
    expected,   \* history: number of the unit the decoder has the reference of,
                \* Serial until the decoder is open
    smeared     \* history: the decoder was fed a unit without its reference,
                \* and no overflow or refusal had dropped that

askVars  == <<waiting, handshake, sinceReq, backoff>>
workVars == <<wpc, ask, queue, nextId>>
decVars  == <<seen, dpc, hand, inside, haveFrame, expected, smeared>>
vars == <<askVars, workVars, decVars, quit>>

(* `gap`: the unit before it was dropped by an overflow. *)
Unit == [id : 0..Serial - 1, idr : BOOLEAN, gap : BOOLEAN]
None == [id |-> Serial, idr |-> FALSE, gap |-> FALSE]
Succ(id) == (id + 1) % Serial
AtMost(a, b) == IF a <= b THEN a ELSE b

Init ==
    /\ waiting = TRUE /\ handshake = FALSE
    /\ sinceReq = LastBackoff /\ backoff = FirstBackoff
    /\ wpc = "idle" /\ ask = FALSE /\ queue = <<>> /\ nextId = 0
    /\ seen = FALSE /\ dpc = "top" /\ hand = None /\ inside = 0
    /\ haveFrame = FALSE
    /\ expected = Serial /\ smeared = FALSE
    /\ quit = FALSE

-----------------------------------------------------------------------------
(* The worker: keyframe requests. *)

(* The interval doubles while the gate stays closed and starts over with it open. *)
Interval(gate) == IF gate THEN backoff ELSE FirstBackoff

(* request_keyframe_locked(), `gate` being jitter_.waiting_keyframe() as the
   call finds it. *)
RequestKeyframe(gate) ==
    IF handshake /\ sinceReq >= Interval(gate)
    THEN /\ sinceReq' = 0
         /\ backoff' = IF gate THEN AtMost(2 * Interval(gate), LastBackoff)
                               ELSE FirstBackoff
    ELSE UNCHANGED <<sinceReq, backoff>>

(* The end of the handshake asks at once, throttle or not. *)
Handshake ==
    /\ ~quit /\ wpc = "idle" /\ ~handshake
    /\ handshake' = TRUE
    /\ sinceReq' = 0
    /\ UNCHANGED <<waiting, backoff, workVars, decVars, quit>>

(* Mutant for KeyframeWanted: the pump asks only once a frame was decoded. *)
PumpAsksAfterFirstFrame ==
    /\ ~quit /\ wpc = "idle" /\ handshake /\ waiting /\ haveFrame
    /\ RequestKeyframe(TRUE)
    /\ UNCHANGED <<waiting, handshake, workVars, decVars, quit>>

(* A turn of the pump while the jitter buffer waits for an IDR. *)
PumpAsks ==
    /\ ~quit /\ wpc = "idle" /\ handshake /\ waiting
    /\ RequestKeyframe(TRUE)
    /\ UNCHANGED <<waiting, handshake, workVars, decVars, quit>>

(* Nothing decoded for five seconds: the jitter buffer is reset. *)
DecodeStalled ==
    /\ ~quit /\ wpc = "idle" /\ handshake /\ haveFrame
    /\ waiting' = TRUE
    /\ RequestKeyframe(TRUE)
    /\ UNCHANGED <<handshake, workVars, decVars, quit>>

(* request_keyframe() from the presenter, when no callback holds peer_mutex_. *)
PresenterAsks ==
    /\ ~quit /\ wpc = "idle" /\ haveFrame
    /\ RequestKeyframe(waiting)
    /\ UNCHANGED <<waiting, handshake, workVars, decVars, quit>>

(* rearm_for_resume(): the transport is replaced. *)
Rearm ==
    /\ ~quit /\ wpc = "idle" /\ handshake
    /\ waiting' = TRUE /\ handshake' = FALSE /\ backoff' = FirstBackoff
    /\ queue' = <<>>
    /\ UNCHANGED <<sinceReq, wpc, ask, nextId, decVars, quit>>

-----------------------------------------------------------------------------
(* The worker: on_video(). *)

(* Mutant for TypeOK: the capacity test is off by one. *)
EnqueueOneTooMany(q, unit) == Append(IF Len(q) > QueueCap THEN <<>> ELSE q, unit)

(* A full queue is cleared before the push. *)
Enqueue(q, unit) == Append(IF Len(q) >= QueueCap THEN <<>> ELSE q, unit)

(* receive() emits an access unit. *)
Emit(idr) ==
    /\ ~quit /\ wpc \in {"idle", "receive"}
    /\ waiting => idr
    /\ waiting' = FALSE
    /\ LET full == Len(queue) >= QueueCap
           unit == [id |-> nextId, idr |-> idr, gap |-> full]
       IN  /\ queue' = Enqueue(queue, unit)
           /\ ask' = (ask \/ full)
    /\ nextId' = Succ(nextId)
    /\ wpc' = "receive"
    /\ UNCHANGED <<handshake, sinceReq, backoff, decVars, quit>>

(* receive() gives a frame up, or discards one because the gate is closed. *)
LoseFrame ==
    /\ ~quit /\ wpc \in {"idle", "receive"}
    /\ waiting' = TRUE
    /\ ask' = TRUE
    /\ wpc' = "receive"
    /\ UNCHANGED <<handshake, sinceReq, backoff, queue, nextId, decVars, quit>>

(* receive() is back: ask if need be, then see whether to wake the decoder. *)
AskAndCheck ==
    /\ wpc = "receive"
    /\ IF ask THEN RequestKeyframe(waiting) ELSE UNCHANGED <<sinceReq, backoff>>
    /\ ask' = FALSE
    /\ wpc' = IF queue # <<>> THEN "wakeup" ELSE "idle"
    /\ UNCHANGED <<waiting, handshake, queue, nextId, decVars, quit>>

(* notify(): the generation under the lock ... *)
BumpGeneration ==
    /\ wpc = "wakeup"
    /\ wpc' = "notify"
    /\ seen' = FALSE
    /\ UNCHANGED <<askVars, ask, queue, nextId, dpc, hand, inside,
                   haveFrame, expected, smeared, quit>>

(* ... and the condition variable after it. *)
NotifyOne ==
    /\ wpc = "notify"
    /\ wpc' = "idle"
    /\ dpc' = IF dpc = "wait" THEN "top" ELSE dpc
    /\ UNCHANGED <<askVars, ask, queue, nextId, seen, hand, inside,
                   haveFrame, expected, smeared, quit>>

-----------------------------------------------------------------------------
(* The decode thread. *)

(* Mutant for DecoderStops: the loop does not look at quit_. *)
DecodeLoopForever ==
    /\ dpc = "top"
    /\ dpc' = "take"
    /\ seen' = TRUE
    /\ UNCHANGED <<askVars, workVars, hand, inside, haveFrame,
                   expected, smeared, quit>>

(* The generation is read before a unit is asked for. *)
DecodeLoopTop ==
    /\ dpc = "top"
    /\ dpc' = IF quit THEN "done" ELSE "take"
    /\ seen' = ~quit
    /\ UNCHANGED <<askVars, workVars, hand, inside, haveFrame,
                   expected, smeared, quit>>

(* take_access_unit(): the oldest unit, or nothing. *)
Take ==
    /\ dpc = "take"
    /\ \/ /\ queue = <<>>
          /\ dpc' = "check"
          /\ UNCHANGED <<queue, hand, seen>>
       \/ /\ queue # <<>>
          /\ hand' = Head(queue)
          /\ queue' = Tail(queue)
          /\ dpc' = "send"
          /\ seen' = FALSE
    /\ UNCHANGED <<askVars, wpc, ask, nextId, inside, haveFrame,
                   expected, smeared, quit>>

(* Mutant for NoSleepOnUnit: the generation is not compared before the wait. *)
CheckWithoutGeneration ==
    /\ dpc = "check"
    /\ dpc' = IF quit THEN "top" ELSE "wait"
    /\ seen' = FALSE
    /\ UNCHANGED <<askVars, workVars, hand, inside, haveFrame,
                   expected, smeared, quit>>

(* Under the lock: sleep only if nothing was announced since the generation
   was read. *)
CheckGeneration ==
    /\ dpc = "check"
    /\ dpc' = IF seen /\ ~quit THEN "wait" ELSE "top"
    /\ seen' = FALSE
    /\ UNCHANGED <<askVars, workVars, hand, inside, haveFrame,
                   expected, smeared, quit>>

(* The four milliseconds are over. *)
WaitTimesOut ==
    /\ dpc = "wait"
    /\ dpc' = "top"
    /\ UNCHANGED <<askVars, workVars, seen, hand, inside, haveFrame,
                   expected, smeared, quit>>

(* The decoder is opened for the first unit; if that fails, the thread ends. *)
OpenFails ==
    /\ dpc = "send" /\ expected = Serial
    /\ dpc' = "failed"
    /\ hand' = None
    /\ UNCHANGED <<askVars, workVars, seen, inside, haveFrame, expected, smeared, quit>>

(* decoder_send() accepts the unit. *)
SendAccepted ==
    /\ dpc = "send" /\ inside < DecoderCap
    /\ inside' = inside + 1
    /\ expected' = Succ(hand.id)
    /\ smeared' = (~hand.idr /\ (smeared \/ ~(hand.gap \/ hand.id = expected)))
    /\ hand' = None
    /\ dpc' = "drain"
    /\ UNCHANGED <<askVars, workVars, seen, haveFrame, quit>>

(* Mutant for ChainKept: a unit refused with EAGAIN is dropped. *)
SendAgainDrops ==
    /\ dpc = "send" /\ inside = DecoderCap
    /\ dpc' = "drain"
    /\ hand' = None
    /\ UNCHANGED <<askVars, workVars, seen, inside, haveFrame,
                   expected, smeared, quit>>

(* EAGAIN: output is pending; the unit is kept and sent again after the drain. *)
SendAgain ==
    /\ dpc = "send" /\ inside = DecoderCap
    /\ dpc' = "drain"
    /\ UNCHANGED <<askVars, workVars, seen, hand, inside, haveFrame,
                   expected, smeared, quit>>

(* Any other error: the unit is lost, the stream goes on.  libavcodec conceals;
   what it was missing is not held against the code. *)
SendRefused ==
    /\ dpc = "send" /\ inside < DecoderCap
    /\ expected' = Succ(hand.id)
    /\ hand' = None
    /\ dpc' = "drain"
    /\ UNCHANGED <<askVars, workVars, seen, inside, haveFrame, smeared, quit>>

(* A frame the decoder has ready joins the decoded frames, or is lost for want
   of memory. *)
Receive(kept) ==
    /\ dpc = "drain" /\ inside > 0
    /\ inside' = inside - 1
    /\ haveFrame' = (haveFrame \/ kept)
    /\ UNCHANGED <<askVars, workVars, seen, dpc, hand, expected,
                   smeared, quit>>

(* No more output for now.  A unit refused with EAGAIN is sent again; libavcodec
   never answers both calls with EAGAIN. *)
Drained ==
    /\ dpc = "drain" /\ (hand # None => inside < DecoderCap)
    /\ dpc' = IF hand # None THEN "send" ELSE "top"
    /\ UNCHANGED <<askVars, workVars, seen, hand, inside, haveFrame,
                   expected, smeared, quit>>

(* stop(): quit_ and a notification, without the lock; then the join.  From here
   on only the decode thread matters: no new call of the worker is followed. *)
Stop ==
    /\ ~quit
    /\ quit' = TRUE
    /\ dpc' = IF dpc = "wait" THEN "top" ELSE dpc
    /\ UNCHANGED <<askVars, workVars, seen, hand, inside, haveFrame,
                   expected, smeared>>

(* Both threads are where stop() leaves them. *)
Stopped == quit /\ dpc \in {"done", "failed"} /\ wpc = "idle" /\ UNCHANGED vars

(* The throttle's clock. *)
Tick ==
    /\ ~quit /\ sinceReq < LastBackoff
    /\ sinceReq' = sinceReq + 1
    /\ UNCHANGED <<waiting, handshake, backoff, workVars, decVars, quit>>

OnVideo ==
    \/ \E idr \in BOOLEAN : Emit(idr)
    \/ LoseFrame \/ AskAndCheck \/ BumpGeneration \/ NotifyOne

Decode ==
    \/ DecodeLoopTop \/ Take \/ CheckGeneration \/ WaitTimesOut
    \/ OpenFails \/ SendAccepted \/ SendAgain \/ SendRefused
    \/ (\E kept \in BOOLEAN : Receive(kept)) \/ Drained

Next ==
    \/ Handshake \/ PumpAsks \/ DecodeStalled \/ PresenterAsks \/ Rearm
    \/ OnVideo \/ Decode \/ Stop \/ Stopped \/ Tick

Spec == Init /\ [][Next]_vars

(* Threads are scheduled and time passes; the network promises nothing. *)
Fairness ==
    /\ WF_vars(Decode)
    /\ WF_vars(AskAndCheck \/ BumpGeneration \/ NotifyOne)
    /\ WF_vars(PumpAsks)
    /\ WF_vars(Tick)

LiveSpec == Spec /\ Fairness

-----------------------------------------------------------------------------
(* Properties. *)

(* Types, the capacity of the queue and of the decoder. *)
TypeOK ==
    /\ waiting \in BOOLEAN /\ handshake \in BOOLEAN
    /\ sinceReq \in 0..LastBackoff /\ backoff \in FirstBackoff..LastBackoff
    /\ wpc \in {"idle", "receive", "wakeup", "notify"} /\ ask \in BOOLEAN
    /\ queue \in Seq(Unit) /\ Len(queue) <= QueueCap
    /\ nextId \in 0..Serial - 1
    /\ seen \in BOOLEAN
    /\ dpc \in {"top", "take", "check", "wait", "send", "drain", "done", "failed"}
    /\ hand \in Unit \cup {None}
    /\ inside \in 0..DecoderCap
    /\ haveFrame \in BOOLEAN
    /\ expected \in 0..Serial /\ smeared \in BOOLEAN
    /\ quit \in BOOLEAN

(* The decode thread sleeps on a queued unit only while the worker is on its
   way to wake it: a unit queued between the empty answer and the wait is seen,
   because decode_loop() reads the generation before it asks. *)
NoSleepOnUnit ==
    dpc = "wait" /\ queue # <<>> => wpc \in {"receive", "wakeup", "notify"}

(* Only an overflow or a refusal by libavcodec can leave the decoder with a
   frame that lacks its reference: losses, a new transport, a decode resync,
   EAGAIN and wake-ups never break the chain from one IDR to the next. *)
ChainKept == ~smeared

(* While the jitter buffer waits for an IDR, a request goes out again and
   again, at the latest when the longest back-off is over, until the stream is
   stopped. *)
KeyframeWanted ==
    waiting /\ handshake /\ sinceReq = LastBackoff
        ~> sinceReq = 0 \/ ~waiting \/ ~handshake \/ quit

(* stop() returns: the decode thread ends from every point of its loop. *)
DecoderStops == quit ~> dpc \in {"done", "failed"}

(* What on_video() says of an overflow (engine.cpp:387-393): the backlog is
   dropped and the decoder resyncs on a fresh keyframe, instead of being fed
   frames whose references were dropped. *)
OverflowResyncs == hand.gap => hand.idr
=============================================================================
