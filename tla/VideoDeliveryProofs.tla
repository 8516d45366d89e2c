------------------------- MODULE VideoDeliveryProofs -------------------------
(* Theorems about VideoDelivery, for every capacity of the queue and of the *)
(* decoder and every back-off.                                              *)
EXTENDS VideoDelivery, TLAPS

-----------------------------------------------------------------------------
(* The decode thread never sleeps on a unit.                                *)

(* A unit that arrives while the decode thread is on its way to sleep is    *)
(* still to be announced, or its announcement shows in the generation.      *)
AnnouncedInTime == dpc = "check" /\ seen /\ queue # <<>> => wpc \in {"receive", "wakeup"}

SleepInv == NoSleepOnUnit /\ AnnouncedInTime

(* Who only asks for keyframes touches neither queue nor decode thread.     *)
LEMMA RequestsTouchNoUnit ==
    ASSUME Handshake \/ PumpAsks \/ DecodeStalled \/ PresenterAsks \/ Tick
    PROVE  UNCHANGED <<wpc, ask, queue, nextId, seen, dpc, hand, inside, haveFrame,
                       expected, smeared, quit>> /\ (waiting' = waiting \/ waiting' = TRUE)
<1> USE DEF workVars, decVars
<1>1. CASE Handshake
  BY <1>1 DEF Handshake
<1>2. CASE PumpAsks
  BY <1>2 DEF PumpAsks
<1>3. CASE DecodeStalled
  BY <1>3 DEF DecodeStalled
<1>4. CASE PresenterAsks
  BY <1>4 DEF PresenterAsks
<1>5. CASE Tick
  BY <1>5 DEF Tick
<1> QED
  BY <1>1, <1>2, <1>3, <1>4, <1>5

LEMMA SleepInit == Init => SleepInv
  BY DEF Init, SleepInv, NoSleepOnUnit, AnnouncedInTime

LEMMA SleepNext == SleepInv /\ [Next]_vars => SleepInv'
<1> SUFFICES ASSUME SleepInv, [Next]_vars PROVE SleepInv'
  OBVIOUS
<1> USE DEF SleepInv, NoSleepOnUnit, AnnouncedInTime, askVars, workVars, decVars
<1>1. CASE Handshake \/ PumpAsks \/ DecodeStalled \/ PresenterAsks \/ Tick
  <2>1. UNCHANGED <<wpc, queue, seen, dpc>>
    BY <1>1, RequestsTouchNoUnit
  <2> QED
    BY <2>1
<1>2. CASE Rearm
  BY <1>2 DEF Rearm
<1>3. CASE (\E idr \in BOOLEAN : Emit(idr)) \/ LoseFrame
  BY <1>3 DEF Emit, LoseFrame
<1>4. CASE AskAndCheck
  BY <1>4 DEF AskAndCheck
<1>5. CASE BumpGeneration
  BY <1>5 DEF BumpGeneration
<1>6. CASE NotifyOne
  BY <1>6 DEF NotifyOne
<1>7. CASE Decode
  BY <1>7 DEF Decode, DecodeLoopTop, Take, CheckGeneration, WaitTimesOut, OpenFails,
              SendAccepted, SendAgain, SendRefused, Receive, Drained
<1>8. CASE Stop
  BY <1>8 DEF Stop
<1>9. CASE Stopped \/ UNCHANGED vars
  BY <1>9 DEF Stopped, vars
<1> QED
  BY <1>1, <1>2, <1>3, <1>4, <1>5, <1>6, <1>7, <1>8, <1>9 DEF Next, OnVideo

(* decode_loop() and notify(): no unit waits for a decode thread that       *)
(* sleeps, unless the worker is about to wake it.                           *)
THEOREM NeverSleepsOnUnit == Spec => []NoSleepOnUnit
<1>1. SleepInv => NoSleepOnUnit
  BY DEF SleepInv
<1> QED
  BY <1>1, SleepInit, SleepNext, PTL DEF Spec

-----------------------------------------------------------------------------
(* Types.                                                                   *)

LEMMA Numbers ==
    /\ QueueCap \in Nat \ {0} /\ DecoderCap \in Nat \ {0} /\ Serial \in Nat \ {0}
    /\ FirstBackoff \in Nat \ {0} /\ LastBackoff \in Nat /\ FirstBackoff <= LastBackoff
    /\ 0 \in 0 .. LastBackoff /\ LastBackoff \in 0 .. LastBackoff
    /\ FirstBackoff \in FirstBackoff .. LastBackoff
    /\ 0 \in 0 .. DecoderCap /\ 0 \in 0 .. Serial - 1 /\ Serial \in 0 .. Serial
  BY ConstantsAssumption

LEMMA SuccIsId == ASSUME NEW id \in Nat PROVE Succ(id) \in 0 .. Serial - 1
  BY ConstantsAssumption DEF Succ

LEMMA TypeInit == Init => TypeOK
<1> SUFFICES ASSUME Init PROVE TypeOK
  OBVIOUS
<1>1. queue \in Seq(Unit) /\ Len(queue) <= QueueCap
  BY Numbers DEF Init
<1> QED
  BY <1>1, Numbers DEF Init, TypeOK

(* A request keeps the throttle's clock and back-off in range.              *)
LEMMA RequestTyped ==
    ASSUME TypeOK, NEW gate \in BOOLEAN, RequestKeyframe(gate)
    PROVE  sinceReq' \in 0 .. LastBackoff /\ backoff' \in FirstBackoff .. LastBackoff
<1>1. Interval(gate) \in FirstBackoff .. LastBackoff
  BY Numbers DEF TypeOK, Interval
<1>2. AtMost(2 * Interval(gate), LastBackoff) \in FirstBackoff .. LastBackoff
  BY <1>1, Numbers DEF AtMost
<1> QED
  BY <1>2, Numbers DEF RequestKeyframe, TypeOK

(* on_video()'s push: the queue stays within its capacity.                  *)
LEMMA EnqueueTyped ==
    ASSUME NEW q \in Seq(Unit), Len(q) <= QueueCap, NEW u \in Unit
    PROVE  /\ Enqueue(q, u) \in Seq(Unit) /\ Len(Enqueue(q, u)) <= QueueCap
           /\ Enqueue(q, u) # <<>>
<1>1. CASE Len(q) >= QueueCap
  BY <1>1, Numbers DEF Enqueue
<1>2. CASE ~(Len(q) >= QueueCap)
  BY <1>2, Numbers DEF Enqueue
<1> QED
  BY <1>1, <1>2

LEMMA EmitTyped == ASSUME TypeOK, NEW idr \in BOOLEAN, Emit(idr) PROVE TypeOK'
<1> DEFINE unit == [id |-> nextId, idr |-> idr, gap |-> Len(queue) >= QueueCap]
<1>1. unit \in Unit
  BY DEF TypeOK, Unit
<1>2. queue' = Enqueue(queue, unit)
  BY DEF Emit
<1>3. queue' \in Seq(Unit) /\ Len(queue') <= QueueCap
  BY <1>1, <1>2, EnqueueTyped DEF TypeOK
<1>4. nextId' \in 0 .. Serial - 1
  BY SuccIsId DEF Emit, TypeOK
<1>5. ask' \in BOOLEAN
  BY DEF Emit
<1> QED
  BY <1>3, <1>4, <1>5 DEF Emit, TypeOK, decVars

LEMMA TakeTyped == ASSUME TypeOK, Take PROVE TypeOK'
<1>1. CASE queue = <<>>
  BY <1>1 DEF Take, TypeOK, askVars
<1>2. CASE queue # <<>>
  <2>1. Head(queue) \in Unit /\ Tail(queue) \in Seq(Unit) /\ Len(Tail(queue)) <= QueueCap
    BY <1>2, Numbers DEF TypeOK
  <2> QED
    BY <1>2, <2>1 DEF Take, TypeOK, askVars
<1> QED
  BY <1>1, <1>2

LEMMA SendTyped == ASSUME TypeOK, SendAccepted \/ SendRefused PROVE TypeOK'
<1>1. expected' \in 0 .. Serial
  <2>1. hand.id \in Nat
    BY Numbers DEF TypeOK, Unit, None
  <2>2. Succ(hand.id) \in 0 .. Serial
    BY <2>1, SuccIsId, Numbers
  <2> QED
    BY <2>2 DEF SendAccepted, SendRefused
<1>2. inside' \in 0 .. DecoderCap
  BY Numbers DEF SendAccepted, SendRefused, TypeOK
<1>3. smeared' \in BOOLEAN
  BY DEF SendAccepted, SendRefused, TypeOK
<1> QED
  BY <1>1, <1>2, <1>3 DEF SendAccepted, SendRefused, TypeOK, askVars, workVars

LEMMA TypeNext == TypeOK /\ [Next]_vars => TypeOK'
<1> SUFFICES ASSUME TypeOK, [Next]_vars PROVE TypeOK'
  OBVIOUS
<1>1. CASE Handshake \/ Rearm
  <2>1. <<>> \in Seq(Unit) /\ Len(<<>>) <= QueueCap
    BY Numbers
  <2> QED
    BY <1>1, <2>1, Numbers DEF Handshake, Rearm, TypeOK, workVars, decVars
<1>2. CASE PumpAsks
  BY <1>2, RequestTyped DEF PumpAsks, TypeOK, workVars, decVars
<1>3. CASE DecodeStalled
  BY <1>3, RequestTyped DEF DecodeStalled, TypeOK, workVars, decVars
<1>4. CASE PresenterAsks
  <2>1. waiting \in BOOLEAN
    BY DEF TypeOK
  <2> QED
    BY <1>4, <2>1, RequestTyped DEF PresenterAsks, TypeOK, workVars, decVars
<1>5. CASE \E idr \in BOOLEAN : Emit(idr)
  BY <1>5, EmitTyped
<1>6. CASE LoseFrame
  BY <1>6 DEF LoseFrame, TypeOK, decVars
<1>7. CASE AskAndCheck
  <2>1. sinceReq' \in 0 .. LastBackoff /\ backoff' \in FirstBackoff .. LastBackoff
    BY <1>7, RequestTyped DEF AskAndCheck, TypeOK
  <2> QED
    BY <1>7, <2>1 DEF AskAndCheck, TypeOK, decVars
<1>8. CASE BumpGeneration \/ NotifyOne
  BY <1>8 DEF BumpGeneration, NotifyOne, TypeOK, askVars
<1>9. CASE DecodeLoopTop \/ CheckGeneration \/ WaitTimesOut \/ OpenFails \/ SendAgain \/ Drained
  <2>1. dpc' \in {"top", "take", "check", "wait", "send", "drain", "done", "failed"}
    BY <1>9 DEF DecodeLoopTop, CheckGeneration, WaitTimesOut, OpenFails, SendAgain, Drained
  <2>2. seen' \in BOOLEAN /\ hand' \in Unit \cup {None}
    BY <1>9 DEF DecodeLoopTop, CheckGeneration, WaitTimesOut, OpenFails, SendAgain, Drained, TypeOK
  <2>3. UNCHANGED <<askVars, workVars, inside, haveFrame, expected, smeared, quit>>
    BY <1>9 DEF DecodeLoopTop, CheckGeneration, WaitTimesOut, OpenFails, SendAgain, Drained
  <2> QED
    BY <2>1, <2>2, <2>3 DEF TypeOK, askVars, workVars
<1>10. CASE Take
  BY <1>10, TakeTyped
<1>11. CASE SendAccepted \/ SendRefused
  BY <1>11, SendTyped
<1>12. CASE \E kept \in BOOLEAN : Receive(kept)
  <2>1. inside' \in 0 .. DecoderCap /\ haveFrame' \in BOOLEAN
    BY <1>12, Numbers DEF Receive, TypeOK
  <2> QED
    BY <1>12, <2>1 DEF Receive, TypeOK, askVars, workVars
<1>13. CASE Stop
  BY <1>13 DEF Stop, TypeOK, askVars, workVars
<1>14. CASE Tick
  <2>1. sinceReq' \in 0 .. LastBackoff
    BY <1>14, Numbers DEF Tick, TypeOK
  <2> QED
    BY <1>14, <2>1 DEF Tick, TypeOK, workVars, decVars
<1>15. CASE Stopped \/ UNCHANGED vars
  BY <1>15 DEF Stopped, vars, TypeOK, askVars, workVars, decVars
<1> QED
  BY <1>1, <1>2, <1>3, <1>4, <1>5, <1>6, <1>7, <1>8, <1>9, <1>10, <1>11, <1>12,
     <1>13, <1>14, <1>15 DEF Next, OnVideo, Decode

(* Types, and the capacity of the queue (Engine::on_video()) and of the     *)
(* decoder.                                                                 *)
THEOREM TypeCorrect == Spec => []TypeOK
  BY TypeInit, TypeNext, PTL DEF Spec

-----------------------------------------------------------------------------
(* The chain of references.                                                 *)

(* The unit u can be decoded after one whose successor is e, or starts a    *)
(* chain of its own, or follows an overflow.                                *)
Follows(u, e) == u.idr \/ u.gap \/ u.id = e

(* What is queued follows e and each other, and so will what is emitted     *)
(* next.                                                                    *)
ChainFrom(e) ==
    /\ \A i \in 1 .. Len(queue) :
           Follows(queue[i], IF i = 1 THEN e ELSE Succ(queue[i - 1].id))
    /\ \/ waiting
       \/ nextId = IF queue = <<>> THEN e ELSE Succ(queue[Len(queue)].id)

(* The unit in hand comes before the queue; a thread that could not open    *)
(* its decoder takes no more.                                               *)
ChainInv ==
    /\ ~smeared
    /\ hand # None => dpc \in {"send", "drain"}
    /\ dpc = "send" => hand # None
    /\ dpc # "failed" =>
           IF hand # None THEN Follows(hand, expected) /\ ChainFrom(Succ(hand.id))
                          ELSE ChainFrom(expected)

LEMMA ChainInit == Init => ChainInv
  BY DEF Init, ChainInv, ChainFrom, None

(* An emitted unit goes on with the chain or follows an overflow.           *)
LEMMA EmitExtends ==
    ASSUME TypeOK, NEW idr \in BOOLEAN, Emit(idr), NEW e, ChainFrom(e)
    PROVE  ChainFrom(e)'
<1> DEFINE unit == [id |-> nextId, idr |-> idr, gap |-> Len(queue) >= QueueCap]
<1>1. queue' = Enqueue(queue, unit) /\ nextId' = Succ(nextId) /\ ~waiting'
  BY DEF Emit
<1>2. queue \in Seq(Unit) /\ unit \in Unit /\ unit.id = nextId
  BY DEF TypeOK, Unit
<1> HIDE DEF unit
<1>3. CASE Len(queue) >= QueueCap
  <2>1. queue' = <<unit>>
    BY <1>1, <1>2, <1>3 DEF Enqueue
  <2>2. unit.gap
    BY <1>3 DEF unit
  <2>3. Len(queue') = 1 /\ queue'[1] = unit /\ queue' # <<>>
    BY <2>1
  <2> QED
    BY <1>1, <1>2, <2>2, <2>3 DEF ChainFrom, Follows
<1>4. CASE ~(Len(queue) >= QueueCap)
  <2>1. queue' = Append(queue, unit)
    BY <1>1, <1>4 DEF Enqueue
  <2>2. /\ Len(queue') = Len(queue) + 1 /\ queue'[Len(queue')] = unit /\ queue' # <<>>
        /\ \A i \in 1 .. Len(queue) : queue'[i] = queue[i]
        /\ Len(queue) \in Nat
    BY <1>2, <2>1
  <2>3. unit.idr \/ unit.id = IF queue = <<>> THEN e ELSE Succ(queue[Len(queue)].id)
    BY <1>2 DEF unit, Emit, ChainFrom
  <2>4. queue = <<>> <=> Len(queue) = 0
    BY <1>2
  <2>5. ASSUME NEW i \in 1 .. Len(queue')
        PROVE  Follows(queue'[i], IF i = 1 THEN e ELSE Succ(queue'[i - 1].id))
    <3>1. CASE i = Len(queue')
      BY <2>2, <2>3, <2>4, <3>1 DEF Follows
    <3>2. CASE i # Len(queue')
      BY <2>2, <3>2 DEF ChainFrom
    <3> QED
      BY <3>1, <3>2
  <2> QED
    BY <1>1, <1>2, <2>2, <2>5 DEF ChainFrom
<1> QED
  BY <1>3, <1>4

(* Whoever leaves the queue alone, and the gate open or closed, leaves the  *)
(* chain alone.                                                             *)
LEMMA ChainStays ==
    ASSUME UNCHANGED <<queue, nextId, hand, expected, smeared>>,
           waiting' = waiting \/ waiting' = TRUE,
           dpc' = dpc \/ (hand = None /\ dpc # "failed" /\ dpc' # "send"), ChainInv
    PROVE  ChainInv'
  BY DEF ChainInv, ChainFrom

LEMMA TakeKeepsChain == ASSUME TypeOK, Take, ChainInv PROVE ChainInv'
<1>1. CASE queue = <<>>
  BY <1>1, ChainStays DEF Take, ChainInv, askVars
<1>2. CASE queue # <<>>
  <2>1. /\ hand = None /\ hand' = queue[1] /\ queue' = Tail(queue) /\ dpc' = "send"
        /\ UNCHANGED <<waiting, nextId, expected, smeared>>
    BY <1>2 DEF Take, ChainInv, askVars
  <2>2. ChainFrom(expected)
    BY <2>1 DEF Take, ChainInv
  <2>3. /\ queue \in Seq(Unit) /\ Len(queue) \in Nat \ {0} /\ Len(queue') = Len(queue) - 1
        /\ \A i \in 1 .. Len(queue') : queue'[i] = queue[i + 1]
        /\ queue' = <<>> <=> Len(queue') = 0
    <3>1. queue \in Seq(Unit)
      BY DEF TypeOK
    <3>2. Len(queue) \in Nat \ {0} /\ Len(queue') = Len(queue) - 1
      BY <1>2, <2>1, <3>1
    <3>3. \A i \in 1 .. Len(queue') : queue'[i] = queue[i + 1]
      BY <1>2, <2>1, <3>1, <3>2
    <3>4. queue' \in Seq(Unit)
      BY <1>2, <2>1, <3>1
    <3>5. queue' = <<>> <=> Len(queue') = 0
      BY <3>4
    <3> QED
      BY <3>1, <3>2, <3>3, <3>5
  <2>4. hand' # None /\ Follows(hand', expected)
    <3>1. queue[1] \in Unit
      BY <2>3
    <3>2. queue[1] # None
      BY <3>1, Numbers DEF Unit, None
    <3> QED
      BY <2>1, <2>2, <2>3, <3>2 DEF ChainFrom
  <2>5. ASSUME NEW i \in 1 .. Len(queue')
        PROVE  Follows(queue'[i], IF i = 1 THEN Succ(hand'.id) ELSE Succ(queue'[i - 1].id))
    BY <2>1, <2>2, <2>3 DEF ChainFrom
  <2>6. waiting \/ nextId = IF queue' = <<>> THEN Succ(hand'.id)
                                            ELSE Succ(queue'[Len(queue')].id)
    BY <2>1, <2>2, <2>3 DEF ChainFrom
  <2> QED
    BY <2>1, <2>4, <2>5, <2>6, ~smeared DEF ChainInv, ChainFrom
<1> QED
  BY <1>1, <1>2

LEMMA SendKeepsChain == ASSUME SendAccepted \/ SendRefused, ChainInv PROVE ChainInv'
<1>1. /\ hand # None /\ Follows(hand, expected) /\ ChainFrom(Succ(hand.id))
      /\ hand' = None /\ expected' = Succ(hand.id) /\ dpc' = "drain"
      /\ UNCHANGED <<queue, nextId, waiting>>
  BY DEF SendAccepted, SendRefused, ChainInv, askVars, workVars
<1>2. ~smeared'
  BY <1>1 DEF SendAccepted, SendRefused, ChainInv, Follows
<1> QED
  BY <1>1, <1>2 DEF ChainInv, ChainFrom

LEMMA ChainNext == TypeOK /\ ChainInv /\ [Next]_vars => ChainInv'
<1> SUFFICES ASSUME TypeOK, ChainInv, [Next]_vars PROVE ChainInv'
  OBVIOUS
<1>1. CASE Handshake \/ PumpAsks \/ DecodeStalled \/ PresenterAsks \/ Tick
  BY <1>1, RequestsTouchNoUnit, ChainStays
<1>2. CASE Rearm
  BY <1>2 DEF Rearm, ChainInv, ChainFrom, decVars
<1>3. CASE \E idr \in BOOLEAN : Emit(idr)
  <2>1. PICK idr \in BOOLEAN : Emit(idr)
    BY <1>3
  <2>2. UNCHANGED <<dpc, hand, expected, smeared>>
    BY <2>1 DEF Emit, decVars
  <2>3. CASE hand # None
    BY <2>1, <2>2, <2>3, EmitExtends DEF ChainInv
  <2>4. CASE hand = None
    BY <2>1, <2>2, <2>4, EmitExtends DEF ChainInv
  <2> QED
    BY <2>3, <2>4
<1>4. CASE LoseFrame
  BY <1>4, ChainStays DEF LoseFrame, decVars
<1>5. CASE AskAndCheck
  BY <1>5, ChainStays DEF AskAndCheck, decVars
<1>6. CASE BumpGeneration \/ NotifyOne \/ Stop
  BY <1>6, ChainStays DEF BumpGeneration, NotifyOne, Stop, ChainInv, askVars, workVars
<1>7. CASE DecodeLoopTop \/ CheckGeneration \/ WaitTimesOut
  BY <1>7, ChainStays DEF DecodeLoopTop, CheckGeneration, WaitTimesOut, ChainInv, askVars, workVars
<1>8. CASE Take
  BY <1>8, TakeKeepsChain
<1>9. CASE OpenFails
  BY <1>9 DEF OpenFails, ChainInv
<1>10. CASE SendAccepted \/ SendRefused
  BY <1>10, SendKeepsChain
<1>11. CASE SendAgain \/ Drained
  BY <1>11 DEF SendAgain, Drained, ChainInv, ChainFrom, askVars, workVars
<1>12. CASE \E kept \in BOOLEAN : Receive(kept)
  BY <1>12, ChainStays DEF Receive, askVars, workVars
<1>13. CASE Stopped \/ UNCHANGED vars
  BY <1>13, ChainStays DEF Stopped, vars, askVars, workVars, decVars
<1> QED
  BY <1>1, <1>2, <1>3, <1>4, <1>5, <1>6, <1>7, <1>8, <1>9, <1>10, <1>11, <1>12,
     <1>13 DEF Next, OnVideo, Decode

(* Losses, resumes, decode resyncs, wake-ups and EAGAIN never feed the      *)
(* decoder a unit without its reference: only an overflow (on_video()) or a *)
(* refusal by libavcodec breaks the chain between two keyframes.            *)
THEOREM ReferencesKept == Spec => []ChainKept
<1>1. ChainInv => ChainKept
  BY DEF ChainInv, ChainKept
<1> QED
  BY <1>1, TypeInit, TypeNext, ChainInit, ChainNext, PTL DEF Spec

=============================================================================
