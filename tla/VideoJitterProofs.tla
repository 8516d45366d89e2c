------------------------- MODULE VideoJitterProofs -------------------------
(***************************************************************************)
(* Theorems about VideoJitter, for every stream, every capacity and every  *)
(* hold: the type invariant, the order of the buffer, the order and the    *)
(* keyframe gate of what is emitted, and the refinement of KeyframeGate.   *)
(***************************************************************************)
EXTENDS VideoJitter, SequenceTheorems, TLAPS

(* Serial comparison orders the stamps of the stream strictly. *)
LEMMA NewerIrreflexive == \A a \in Stamps : ~TsNewer(a, a)
  <1> SUFFICES ASSUME NEW a \in Stamps PROVE (a - a) % TsMod = 0
    BY DEF TsNewer
  <1>1. a \in Int /\ TsMod \in Nat \ {0}
    BY ConstantsAssumption DEF Stamps, Packet
  <1>2. a - a = 0
    BY <1>1
  <1>3. 0 % TsMod = 0
    BY <1>1
  <1> QED
    BY <1>2, <1>3

LEMMA NewerTransitive ==
    \A a, b, c \in Stamps : TsNewer(a, b) /\ TsNewer(b, c) => TsNewer(a, c)
  BY StampsAssumption

LEMMA NewerTotal ==
    \A a, b \in Stamps : a # b => TsNewer(a, b) \/ TsNewer(b, a)
  BY StampsAssumption

LEMMA NewerAsymmetric ==
    \A a, b \in Stamps : ~(TsNewer(a, b) /\ TsNewer(b, a))
  BY NewerIrreflexive, NewerTransitive

(* A stamp newer than one that is not older than a third is newer than the third. *)
LEMMA NewerThanNotOlder ==
    \A a, b, c \in Stamps : TsNewer(a, b) /\ ~TsNewer(c, b) => TsNewer(a, c)
  BY NewerTransitive, NewerTotal

-----------------------------------------------------------------------------
(* What the drain loop takes off the front is a frame, and the rest are frames. *)
LEMMA FrontIsFrame ==
    ASSUME TypeOK, frames # <<>>
    PROVE  /\ Front \in Frame
           /\ Front = frames[1]
           /\ Tail(frames) \in Seq(Frame)
           /\ Len(Tail(frames)) = Len(frames) - 1
           /\ \A i \in 1 .. Len(Tail(frames)) : Tail(frames)[i] = frames[i + 1]
           /\ Len(frames) \in Nat \ {0}
  BY HeadTailProperties DEF TypeOK, Front

LEMMA NewFrameIsFrame ==
    ASSUME NEW p \in Packets
    PROVE  NewFrame(p) \in Frame
  BY ConstantsAssumption DEF NewFrame, Frame, Ages, Stamps

LEMMA InsertFrameIsSeq ==
    ASSUME frames \in Seq(Frame), NEW p \in Packets, NEW at \in 1 .. Len(frames) + 1
    PROVE  /\ InsertFrame(at, p) \in Seq(Frame)
           /\ Len(InsertFrame(at, p)) = Len(frames) + 1
           /\ \A i \in 1 .. Len(frames) + 1 : InsertFrame(at, p)[i] =
                 IF i < at THEN frames[i]
                 ELSE IF i = at THEN NewFrame(p) ELSE frames[i - 1]
  <1> DEFINE new == InsertFrame(at, p)
  <1>1. Len(frames) + 1 \in Nat
    OBVIOUS
  <1>2. \A i \in 1 .. Len(frames) + 1 :
           (IF i < at THEN frames[i]
            ELSE IF i = at THEN NewFrame(p) ELSE frames[i - 1]) \in Frame
    BY NewFrameIsFrame
  <1>3. new \in [1 .. Len(frames) + 1 -> Frame]
    BY <1>2 DEF InsertFrame
  <1>4. new \in Seq(Frame) /\ Len(new) = Len(frames) + 1
    BY <1>1, <1>3
  <1> QED
    BY <1>4 DEF InsertFrame

LEMMA ReplaceFrame ==
    ASSUME frames \in Seq(Frame), NEW i \in DOMAIN frames, NEW f \in Frame
    PROVE  /\ [frames EXCEPT ![i] = f] \in Seq(Frame)
           /\ Len([frames EXCEPT ![i] = f]) = Len(frames)
           /\ \A j \in 1 .. Len(frames) :
                 [frames EXCEPT ![i] = f][j] = IF j = i THEN f ELSE frames[j]
  <1> DEFINE new == [frames EXCEPT ![i] = f]
  <1>1. Len(frames) \in Nat /\ DOMAIN frames = 1 .. Len(frames)
    OBVIOUS
  <1>2. new \in [1 .. Len(frames) -> Frame]
    BY <1>1
  <1>3. new \in Seq(Frame) /\ Len(new) = Len(frames)
    BY <1>1, <1>2
  <1> QED
    BY <1>1, <1>3

LEMMA AgeIsSeq ==
    ASSUME frames \in Seq(Frame), NEW older,
           older = [i \in DOMAIN frames |->
                       [frames[i] EXCEPT !.age = IF @ <= HoldMs THEN @ + 1 ELSE @]]
    PROVE  older \in Seq(Frame) /\ Len(older) = Len(frames)
  <1>1. Len(frames) \in Nat /\ DOMAIN frames = 1 .. Len(frames)
    OBVIOUS
  <1>2. ASSUME NEW f \in Frame
        PROVE  [f EXCEPT !.age = IF @ <= HoldMs THEN @ + 1 ELSE @] \in Frame
    <2> DEFINE age == IF f.age <= HoldMs THEN f.age + 1 ELSE f.age
    <2>1. HoldMs \in Nat /\ f.age \in Ages
      BY <1>2, ConstantsAssumption DEF Frame
    <2>2. age \in Ages
      BY <2>1 DEF Ages
    <2> HIDE DEF age
    <2>3. [f EXCEPT !.age = age] \in Frame
      BY <1>2, <2>2 DEF Frame
    <2> QED
      BY <2>3 DEF age
  <1>3. older \in [1 .. Len(frames) -> Frame]
    BY <1>1, <1>2
  <1> QED
    BY <1>1, <1>3

-----------------------------------------------------------------------------
(* The type invariant, for every stream: in particular the buffer never     *)
(* holds more than MaxFrames frames, whatever arrives in whatever order.    *)
LEMMA TypeInit == Init => TypeOK
  <1> SUFFICES ASSUME Init PROVE TypeOK
    OBVIOUS
  <1>1. <<>> \in Seq(Frame) /\ <<>> \in Seq(AccessUnit) /\ Len(<<>>) = 0
    BY EmptySeq
  <1>2. MaxFrames \in Nat
    BY ConstantsAssumption
  <1>3. /\ frames \in Seq(Frame) /\ Len(frames) <= MaxFrames
        /\ emitted \in Seq(AccessUnit)
    BY <1>1, <1>2 DEF Init
  <1>4. /\ lastTs \in Stamps \cup {None}
        /\ waitingKeyframe \in BOOLEAN /\ wantKeyframe \in BOOLEAN
        /\ pc \in {"idle", "drain"} /\ skipped \subseteq Stamps
        /\ orderly \in BOOLEAN
    BY DEF Init
  <1> QED
    BY <1>3, <1>4 DEF TypeOK

LEMMA TypeReceive ==
    ASSUME TypeOK, NEW p \in Packets, Receive(p)
    PROVE  TypeOK'
  <1>1. p.ts \in Stamps
    BY DEF Stamps
  <1>2. CASE IgnorePacket(p)
    BY <1>2 DEF IgnorePacket, TypeOK
  <1>3. CASE OpenFrame(p)
    <2>1. PICK at \in 1 .. Len(frames) + 1 : frames' = InsertFrame(at, p)
      BY <1>3 DEF OpenFrame
    <2>2. frames' \in Seq(Frame) /\ Len(frames') = Len(frames) + 1
      BY <2>1, InsertFrameIsSeq DEF TypeOK
    <2>3. Len(frames') <= MaxFrames
      BY <1>3, <2>2, ConstantsAssumption DEF OpenFrame, Acceptable, TypeOK
    <2> QED
      BY <1>3, <2>2, <2>3 DEF OpenFrame, TypeOK
  <1>4. CASE JoinFrame(p)
    <2>1. PICK i \in DOMAIN frames : frames' = AddPacket(i, p)
      BY <1>4 DEF JoinFrame
    <2> DEFINE f == [frames[i] EXCEPT !.packets = @ \cup {p}]
    <2>2. frames[i] \in Frame
      BY ElementOfSeq DEF TypeOK
    <2>3. f \in Frame
      BY <2>2 DEF Frame
    <2>4. frames' = [frames EXCEPT ![i] = f]
      BY <2>1 DEF AddPacket
    <2>5. frames' \in Seq(Frame) /\ Len(frames') = Len(frames)
      BY <2>3, <2>4, ReplaceFrame DEF TypeOK
    <2> QED
      BY <1>4, <2>5 DEF JoinFrame, TypeOK
  <1> QED
    BY <1>2, <1>3, <1>4 DEF Receive

LEMMA TypeDrain ==
    ASSUME TypeOK, Drain
    PROVE  TypeOK'
  <1>1. ASSUME Draining, PopFront
        PROVE  /\ frames' \in Seq(Frame) /\ Len(frames') <= MaxFrames
               /\ lastTs' \in Stamps \cup {None}
    BY <1>1, FrontIsFrame, ConstantsAssumption DEF Draining, PopFront, TypeOK, Frame
  <1>2. CASE EmitFront
    <2>1. [ts |-> Front.ts, idr |-> HasKeyframe(Front), packets |-> Front.packets]
             \in AccessUnit
      BY <1>2, FrontIsFrame DEF EmitFront, Draining, Frame, AccessUnit, HasKeyframe
    <2>2. emitted' \in Seq(AccessUnit)
      BY <1>2, <2>1, AppendProperties DEF EmitFront, TypeOK
    <2> QED
      BY <1>1, <1>2, <2>2 DEF EmitFront, TypeOK
  <1>3. CASE DiscardFront
    <2>1. Front.ts \in Stamps
      BY <1>3, FrontIsFrame DEF DiscardFront, Draining, Frame
    <2> QED
      BY <1>1, <1>3, <2>1 DEF DiscardFront, TypeOK
  <1>4. CASE RenackFront
    <2> DEFINE f == [Front EXCEPT !.renacked = TRUE]
    <2>1. /\ 1 \in DOMAIN frames /\ Front \in Frame /\ Front = frames[1]
      BY <1>4, FrontIsFrame DEF RenackFront, Draining, TypeOK
    <2>2. f \in Frame
      BY <2>1 DEF Frame
    <2>3. frames' = [frames EXCEPT ![1] = f]
      BY <1>4, <2>1 DEF RenackFront
    <2>4. frames' \in Seq(Frame) /\ Len(frames') = Len(frames)
      BY <2>1, <2>2, <2>3, ReplaceFrame DEF TypeOK
    <2> QED
      BY <1>4, <2>4 DEF RenackFront, TypeOK
  <1>5. CASE GiveUpFront
    <2>1. Front.ts \in Stamps
      BY <1>5, FrontIsFrame DEF GiveUpFront, Draining, Frame
    <2> QED
      BY <1>1, <1>5, <2>1 DEF GiveUpFront, TypeOK
  <1>6. CASE EndDrain
    BY <1>6 DEF EndDrain, TypeOK
  <1> QED
    BY <1>2, <1>3, <1>4, <1>5, <1>6 DEF Drain

LEMMA TypeReset ==
    ASSUME TypeOK, Reset
    PROVE  TypeOK'
  <1>1. <<>> \in Seq(Frame) /\ <<>> \in Seq(AccessUnit) /\ Len(<<>>) = 0
    BY EmptySeq
  <1>2. MaxFrames \in Nat
    BY ConstantsAssumption
  <1> QED
    BY <1>1, <1>2 DEF Reset, TypeOK

LEMMA TypeTick ==
    ASSUME TypeOK, Tick
    PROVE  TypeOK'
  <1>1. frames' \in Seq(Frame) /\ Len(frames') = Len(frames)
    BY AgeIsSeq DEF Tick, TypeOK
  <1> QED
    BY <1>1 DEF Tick, TypeOK

THEOREM TypeCorrect == Spec => []TypeOK
  <1>1. TypeOK /\ [Next]_vars => TypeOK'
    <2> SUFFICES ASSUME TypeOK, [Next]_vars PROVE TypeOK'
      OBVIOUS
    <2>1. ASSUME NEW p \in Packets, Receive(p) PROVE TypeOK'
      BY <2>1, TypeReceive
    <2>2. CASE Drain
      BY <2>2, TypeDrain
    <2>3. CASE Reset
      BY <2>3, TypeReset
    <2>4. CASE Tick
      BY <2>4, TypeTick
    <2>5. CASE UNCHANGED vars
      BY <2>5 DEF vars, TypeOK
    <2> QED
      BY <2>1, <2>2, <2>3, <2>4, <2>5 DEF Next
  <1> QED
    BY TypeInit, <1>1, PTL DEF Spec

-----------------------------------------------------------------------------
(* The order of the buffer is inductive on its own: insertion keeps the     *)
(* deque sorted, so its front is older than the rest and the frame popped   *)
(* is older than all that stay.                                             *)
LEMMA PacketStamp == \A p \in Packets : p.ts \in Stamps
  BY DEF Stamps

LEMMA FrameFacts ==
    ASSUME TypeOK, NEW i \in 1 .. Len(frames)
    PROVE  frames[i] \in Frame /\ frames[i].ts \in Stamps
  <1>1. frames[i] \in Frame
    BY ElementOfSeq DEF TypeOK
  <1> QED
    BY <1>1 DEF Frame

LEMMA OrderOpen ==
    ASSUME TypeOK, BufferOrdered, NEW p \in Packets, OpenFrame(p)
    PROVE  BufferOrdered'
  <1>1. PICK at \in 1 .. Len(frames) + 1 :
           InsertionPoint(at, p.ts) /\ frames' = InsertFrame(at, p)
    BY DEF OpenFrame
  <1> DEFINE n == Len(frames)
  <1>2. n \in Nat /\ DOMAIN frames = 1 .. n /\ p.ts \in Stamps
    BY PacketStamp DEF TypeOK
  <1>3. /\ frames' \in Seq(Frame) /\ Len(frames') = n + 1
        /\ \A i \in 1 .. n + 1 : frames'[i] =
              IF i < at THEN frames[i]
              ELSE IF i = at THEN NewFrame(p) ELSE frames[i - 1]
    BY <1>1, InsertFrameIsSeq DEF TypeOK
  <1>4. DOMAIN frames' = 1 .. n + 1
    BY <1>2, <1>3
  <1>5. /\ NewFrame(p).ts = p.ts
        /\ NewFrame(p).packets # {}
        /\ \A q \in NewFrame(p).packets : q.ts = NewFrame(p).ts
    BY DEF NewFrame
  <1>6. lastTs' = lastTs /\ (lastTs # None => TsNewer(p.ts, lastTs))
    BY DEF OpenFrame, Acceptable
  <1>7. /\ \A j \in 1 .. at - 1 : TsNewer(p.ts, frames[j].ts)
        /\ at <= n => TsNewer(frames[at].ts, p.ts)
    <2>1. at <= n => ~TsNewer(p.ts, frames[at].ts) /\ frames[at].ts # p.ts
      BY <1>1, <1>2 DEF InsertionPoint, OpenFrame, HasFrame
    <2>2. at <= n => frames[at].ts \in Stamps
      BY <1>2, FrameFacts
    <2> QED
      BY <1>1, <1>2, <2>1, <2>2, NewerTotal DEF InsertionPoint
  <1>8. \A i \in at .. n : TsNewer(frames[i].ts, p.ts)
    <2> SUFFICES ASSUME NEW i \in at .. n PROVE TsNewer(frames[i].ts, p.ts)
      OBVIOUS
    <2>1. i \in 1 .. n /\ at \in 1 .. n /\ at <= n
      BY <1>2
    <2>2. frames[i].ts \in Stamps /\ frames[at].ts \in Stamps
      BY <1>2, <2>1, FrameFacts
    <2>3. i = at \/ TsNewer(frames[i].ts, frames[at].ts)
      BY <1>2, <2>1 DEF BufferOrdered
    <2> QED
      BY <1>2, <1>7, <2>1, <2>2, <2>3, NewerTransitive
  <1>9. ASSUME NEW i \in 1 .. n + 1
        PROVE  /\ frames'[i].packets # {}
               /\ \A q \in frames'[i].packets : q.ts = frames'[i].ts
               /\ lastTs # None => TsNewer(frames'[i].ts, lastTs)
               /\ \A j \in 1 .. i - 1 : TsNewer(frames'[i].ts, frames'[j].ts)
    <2>1. CASE i < at
      <3>1. i \in 1 .. n /\ frames'[i] = frames[i]
            /\ \A j \in 1 .. i - 1 : frames'[j] = frames[j]
        BY <1>2, <1>3, <2>1
      <3> QED
        BY <1>2, <3>1 DEF BufferOrdered
    <2>2. CASE i = at
      <3>1. frames'[i] = NewFrame(p) /\ \A j \in 1 .. i - 1 : frames'[j] = frames[j]
        BY <1>2, <1>3, <2>2
      <3> QED
        BY <1>5, <1>6, <1>7, <2>2, <3>1
    <2>3. CASE i > at
      <3>1. i - 1 \in at .. n /\ i - 1 \in 1 .. n /\ frames'[i] = frames[i - 1]
        BY <1>2, <1>3, <2>3
      <3>2. ASSUME NEW j \in 1 .. i - 1
            PROVE  TsNewer(frames[i - 1].ts, frames'[j].ts)
        <4>1. CASE j < at
          <5>1. frames'[j] = frames[j] /\ j \in 1 .. (i - 1) - 1
            BY <1>2, <1>3, <2>3, <4>1
          <5> QED
            BY <1>2, <3>1, <5>1 DEF BufferOrdered
        <4>2. CASE j = at
          BY <1>3, <1>5, <1>8, <3>1, <4>2
        <4>3. CASE j > at
          <5>1. frames'[j] = frames[j - 1] /\ j - 1 \in 1 .. (i - 1) - 1
            BY <1>2, <1>3, <2>3, <4>3
          <5> QED
            BY <1>2, <3>1, <5>1 DEF BufferOrdered
        <4> QED
          BY <4>1, <4>2, <4>3
      <3> QED
        BY <1>2, <3>1, <3>2 DEF BufferOrdered
    <2> QED
      BY <2>1, <2>2, <2>3
  <1> QED
    BY <1>4, <1>6, <1>9 DEF BufferOrdered

(* A step that changes no timestamp and only adds packets of a frame's own. *)
LEMMA OrderKept ==
    ASSUME TypeOK, BufferOrdered, lastTs' = lastTs,
           frames' \in Seq(Frame), Len(frames') = Len(frames),
           \A i \in 1 .. Len(frames) :
              /\ frames'[i].ts = frames[i].ts
              /\ frames[i].packets \subseteq frames'[i].packets
              /\ \A q \in frames'[i].packets : q.ts = frames[i].ts
    PROVE  BufferOrdered'
  <1>1. DOMAIN frames = 1 .. Len(frames) /\ DOMAIN frames' = 1 .. Len(frames)
    BY DEF TypeOK
  <1>2. Len(frames) \in Nat
    BY DEF TypeOK
  <1>3. ASSUME NEW i \in 1 .. Len(frames)
        PROVE  /\ frames'[i].packets # {}
               /\ \A q \in frames'[i].packets : q.ts = frames'[i].ts
               /\ lastTs # None => TsNewer(frames'[i].ts, lastTs)
               /\ \A j \in 1 .. i - 1 : TsNewer(frames'[i].ts, frames'[j].ts)
    <2>1. /\ frames[i].packets # {}
          /\ lastTs # None => TsNewer(frames[i].ts, lastTs)
          /\ \A j \in 1 .. i - 1 : TsNewer(frames[i].ts, frames[j].ts)
      BY <1>1 DEF BufferOrdered
    <2>2. \A j \in 1 .. i - 1 : j \in 1 .. Len(frames)
      BY <1>2
    <2> QED
      BY <2>1, <2>2
  <1> QED
    BY <1>1, <1>3 DEF BufferOrdered

LEMMA OrderPop ==
    ASSUME TypeOK, BufferOrdered, frames # <<>>, PopFront
    PROVE  BufferOrdered'
  <1>1. /\ frames' = Tail(frames) /\ lastTs' = frames[1].ts
        /\ Len(frames) \in Nat \ {0}
        /\ Len(frames') = Len(frames) - 1
        /\ \A i \in 1 .. Len(frames') : frames'[i] = frames[i + 1]
        /\ frames' \in Seq(Frame)
    BY FrontIsFrame DEF PopFront
  <1>2. DOMAIN frames = 1 .. Len(frames) /\ DOMAIN frames' = 1 .. Len(frames) - 1
    BY <1>1 DEF TypeOK
  <1>3. ASSUME NEW i \in 1 .. Len(frames) - 1
        PROVE  /\ frames'[i].packets # {}
               /\ \A q \in frames'[i].packets : q.ts = frames'[i].ts
               /\ TsNewer(frames'[i].ts, lastTs')
               /\ \A j \in 1 .. i - 1 : TsNewer(frames'[i].ts, frames'[j].ts)
    <2>1. i + 1 \in 1 .. Len(frames) /\ 1 \in 1 .. (i + 1) - 1
      BY <1>1
    <2>2. \A j \in 1 .. i - 1 : j + 1 \in 1 .. (i + 1) - 1 /\ frames'[j] = frames[j + 1]
      BY <1>1
    <2>3. frames'[i] = frames[i + 1]
      BY <1>1
    <2> QED
      BY <1>1, <1>2, <2>1, <2>2, <2>3 DEF BufferOrdered
  <1> QED
    BY <1>2, <1>3 DEF BufferOrdered

LEMMA OrderJoin ==
    ASSUME TypeOK, BufferOrdered, NEW p \in Packets, JoinFrame(p)
    PROVE  BufferOrdered'
  <1>1. PICK i \in DOMAIN frames : frames[i].ts = p.ts /\ frames' = AddPacket(i, p)
    BY DEF JoinFrame
  <1> DEFINE f == [frames[i] EXCEPT !.packets = @ \cup {p}]
  <1>2. DOMAIN frames = 1 .. Len(frames) /\ i \in 1 .. Len(frames)
    BY <1>1 DEF TypeOK
  <1>3. frames[i] \in Frame
    BY <1>2, FrameFacts
  <1>4. /\ f \in Frame /\ f.ts = frames[i].ts
        /\ f.packets = frames[i].packets \cup {p}
    BY <1>3 DEF Frame
  <1> HIDE DEF f
  <1>5. frames' = [frames EXCEPT ![i] = f]
    BY <1>1 DEF AddPacket, f
  <1>6. /\ frames' \in Seq(Frame) /\ Len(frames') = Len(frames)
        /\ \A j \in 1 .. Len(frames) : frames'[j] = IF j = i THEN f ELSE frames[j]
    BY <1>4, <1>5, ReplaceFrame DEF TypeOK
  <1>7. \A j \in 1 .. Len(frames) : \A q \in frames[j].packets : q.ts = frames[j].ts
    BY <1>2 DEF BufferOrdered
  <1>8. \A j \in 1 .. Len(frames) :
           /\ frames'[j].ts = frames[j].ts
           /\ frames[j].packets \subseteq frames'[j].packets
           /\ \A q \in frames'[j].packets : q.ts = frames[j].ts
    BY <1>1, <1>4, <1>6, <1>7
  <1>9. lastTs' = lastTs
    BY DEF JoinFrame
  <1> QED
    BY <1>6, <1>8, <1>9, OrderKept

LEMMA OrderRenack ==
    ASSUME TypeOK, BufferOrdered, RenackFront
    PROVE  BufferOrdered'
  <1> DEFINE f == [Front EXCEPT !.renacked = TRUE]
  <1>1. /\ Front \in Frame /\ Front = frames[1]
        /\ 1 \in DOMAIN frames /\ DOMAIN frames = 1 .. Len(frames)
    BY FrontIsFrame DEF RenackFront, Draining, TypeOK
  <1>2. f \in Frame /\ f.ts = frames[1].ts /\ f.packets = frames[1].packets
    BY <1>1 DEF Frame
  <1> HIDE DEF f
  <1>3. frames' = [frames EXCEPT ![1] = f] /\ lastTs' = lastTs
    BY <1>1 DEF RenackFront, f
  <1>4. /\ frames' \in Seq(Frame) /\ Len(frames') = Len(frames)
        /\ \A j \in 1 .. Len(frames) : frames'[j] = IF j = 1 THEN f ELSE frames[j]
    BY <1>1, <1>2, <1>3, ReplaceFrame DEF TypeOK
  <1>5. \A j \in 1 .. Len(frames) : \A q \in frames[j].packets : q.ts = frames[j].ts
    BY <1>1 DEF BufferOrdered
  <1> QED
    BY <1>2, <1>3, <1>4, <1>5, OrderKept

LEMMA OrderTick ==
    ASSUME TypeOK, BufferOrdered, Tick
    PROVE  BufferOrdered'
  <1>1. /\ frames' \in Seq(Frame) /\ Len(frames') = Len(frames) /\ lastTs' = lastTs
        /\ DOMAIN frames = 1 .. Len(frames)
    BY AgeIsSeq DEF Tick, TypeOK
  <1>2. \A j \in 1 .. Len(frames) : frames[j] \in Frame
    BY FrameFacts
  <1>3. \A j \in 1 .. Len(frames) :
           frames'[j].ts = frames[j].ts /\ frames'[j].packets = frames[j].packets
    BY <1>1, <1>2 DEF Tick, Frame
  <1>4. \A j \in 1 .. Len(frames) : \A q \in frames[j].packets : q.ts = frames[j].ts
    BY <1>1 DEF BufferOrdered
  <1> QED
    BY <1>1, <1>3, <1>4, OrderKept

LEMMA OrderNext ==
    ASSUME TypeOK, BufferOrdered, [Next]_vars
    PROVE  BufferOrdered'
  <1>1. ASSUME NEW p \in Packets, Receive(p) PROVE BufferOrdered'
    <2>1. CASE IgnorePacket(p)
      BY <2>1 DEF IgnorePacket, BufferOrdered
    <2> QED
      BY <1>1, <2>1, OrderOpen, OrderJoin DEF Receive
  <1>2. CASE Drain
    <2>1. CASE EmitFront
      BY <2>1, OrderPop DEF EmitFront, Draining
    <2>2. CASE DiscardFront
      BY <2>2, OrderPop DEF DiscardFront, Draining
    <2>3. CASE GiveUpFront
      BY <2>3, OrderPop DEF GiveUpFront, Draining
    <2>4. CASE EndDrain
      BY <2>4 DEF EndDrain, BufferOrdered
    <2> QED
      BY <1>2, <2>1, <2>2, <2>3, <2>4, OrderRenack DEF Drain
  <1>3. CASE Reset
    BY <1>3 DEF Reset, BufferOrdered
  <1>4. CASE UNCHANGED vars
    BY <1>4 DEF vars, BufferOrdered
  <1> QED
    BY <1>1, <1>2, <1>3, <1>4, OrderTick DEF Next

(* The buffer is sorted, and newer than all it has let go, for any network. *)
THEOREM BufferAlwaysOrdered == Spec => []BufferOrdered
  <1>1. Init => BufferOrdered
    BY DEF Init, BufferOrdered
  <1>2. BufferOrdered /\ TypeOK /\ [Next]_vars => BufferOrdered'
    BY OrderNext
  <1> QED
    BY <1>1, <1>2, TypeCorrect, PTL DEF Spec

-----------------------------------------------------------------------------
(* What has been consumed, emitted or not, is not newer than lastTs, and    *)
(* while the gate is open an IDR newer than every loss has been emitted.    *)
Consumed(t, upTo) == upTo # None /\ ~TsNewer(t, upTo)

IdrSince(t, units) ==
    \E k \in 1 .. Len(units) : units[k].idr /\ TsNewer(units[k].ts, t)

GateInv ==
    /\ \A t \in skipped : Consumed(t, lastTs)
    /\ \A i \in 1 .. Len(emitted) : Consumed(emitted[i].ts, lastTs)
    /\ ~waitingKeyframe => emitted # <<>> /\ \A t \in skipped : IdrSince(t, emitted)

EmissionInv == DecodeOrder /\ GateAfterLoss /\ GateInv

LEMMA EmissionKept ==
    ASSUME EmissionInv, UNCHANGED <<lastTs, waitingKeyframe, emitted, skipped>>
    PROVE  EmissionInv'
  BY DEF EmissionInv, DecodeOrder, GateAfterLoss, GateInv, Consumed, IdrSince

(* Popping the front moves lastTs past everything consumed before. *)
LEMMA PopMovesOn ==
    ASSUME TypeOK, BufferOrdered, frames # <<>>, PopFront
    PROVE  /\ lastTs' = Front.ts /\ Front.ts \in Stamps
           /\ \A t \in Stamps : Consumed(t, lastTs) => TsNewer(Front.ts, t) /\ Consumed(t, lastTs')
           /\ Consumed(Front.ts, lastTs')
  <1>1. lastTs' = Front.ts /\ Front.ts \in Stamps /\ Front = frames[1]
    BY FrontIsFrame DEF PopFront, Frame
  <1>2. lastTs' # None
    BY <1>1, ConstantsAssumption
  <1>3. 1 \in DOMAIN frames
    BY FrontIsFrame DEF TypeOK
  <1>4. lastTs # None => lastTs \in Stamps /\ TsNewer(Front.ts, lastTs)
    BY <1>1, <1>3 DEF BufferOrdered, TypeOK
  <1>5. ASSUME NEW t \in Stamps, Consumed(t, lastTs)
        PROVE  TsNewer(Front.ts, t) /\ ~TsNewer(t, Front.ts)
    BY <1>1, <1>4, <1>5, NewerThanNotOlder, NewerAsymmetric DEF Consumed
  <1> QED
    BY <1>1, <1>2, <1>5, NewerIrreflexive DEF Consumed

LEMMA EmittedStamps ==
    ASSUME TypeOK, NEW i \in 1 .. Len(emitted)
    PROVE  emitted[i].ts \in Stamps
  <1>1. emitted[i] \in AccessUnit
    BY ElementOfSeq DEF TypeOK
  <1> QED
    BY <1>1 DEF AccessUnit

(* A frame consumed without being emitted, behind a gate that ends up shut. *)
LEMMA EmissionSkip ==
    ASSUME TypeOK, BufferOrdered, EmissionInv, frames # <<>>, PopFront,
           waitingKeyframe' = TRUE, emitted' = emitted,
           skipped' = skipped \cup {Front.ts}
    PROVE  EmissionInv'
  <1>1. DOMAIN emitted = 1 .. Len(emitted) /\ skipped \subseteq Stamps
    BY DEF TypeOK
  <1>2. \A i \in 1 .. Len(emitted) : Consumed(emitted[i].ts, lastTs')
    BY PopMovesOn, EmittedStamps DEF EmissionInv, GateInv
  <1>3. \A t \in skipped' : Consumed(t, lastTs')
    BY <1>1, PopMovesOn DEF EmissionInv, GateInv
  <1>4. \A i \in 1 .. Len(emitted) : ~TsNewer(emitted[i].ts, Front.ts)
    BY <1>2, PopMovesOn DEF Consumed
  <1>5. GateInv'
    BY <1>2, <1>3 DEF GateInv
  <1>6. DecodeOrder'
    BY <1>1, <1>2 DEF EmissionInv, DecodeOrder, Consumed
  <1>7. GateAfterLoss'
    BY <1>1, <1>4 DEF EmissionInv, GateAfterLoss
  <1> QED
    BY <1>5, <1>6, <1>7 DEF EmissionInv

LEMMA EmissionEmit ==
    ASSUME TypeOK, BufferOrdered, EmissionInv, EmitFront
    PROVE  EmissionInv'
  <1> DEFINE n == Len(emitted)
             au == [ts |-> Front.ts, idr |-> HasKeyframe(Front),
                    packets |-> Front.packets]
  <1>1. /\ frames # <<>> /\ PopFront /\ Front \in Frame
        /\ waitingKeyframe' = FALSE /\ skipped' = skipped
        /\ emitted' = Append(emitted, au)
        /\ waitingKeyframe => HasKeyframe(Front)
    BY FrontIsFrame DEF EmitFront, Draining
  <1>2. au \in AccessUnit
    BY <1>1 DEF Frame, AccessUnit, HasKeyframe
  <1>3. au.ts = Front.ts /\ (au.idr <=> HasKeyframe(Front))
    OBVIOUS
  <1>4. /\ n \in Nat /\ DOMAIN emitted = 1 .. n /\ skipped \subseteq Stamps
    BY DEF TypeOK
  <1> HIDE DEF au
  <1>5. /\ emitted' \in Seq(AccessUnit) /\ Len(emitted') = n + 1
        /\ emitted' # <<>>
        /\ \A i \in 1 .. n : emitted'[i] = emitted[i]
        /\ emitted'[n + 1] = au
        /\ DOMAIN emitted' = 1 .. n + 1
    BY <1>1, <1>2, <1>4, AppendProperties DEF TypeOK
  <1>6. /\ lastTs' = Front.ts /\ Front.ts \in Stamps
        /\ \A t \in Stamps : Consumed(t, lastTs) => TsNewer(Front.ts, t) /\ Consumed(t, lastTs')
        /\ Consumed(Front.ts, lastTs')
    BY <1>1, PopMovesOn
  <1>7. \A t \in skipped : TsNewer(au.ts, t) /\ Consumed(t, lastTs')
    BY <1>3, <1>4, <1>6 DEF EmissionInv, GateInv
  <1>8. \A i \in 1 .. n : TsNewer(au.ts, emitted[i].ts) /\ Consumed(emitted[i].ts, lastTs')
    BY <1>3, <1>6, EmittedStamps DEF EmissionInv, GateInv
  <1>9. \A i \in 1 .. n + 1 : Consumed(emitted'[i].ts, lastTs')
    <2> SUFFICES ASSUME NEW i \in 1 .. n + 1 PROVE Consumed(emitted'[i].ts, lastTs')
      OBVIOUS
    <2>1. i \in 1 .. n \/ i = n + 1
      BY <1>4
    <2> QED
      BY <1>3, <1>5, <1>6, <1>8, <2>1 DEF Consumed
  <1>10. \A t \in skipped : \E k \in 1 .. n + 1 :
            emitted'[k].idr /\ TsNewer(emitted'[k].ts, t)
    <2> SUFFICES ASSUME NEW t \in skipped
                 PROVE  \E k \in 1 .. n + 1 : emitted'[k].idr /\ TsNewer(emitted'[k].ts, t)
      OBVIOUS
    <2>1. CASE HasKeyframe(Front)
      BY <1>3, <1>4, <1>5, <1>7, <2>1
    <2>2. CASE ~HasKeyframe(Front)
      <3>1. PICK k \in 1 .. n : emitted[k].idr /\ TsNewer(emitted[k].ts, t)
        BY <1>1, <2>2 DEF EmissionInv, GateInv, IdrSince
      <3>2. k \in 1 .. n + 1
        BY <1>4
      <3> QED
        BY <1>5, <3>1, <3>2
    <2> QED
      BY <2>1, <2>2
  <1>11. GateInv'
    BY <1>1, <1>5, <1>7, <1>9, <1>10 DEF GateInv, IdrSince
  <1>12. DecodeOrder'
    <2>1. ASSUME NEW i \in 1 .. n + 1, NEW j \in 1 .. i - 1
          PROVE  TsNewer(emitted'[i].ts, emitted'[j].ts)
      <3>1. CASE i \in 1 .. n
        <4>1. j \in 1 .. n /\ emitted'[i] = emitted[i] /\ emitted'[j] = emitted[j]
          BY <1>4, <1>5, <3>1
        <4> QED
          BY <1>4, <3>1, <4>1 DEF EmissionInv, DecodeOrder
      <3>2. CASE i = n + 1
        BY <1>4, <1>5, <1>8, <3>2
      <3> QED
        BY <1>4, <3>1, <3>2
    <2> QED
      BY <1>5, <1>9, <2>1 DEF DecodeOrder, Consumed
  <1>13. GateAfterLoss'
    <2>1. emitted'[1].idr
      <3>1. CASE emitted = <<>>
        <4>1. n = 0 /\ HasKeyframe(Front)
          BY <1>1, <3>1 DEF EmissionInv, GateInv
        <4> QED
          BY <1>3, <1>5, <4>1
      <3>2. CASE emitted # <<>>
        <4>1. 1 \in 1 .. n /\ emitted[1].idr
          BY <3>2, EmptySeq DEF EmissionInv, GateAfterLoss, TypeOK
        <4> QED
          BY <1>5, <4>1
      <3> QED
        BY <3>1, <3>2
    <2>2. ASSUME NEW i \in 1 .. n + 1, NEW t \in skipped,
                 TsNewer(emitted'[i].ts, t)
          PROVE  \E k \in 1 .. i : emitted'[k].idr /\ TsNewer(emitted'[k].ts, t)
      <3>1. CASE i \in 1 .. n
        <4>1. PICK k \in 1 .. i : emitted[k].idr /\ TsNewer(emitted[k].ts, t)
          BY <1>4, <1>5, <2>2, <3>1 DEF EmissionInv, GateAfterLoss
        <4>2. k \in 1 .. n
          BY <1>4, <3>1
        <4> QED
          BY <1>5, <4>1, <4>2
      <3>2. CASE i = n + 1
        BY <1>10, <3>2
      <3> QED
        BY <1>4, <3>1, <3>2
    <2> QED
      BY <1>1, <1>5, <2>1, <2>2 DEF GateAfterLoss
  <1> QED
    BY <1>11, <1>12, <1>13 DEF EmissionInv

LEMMA EmissionNext ==
    ASSUME TypeOK, BufferOrdered, EmissionInv, [Next]_vars
    PROVE  EmissionInv'
  <1>1. ASSUME NEW p \in Packets, Receive(p) PROVE EmissionInv'
    BY <1>1, EmissionKept DEF Receive, IgnorePacket, OpenFrame, JoinFrame
  <1>2. CASE Drain
    <2>1. CASE DiscardFront
      <3>1. /\ frames # <<>> /\ PopFront /\ waitingKeyframe' = TRUE
            /\ emitted' = emitted /\ skipped' = skipped \cup {Front.ts}
        BY <2>1 DEF DiscardFront, Draining, TypeOK
      <3> QED
        BY <3>1, EmissionSkip
    <2>2. CASE GiveUpFront
      <3>1. /\ frames # <<>> /\ PopFront /\ waitingKeyframe' = TRUE
            /\ emitted' = emitted /\ skipped' = skipped \cup {Front.ts}
        BY <2>2 DEF GiveUpFront, Draining
      <3> QED
        BY <3>1, EmissionSkip
    <2>3. CASE RenackFront
      BY <2>3, EmissionKept DEF RenackFront
    <2>4. CASE EndDrain
      BY <2>4, EmissionKept DEF EndDrain
    <2> QED
      BY <1>2, <2>1, <2>2, <2>3, <2>4, EmissionEmit DEF Drain
  <1>3. CASE Reset
    <2>1. emitted' = <<>> /\ skipped' = {} /\ waitingKeyframe' = TRUE
      BY <1>3 DEF Reset
    <2>2. DOMAIN emitted' = {} /\ 1 .. Len(emitted') = {}
      BY <2>1
    <2> QED
      BY <2>1, <2>2 DEF EmissionInv, DecodeOrder, GateAfterLoss, GateInv
  <1>4. CASE Tick
    BY <1>4, EmissionKept DEF Tick
  <1>5. CASE UNCHANGED vars
    BY <1>5, EmissionKept DEF vars
  <1> QED
    BY <1>1, <1>2, <1>3, <1>4, <1>5 DEF Next

LEMMA EmissionInit == Init => EmissionInv
  <1> SUFFICES ASSUME Init PROVE EmissionInv
    OBVIOUS
  <1>1. emitted = <<>> /\ skipped = {} /\ waitingKeyframe = TRUE
    BY DEF Init
  <1>2. DOMAIN emitted = {} /\ 1 .. Len(emitted) = {}
    BY <1>1
  <1> QED
    BY <1>1, <1>2 DEF EmissionInv, DecodeOrder, GateAfterLoss, GateInv

LEMMA EmissionCorrect == Spec => []EmissionInv
  <1>1. TypeOK /\ BufferOrdered /\ EmissionInv /\ [Next]_vars => EmissionInv'
    BY EmissionNext
  <1> QED
    BY <1>1, EmissionInit, TypeCorrect, BufferAlwaysOrdered, PTL DEF Spec

(* Frames reach the decoder in strictly ascending timestamp order, whatever *)
(* the network reorders, repeats or loses.                                  *)
THEOREM AlwaysInDecodeOrder == Spec => []DecodeOrder
  <1>1. EmissionInv => DecodeOrder
    BY DEF EmissionInv
  <1> QED
    BY <1>1, EmissionCorrect, PTL

(* After any frame consumed without being emitted, the decoder sees nothing *)
(* newer before an IDR.                                                     *)
THEOREM AlwaysGateAfterLoss == Spec => []GateAfterLoss
  <1>1. EmissionInv => GateAfterLoss
    BY DEF EmissionInv
  <1> QED
    BY <1>1, EmissionCorrect, PTL

-----------------------------------------------------------------------------
(* The refinement: each step of the buffer is a step of the gate or none.   *)
Units == [i \in DOMAIN emitted |-> [ts |-> emitted[i].ts, idr |-> emitted[i].idr]]

LEMMA GateStutter ==
    ASSUME UNCHANGED <<lastTs, waitingKeyframe, emitted>>
    PROVE  UNCHANGED Gate!gateVars
  BY DEF Gate!gateVars

LEMMA GateFeed ==
    ASSUME TypeOK, BufferOrdered, EmitFront
    PROVE  Gate!Next
  <1> DEFINE unit == [ts |-> Front.ts, idr |-> HasKeyframe(Front)]
             au   == [ts |-> Front.ts, idr |-> HasKeyframe(Front),
                      packets |-> Front.packets]
  <1>1. /\ frames # <<>> /\ PopFront /\ Front \in Frame /\ Front = frames[1]
        /\ waitingKeyframe' = FALSE /\ emitted' = Append(emitted, au)
        /\ waitingKeyframe => HasKeyframe(Front)
    BY FrontIsFrame DEF EmitFront, Draining
  <1>2. unit \in Gate!AccessUnit /\ au \in AccessUnit
    BY <1>1 DEF Gate!AccessUnit, AccessUnit, Frame, HasKeyframe
  <1>3. /\ Len(emitted') = Len(emitted) + 1 /\ Len(emitted) \in Nat
        /\ \A i \in 1 .. Len(emitted) : emitted'[i] = emitted[i]
        /\ emitted'[Len(emitted) + 1] = au
        /\ DOMAIN emitted = 1 .. Len(emitted) /\ DOMAIN emitted' = 1 .. Len(emitted')
    BY <1>1, <1>2, AppendProperties DEF TypeOK
  <1>4. au.ts = unit.ts /\ au.idr = unit.idr
    OBVIOUS
  <1> HIDE DEF au
  <1>5. Units' = Append(Units, unit)
    <2>1. Units \in Seq(Gate!AccessUnit) /\ Len(Units) = Len(emitted)
      <3>1. \A i \in 1 .. Len(emitted) : emitted[i] \in AccessUnit
        BY ElementOfSeq DEF TypeOK
      <3> QED
        BY <1>3, <3>1 DEF Units, AccessUnit, Gate!AccessUnit
    <2>2. \A i \in 1 .. Len(emitted) + 1 : Units'[i] = Append(Units, unit)[i]
      BY <1>2, <1>3, <1>4, <2>1, AppendProperties DEF Units
    <2>3. /\ Append(Units, unit) \in Seq(Gate!AccessUnit)
          /\ Len(Append(Units, unit)) = Len(emitted) + 1
      BY <1>2, <2>1, AppendProperties
    <2>4. DOMAIN Units' = 1 .. Len(emitted) + 1
      BY <1>3 DEF Units
    <2>5. Units' = [i \in 1 .. Len(emitted) + 1 |-> Units'[i]]
      BY <2>4 DEF Units
    <2>6. Append(Units, unit) = [i \in 1 .. Len(emitted) + 1 |-> Append(Units, unit)[i]]
      BY <1>3, <2>3
    <2> QED
      BY <2>2, <2>5, <2>6
  <1>6. Gate!Fresh(unit.ts)
    <2>1. 1 \in DOMAIN frames
      BY <1>1, FrontIsFrame DEF TypeOK
    <2> QED
      BY <1>1, <2>1 DEF Gate!Fresh, BufferOrdered
  <1>7. PICK u \in Gate!AccessUnit : u = unit
    BY <1>2
  <1>8. Gate!Feed(u)
    BY <1>1, <1>5, <1>6, <1>7 DEF Gate!Feed, Gate!Fresh, Units, PopFront
  <1> QED
    BY <1>7, <1>8 DEF Gate!Next

LEMMA GateLose ==
    ASSUME TypeOK, BufferOrdered, frames # <<>>, PopFront,
           waitingKeyframe' = TRUE, emitted' = emitted
    PROVE  Gate!Next
  <1>1. Front = frames[1] /\ Front.ts \in Stamps /\ 1 \in DOMAIN frames
    BY FrontIsFrame DEF Frame, TypeOK
  <1>2. Gate!Fresh(Front.ts)
    BY <1>1 DEF Gate!Fresh, BufferOrdered
  <1>3. Gate!Lose(Front.ts)
    BY <1>2 DEF Gate!Lose, PopFront
  <1> QED
    BY <1>1, <1>3 DEF Gate!Next

LEMMA GateStep ==
    ASSUME TypeOK, BufferOrdered, [Next]_vars
    PROVE  [Gate!Next]_(Gate!gateVars)
  <1>1. ASSUME NEW p \in Packets, Receive(p) PROVE UNCHANGED Gate!gateVars
    BY <1>1, GateStutter DEF Receive, IgnorePacket, OpenFrame, JoinFrame
  <1>2. CASE EmitFront
    BY <1>2, GateFeed
  <1>3. CASE DiscardFront \/ GiveUpFront
    <2>1. /\ frames # <<>> /\ PopFront
          /\ waitingKeyframe' = TRUE /\ emitted' = emitted
      BY <1>3 DEF DiscardFront, GiveUpFront, Draining, TypeOK
    <2> QED
      BY <2>1, GateLose
  <1>4. CASE RenackFront \/ EndDrain \/ Tick \/ UNCHANGED vars
    BY <1>4, GateStutter DEF RenackFront, EndDrain, Tick, vars
  <1>5. CASE Reset
    <2>1. Units' = <<>>
      BY <1>5 DEF Reset, Units
    <2>2. Gate!Restart
      BY <1>5, <2>1 DEF Gate!Restart, Reset, Units
    <2> QED
      BY <2>2 DEF Gate!Next
  <1> QED
    BY <1>1, <1>2, <1>3, <1>4, <1>5 DEF Next, Drain

(* Whatever the network does, what the buffer feeds the decoder is a        *)
(* behaviour of KeyframeGate.                                               *)
THEOREM ImplementsGate == Spec => GateSpec
  <1>1. Init => Gate!Init
    <2> SUFFICES ASSUME Init PROVE Gate!Init
      OBVIOUS
    <2>1. Units = <<>>
      BY DEF Init, Units
    <2> QED
      BY <2>1 DEF Init, Gate!Init, Units
  <1>2. TypeOK /\ BufferOrdered /\ [Next]_vars => [Gate!Next]_(Gate!gateVars)
    BY GateStep
  <1> QED
    BY <1>1, <1>2, TypeCorrect, BufferAlwaysOrdered, PTL DEF Spec, GateSpec, Gate!Spec
-----------------------------------------------------------------------------
(* No complete frame waits between two calls: only a drain loop that looked *)
(* at the front and could not assemble it makes the buffer idle, and what   *)
(* runs while it is idle gives the front no packet.                         *)
LEMMA FrontAges ==
    ASSUME TypeOK, Tick, frames # <<>>
    PROVE  frames' # <<>> /\ Front'.packets = Front.packets
  <1>1. /\ frames' \in Seq(Frame) /\ Len(frames') = Len(frames)
        /\ frames' = [i \in DOMAIN frames |->
                        [frames[i] EXCEPT !.age = IF @ <= HoldMs THEN @ + 1 ELSE @]]
    BY AgeIsSeq DEF Tick, TypeOK
  <1>2. Front \in Frame /\ Front = frames[1] /\ Len(frames) \in Nat \ {0}
    BY FrontIsFrame
  <1>3. frames' # <<>>
    BY <1>1, <1>2, EmptySeq
  <1>4. 1 \in DOMAIN frames
    BY <1>2 DEF TypeOK
  <1>5. Front' = frames'[1]
    BY <1>1, <1>3, HeadTailProperties DEF Front
  <1> QED
    BY <1>1, <1>2, <1>3, <1>4, <1>5 DEF Frame

LEMMA WaitsNext ==
    ASSUME TypeOK, NoCompleteFrameWaits, [Next]_vars
    PROVE  NoCompleteFrameWaits'
  <1>1. ASSUME NEW p \in Packets, Receive(p) PROVE NoCompleteFrameWaits'
    BY <1>1 DEF Receive, IgnorePacket, OpenFrame, JoinFrame, NoCompleteFrameWaits, Front
  <1>2. CASE Drain
    <2>1. CASE EndDrain
      BY <2>1 DEF EndDrain, NoCompleteFrameWaits, Front
    <2>2. CASE EmitFront \/ DiscardFront \/ RenackFront \/ GiveUpFront
      BY <2>2 DEF EmitFront, DiscardFront, RenackFront, GiveUpFront, Draining,
                  NoCompleteFrameWaits
    <2> QED
      BY <1>2, <2>1, <2>2 DEF Drain
  <1>3. CASE Reset
    BY <1>3 DEF Reset, NoCompleteFrameWaits
  <1>4. CASE Tick
    <2>1. pc = "idle" /\ frames # <<>>
      BY <1>4 DEF Tick, TypeOK
    <2>2. ~Assemblable(Front)
      BY <2>1 DEF NoCompleteFrameWaits
    <2>3. ~Assemblable(Front')
      BY <1>4, <2>1, <2>2, FrontAges DEF Assemblable
    <2> QED
      BY <2>3 DEF NoCompleteFrameWaits, Assemblable
  <1>5. CASE UNCHANGED vars
    BY <1>5 DEF vars, NoCompleteFrameWaits, Front
  <1> QED
    BY <1>1, <1>2, <1>3, <1>4, <1>5 DEF Next

(* "healthy frames still emit at once", whatever arrived in whatever order. *)
THEOREM NeverKeepsCompleteFrame == Spec => []NoCompleteFrameWaits
  <1>1. Init => NoCompleteFrameWaits
    BY DEF Init, NoCompleteFrameWaits
  <1>2. TypeOK /\ NoCompleteFrameWaits /\ [Next]_vars => NoCompleteFrameWaits'
    BY WaitsNext
  <1> QED
    BY <1>1, <1>2, TypeCorrect, PTL DEF Spec

-----------------------------------------------------------------------------
(* A P-frame follows its predecessor: while the gate is open the last frame *)
(* emitted is the last one consumed, and while the stream came in order no  *)
(* frame older than a buffered one is missing from the buffer.              *)
LastInv ==
    ~waitingKeyframe => emitted # <<>> /\ lastTs = emitted[Len(emitted)].ts

OrderlyInv ==
    orderly => \A i \in 1 .. Len(frames), t \in Stamps :
                  TsNewer(frames[i].ts, t) => Seen(t)

ReferenceInv == LastInv /\ OrderlyInv /\ NoBrokenReference

LEMMA OrderlyKept ==
    ASSUME TypeOK, OrderlyInv, lastTs' = lastTs, orderly' = orderly,
           frames' \in Seq(Frame), Len(frames') = Len(frames),
           \A i \in 1 .. Len(frames) : frames'[i].ts = frames[i].ts
    PROVE  OrderlyInv'
  <1>1. DOMAIN frames = 1 .. Len(frames) /\ DOMAIN frames' = 1 .. Len(frames)
    BY DEF TypeOK
  <1>2. \A t : Seen(t) => Seen(t)'
    BY <1>1 DEF Seen, HasFrame
  <1> QED
    BY <1>2 DEF OrderlyInv

LEMMA OrderlyOpen ==
    ASSUME TypeOK, OrderlyInv, NEW p \in Packets, OpenFrame(p)
    PROVE  OrderlyInv'
  <1>1. PICK at \in 1 .. Len(frames) + 1 : frames' = InsertFrame(at, p)
    BY DEF OpenFrame
  <1> DEFINE n == Len(frames)
  <1>2. n \in Nat /\ DOMAIN frames = 1 .. n
    BY DEF TypeOK
  <1>3. /\ frames' \in Seq(Frame) /\ Len(frames') = n + 1
        /\ \A i \in 1 .. n + 1 : frames'[i] =
              IF i < at THEN frames[i]
              ELSE IF i = at THEN NewFrame(p) ELSE frames[i - 1]
    BY <1>1, InsertFrameIsSeq DEF TypeOK
  <1>4. DOMAIN frames' = 1 .. n + 1 /\ lastTs' = lastTs
    BY <1>2, <1>3 DEF OpenFrame
  <1>5. ASSUME NEW t, HasFrame(t) PROVE HasFrame(t)'
    <2>1. PICK j \in 1 .. n : frames[j].ts = t
      BY <1>2, <1>5 DEF HasFrame
    <2>2. CASE j < at
      <3>1. j \in 1 .. n + 1 /\ frames'[j] = frames[j]
        BY <1>2, <1>3, <2>2
      <3> QED
        BY <1>4, <2>1, <3>1 DEF HasFrame
    <2>3. CASE ~(j < at)
      <3>1. j + 1 \in 1 .. n + 1 /\ ~(j + 1 < at) /\ j + 1 # at /\ (j + 1) - 1 = j
        BY <1>2, <2>3
      <3>2. frames'[j + 1] = frames[j]
        BY <1>3, <3>1
      <3> QED
        BY <1>4, <2>1, <3>1, <3>2 DEF HasFrame
    <2> QED
      BY <2>2, <2>3
  <1>6. \A t : Seen(t) => Seen(t)'
    BY <1>4, <1>5 DEF Seen
  <1>7. ASSUME NEW i \in 1 .. n + 1, NEW t \in Stamps, orderly',
               TsNewer(frames'[i].ts, t)
        PROVE  Seen(t)
    <2>1. orderly /\ (TsNewer(p.ts, t) => Seen(t))
      BY <1>7 DEF OpenFrame
    <2>2. CASE i < at
      <3>1. i \in 1 .. n /\ frames'[i] = frames[i]
        BY <1>2, <1>3, <2>2
      <3> QED
        BY <1>7, <2>1, <3>1 DEF OrderlyInv
    <2>3. CASE i = at
      BY <1>3, <1>7, <2>1, <2>3 DEF NewFrame
    <2>4. CASE i > at
      <3>1. i - 1 \in 1 .. n /\ frames'[i] = frames[i - 1]
        BY <1>2, <1>3, <2>4
      <3> QED
        BY <1>7, <2>1, <3>1 DEF OrderlyInv
    <2> QED
      BY <1>2, <2>2, <2>3, <2>4
  <1> QED
    BY <1>3, <1>6, <1>7 DEF OrderlyInv

LEMMA OrderlyPop ==
    ASSUME TypeOK, BufferOrdered, OrderlyInv, frames # <<>>, PopFront,
           orderly' = orderly
    PROVE  OrderlyInv'
  <1>1. /\ frames' = Tail(frames) /\ Front = frames[1]
        /\ Len(frames) \in Nat \ {0}
        /\ Len(frames') = Len(frames) - 1
        /\ \A i \in 1 .. Len(frames') : frames'[i] = frames[i + 1]
        /\ frames' \in Seq(Frame)
    BY FrontIsFrame DEF PopFront
  <1>2. DOMAIN frames = 1 .. Len(frames) /\ DOMAIN frames' = 1 .. Len(frames) - 1
    BY <1>1 DEF TypeOK
  <1>3. /\ Consumed(Front.ts, lastTs')
        /\ \A t \in Stamps : Consumed(t, lastTs) => Consumed(t, lastTs')
    BY PopMovesOn
  <1>4. ASSUME NEW t \in Stamps, Seen(t) PROVE Seen(t)'
    <2>1. CASE HasFrame(t)
      <3>1. PICK j \in 1 .. Len(frames) : frames[j].ts = t
        BY <1>2, <2>1 DEF HasFrame
      <3>2. CASE j = 1
        BY <1>1, <1>3, <3>1, <3>2 DEF Seen, Consumed
      <3>3. CASE j # 1
        <4>1. j - 1 \in 1 .. Len(frames) - 1 /\ (j - 1) + 1 = j
          BY <1>1, <3>3
        <4>2. frames'[j - 1] = frames[j]
          BY <1>1, <4>1
        <4> QED
          BY <1>2, <3>1, <4>1, <4>2 DEF Seen, HasFrame
      <3> QED
        BY <3>2, <3>3
    <2>2. CASE Consumed(t, lastTs)
      BY <1>3, <2>2 DEF Seen, Consumed
    <2> QED
      BY <1>4, <2>1, <2>2 DEF Seen, Consumed
  <1>5. ASSUME NEW i \in 1 .. Len(frames'), NEW t \in Stamps, orderly,
               TsNewer(frames'[i].ts, t)
        PROVE  Seen(t)
    <2>1. i + 1 \in 1 .. Len(frames) /\ frames'[i] = frames[i + 1]
      BY <1>1
    <2> QED
      BY <1>5, <2>1 DEF OrderlyInv
  <1> QED
    BY <1>4, <1>5 DEF OrderlyInv

(* The front of the sorted buffer is the oldest frame it holds. *)
LEMMA FrontIsOldest ==
    ASSUME TypeOK, BufferOrdered, frames # <<>>, NEW t \in Stamps, TsNewer(Front.ts, t)
    PROVE  ~HasFrame(t)
  <1>1. /\ Front = frames[1] /\ Front.ts \in Stamps
        /\ DOMAIN frames = 1 .. Len(frames) /\ Len(frames) \in Nat \ {0}
    BY FrontIsFrame DEF Frame, TypeOK
  <1>2. SUFFICES ASSUME NEW j \in 1 .. Len(frames), frames[j].ts = t PROVE FALSE
    BY <1>1 DEF HasFrame
  <1>3. CASE j = 1
    BY <1>1, <1>2, <1>3, NewerIrreflexive
  <1>4. CASE j # 1
    <2>1. 1 \in 1 .. j - 1
      BY <1>1, <1>4
    <2>2. TsNewer(t, Front.ts)
      BY <1>1, <1>2, <2>1 DEF BufferOrdered
    <2> QED
      BY <1>1, <2>2, NewerAsymmetric
  <1> QED
    BY <1>3, <1>4

LEMMA ReferenceEmit ==
    ASSUME TypeOK, BufferOrdered, ReferenceInv, EmitFront
    PROVE  ReferenceInv'
  <1> DEFINE n == Len(emitted)
             au == [ts |-> Front.ts, idr |-> HasKeyframe(Front),
                    packets |-> Front.packets]
             Follows(i) == /\ i > 1
                           /\ \A t \in Stamps : ~(/\ TsNewer(emitted'[i].ts, t)
                                                  /\ TsNewer(t, emitted'[i - 1].ts))
  <1>1. /\ frames # <<>> /\ PopFront /\ Front \in Frame /\ orderly' = orderly
        /\ emitted' = Append(emitted, au)
        /\ waitingKeyframe => HasKeyframe(Front)
    BY FrontIsFrame DEF EmitFront, Draining
  <1>2. au \in AccessUnit
    BY <1>1 DEF Frame, AccessUnit, HasKeyframe
  <1>3. au.ts = Front.ts /\ (au.idr <=> HasKeyframe(Front))
    OBVIOUS
  <1>4. n \in Nat /\ DOMAIN emitted = 1 .. n
    BY DEF TypeOK
  <1> HIDE DEF au
  <1>5. /\ Len(emitted') = n + 1 /\ emitted' # <<>> /\ DOMAIN emitted' = 1 .. n + 1
        /\ \A i \in 1 .. n : emitted'[i] = emitted[i]
        /\ emitted'[n + 1] = au
    BY <1>1, <1>2, <1>4, AppendProperties DEF TypeOK
  <1>6. LastInv'
    BY <1>1, <1>3, <1>5 DEF LastInv, PopFront
  <1>7. OrderlyInv'
    BY <1>1, OrderlyPop DEF ReferenceInv
  <1>8. ASSUME orderly, NEW i \in 1 .. n
        PROVE  emitted'[i].idr \/ Follows(i)
    <2>1. emitted[i].idr \/ FollowsPredecessor(i)
      BY <1>4, <1>8 DEF ReferenceInv, NoBrokenReference
    <2>2. i > 1 => i - 1 \in 1 .. n
      BY <1>4
    <2> QED
      BY <1>5, <2>1, <2>2 DEF FollowsPredecessor
  <1>9. ASSUME orderly, ~HasKeyframe(Front)
        PROVE  Follows(n + 1)
    <2>1. emitted # <<>> /\ lastTs = emitted[n].ts
      BY <1>1, <1>9 DEF ReferenceInv, LastInv
    <2>2. n \in 1 .. n
      BY <1>4, <2>1, EmptySeq DEF TypeOK
    <2>3. lastTs # None
      BY <2>1, <2>2, EmittedStamps, ConstantsAssumption
    <2>4. ASSUME NEW t \in Stamps, TsNewer(Front.ts, t), TsNewer(t, lastTs)
          PROVE  FALSE
      <3>1. ~HasFrame(t)
        BY <1>1, <2>4, FrontIsOldest
      <3>2. 1 \in 1 .. Len(frames) /\ Front = frames[1]
        BY <1>1, FrontIsFrame
      <3>3. Seen(t)
        BY <1>9, <2>4, <3>2 DEF ReferenceInv, OrderlyInv
      <3> QED
        BY <2>3, <2>4, <3>1, <3>3 DEF Seen
    <2>5. emitted'[n + 1].ts = Front.ts /\ emitted'[n].ts = lastTs
      BY <1>3, <1>5, <2>1, <2>2
    <2>6. n + 1 > 1 /\ (n + 1) - 1 = n
      BY <1>4, <2>2
    <2> QED
      BY <2>4, <2>5, <2>6
  <1>10. ASSUME orderly, NEW i \in 1 .. n + 1
         PROVE  emitted'[i].idr \/ Follows(i)
    <2>1. CASE i \in 1 .. n
      BY <1>8, <1>10, <2>1
    <2>2. CASE i = n + 1
      BY <1>3, <1>5, <1>9, <1>10, <2>2
    <2> QED
      BY <1>4, <2>1, <2>2
  <1>11. NoBrokenReference'
    BY <1>1, <1>5, <1>10 DEF NoBrokenReference, FollowsPredecessor
  <1> QED
    BY <1>6, <1>7, <1>11 DEF ReferenceInv

LEMMA ReferenceKept ==
    ASSUME NoBrokenReference, UNCHANGED emitted, orderly' => orderly
    PROVE  NoBrokenReference'
  BY DEF NoBrokenReference, FollowsPredecessor

LEMMA ReferenceNext ==
    ASSUME TypeOK, TypeOK', BufferOrdered, ReferenceInv, [Next]_vars
    PROVE  ReferenceInv'
  <1>1. ASSUME NEW p \in Packets, Receive(p) PROVE ReferenceInv'
    <2>1. UNCHANGED <<lastTs, waitingKeyframe, emitted>> /\ (orderly' => orderly)
      <3>1. CASE OpenFrame(p)
        BY <3>1 DEF OpenFrame
      <3>2. CASE IgnorePacket(p) \/ JoinFrame(p)
        BY <3>2 DEF IgnorePacket, JoinFrame
      <3> QED
        BY <1>1, <3>1, <3>2 DEF Receive
    <2>2. LastInv' /\ NoBrokenReference'
      BY <2>1, ReferenceKept DEF ReferenceInv, LastInv
    <2>3. CASE IgnorePacket(p)
      BY <2>2, <2>3 DEF IgnorePacket, ReferenceInv, OrderlyInv, Seen, HasFrame
    <2>4. CASE OpenFrame(p)
      BY <2>2, <2>4, OrderlyOpen DEF ReferenceInv
    <2>5. CASE JoinFrame(p)
      <3>1. PICK i \in DOMAIN frames : frames' = AddPacket(i, p)
        BY <2>5 DEF JoinFrame
      <3> DEFINE f == [frames[i] EXCEPT !.packets = @ \cup {p}]
      <3>2. i \in 1 .. Len(frames) /\ frames[i] \in Frame
        BY <3>1, FrameFacts DEF TypeOK
      <3>3. f \in Frame /\ f.ts = frames[i].ts
        BY <3>2 DEF Frame
      <3> HIDE DEF f
      <3>4. frames' = [frames EXCEPT ![i] = f]
        BY <3>1 DEF AddPacket, f
      <3>5. /\ frames' \in Seq(Frame) /\ Len(frames') = Len(frames)
            /\ \A j \in 1 .. Len(frames) : frames'[j] = IF j = i THEN f ELSE frames[j]
        BY <3>1, <3>3, <3>4, ReplaceFrame DEF TypeOK
      <3>6. lastTs' = lastTs /\ orderly' = orderly
        BY <2>5 DEF JoinFrame
      <3>7. OrderlyInv'
        BY <3>3, <3>5, <3>6, OrderlyKept DEF ReferenceInv
      <3> QED
        BY <2>2, <3>7 DEF ReferenceInv
    <2> QED
      BY <1>1, <2>3, <2>4, <2>5 DEF Receive
  <1>2. CASE EmitFront
    BY <1>2, ReferenceEmit
  <1>3. CASE DiscardFront \/ GiveUpFront
    <2>1. /\ frames # <<>> /\ PopFront /\ waitingKeyframe' = TRUE
          /\ UNCHANGED <<emitted, orderly>>
      BY <1>3 DEF DiscardFront, GiveUpFront, Draining, TypeOK
    <2>2. LastInv' /\ NoBrokenReference'
      BY <2>1, ReferenceKept DEF ReferenceInv, LastInv
    <2> QED
      BY <2>1, <2>2, OrderlyPop DEF ReferenceInv
  <1>4. CASE RenackFront
    <2> DEFINE f == [Front EXCEPT !.renacked = TRUE]
    <2>1. /\ Front \in Frame /\ Front = frames[1] /\ 1 \in DOMAIN frames
          /\ UNCHANGED <<lastTs, waitingKeyframe, emitted, orderly>>
      BY <1>4, FrontIsFrame DEF RenackFront, Draining, TypeOK
    <2>2. f \in Frame /\ f.ts = frames[1].ts
      BY <2>1 DEF Frame
    <2> HIDE DEF f
    <2>3. frames' = [frames EXCEPT ![1] = f]
      BY <1>4, <2>1 DEF RenackFront, f
    <2>4. /\ frames' \in Seq(Frame) /\ Len(frames') = Len(frames)
          /\ \A j \in 1 .. Len(frames) : frames'[j] = IF j = 1 THEN f ELSE frames[j]
      BY <2>1, <2>2, <2>3, ReplaceFrame DEF TypeOK
    <2>5. OrderlyInv'
      BY <2>1, <2>2, <2>4, OrderlyKept DEF ReferenceInv
    <2>6. LastInv' /\ NoBrokenReference'
      BY <2>1, ReferenceKept DEF ReferenceInv, LastInv
    <2> QED
      BY <2>5, <2>6 DEF ReferenceInv
  <1>5. CASE EndDrain \/ UNCHANGED vars
    BY <1>5 DEF EndDrain, vars, ReferenceInv, LastInv, OrderlyInv, Seen, HasFrame,
                NoBrokenReference, FollowsPredecessor
  <1>6. CASE Reset
    <2>1. emitted' = <<>> /\ frames' = <<>> /\ waitingKeyframe' = TRUE
      BY <1>6 DEF Reset
    <2>2. DOMAIN emitted' = {} /\ 1 .. Len(frames') = {}
      BY <2>1
    <2> QED
      BY <2>1, <2>2 DEF ReferenceInv, LastInv, OrderlyInv, NoBrokenReference
  <1>7. CASE Tick
    <2>1. /\ frames' \in Seq(Frame) /\ Len(frames') = Len(frames)
          /\ DOMAIN frames = 1 .. Len(frames)
          /\ UNCHANGED <<lastTs, waitingKeyframe, emitted, orderly>>
      BY <1>7, AgeIsSeq DEF Tick, TypeOK
    <2>2. \A j \in 1 .. Len(frames) : frames'[j].ts = frames[j].ts
      BY <1>7, <2>1, FrameFacts DEF Tick, Frame
    <2>3. OrderlyInv'
      BY <2>1, <2>2, OrderlyKept DEF ReferenceInv
    <2>4. LastInv' /\ NoBrokenReference'
      BY <2>1, ReferenceKept DEF ReferenceInv, LastInv
    <2> QED
      BY <2>3, <2>4 DEF ReferenceInv
  <1> QED
    BY <1>1, <1>2, <1>3, <1>4, <1>5, <1>6, <1>7 DEF Next, Drain

LEMMA ReferenceInit == Init => ReferenceInv
  <1> SUFFICES ASSUME Init PROVE ReferenceInv
    OBVIOUS
  <1>1. emitted = <<>> /\ frames = <<>> /\ waitingKeyframe = TRUE
    BY DEF Init
  <1>2. DOMAIN emitted = {} /\ 1 .. Len(frames) = {}
    BY <1>1
  <1> QED
    BY <1>1, <1>2 DEF ReferenceInv, LastInv, OrderlyInv, NoBrokenReference

(* "no broken P-frames ever reach the decoder" as far as the buffer can     *)
(* know: while no frame was overtaken, an emitted frame that is not an IDR  *)
(* follows its own predecessor.                                             *)
THEOREM NeverBreaksReference == Spec => []NoBrokenReference
  <1>1. TypeOK /\ TypeOK' /\ BufferOrdered /\ ReferenceInv /\ [Next]_vars => ReferenceInv'
    BY ReferenceNext
  <1>2. ReferenceInv => NoBrokenReference
    BY DEF ReferenceInv
  <1> QED
    BY <1>1, <1>2, ReferenceInit, TypeCorrect, BufferAlwaysOrdered, PTL DEF Spec

-----------------------------------------------------------------------------
(* What is emitted is whole from one of its partition heads on.             *)

NoPaddingHeld == \A i \in DOMAIN frames : \A q \in frames[i].packets : ~q.padding

(* How far back a sequence number is from the marker's, without remainder.  *)
LEMMA BackIs ==
    ASSUME NEW a \in 0 .. SeqMod - 1, NEW b \in 0 .. SeqMod - 1
    PROVE  (a - b) % SeqMod = IF a >= b THEN a - b ELSE a - b + SeqMod
  BY ConstantsAssumption

(* Whatever assembles holds every packet of its frame from a head to the    *)
(* marker: those it has run without a hole, and numbers tell packets apart. *)
LEMMA AssembledIsWhole ==
    ASSUME NEW f \in Frame, Assemblable(f), \A q \in f.packets : q.ts = f.ts /\ ~q.padding
    PROVE  WholeFromHead(f)
  <1>1. f.packets \subseteq Packets /\ f.packets \subseteq SentIn(f.ts)
    BY DEF Frame, SentIn
  <1> DEFINE c == Cardinality(f.packets)
             Back(m, q) == (m.seq - q.seq) % SeqMod
  <1>2. PICK m \in f.packets :
            /\ m.marker /\ {Back(m, q) : q \in f.packets} = 0 .. c - 1
            /\ \E h \in f.packets : h.head /\ Back(m, h) = c - 1
    BY DEF Assemblable
  <1>3. PICK h \in f.packets : h.head /\ Back(m, h) = c - 1
    BY <1>2
  <1>4. \A q \in Packets : q.seq \in 0 .. SeqMod - 1
    BY ConstantsAssumption DEF Packet
  <1>5. ASSUME NEW r \in SentIn(f.ts), Back(m, r) <= Back(m, h)
        PROVE  r \in f.packets
    <2>1. /\ r \in Packets /\ r.ts = f.ts /\ ~r.padding
          /\ m \in Packets /\ h \in Packets
      BY <1>1, <1>2, <1>3 DEF SentIn
    <2>2. Back(m, r) \in Nat /\ Back(m, h) \in Nat
      BY <1>4, <2>1, BackIs, ConstantsAssumption
    <2>3. Back(m, r) \in 0 .. c - 1
      <3> HIDE DEF Back, c
      <3>1. Back(m, r) \in 0 .. Back(m, h)
        BY <1>5, <2>2
      <3> QED
        BY <1>3, <3>1
    <2>4. PICK q \in f.packets : Back(m, q) = Back(m, r)
      <3> HIDE DEF Back, c
      <3> QED
        BY <1>2, <2>3
    <2>5. q \in Packets /\ q.ts = f.ts /\ ~q.padding
      BY <1>1 DEF SentIn
    <2>6. q.seq = r.seq
      <3>1. /\ m.seq \in 0 .. SeqMod - 1 /\ q.seq \in 0 .. SeqMod - 1
            /\ r.seq \in 0 .. SeqMod - 1
        BY <1>4, <2>1, <2>5
      <3>2. /\ Back(m, q) = IF m.seq >= q.seq THEN m.seq - q.seq ELSE m.seq - q.seq + SeqMod
            /\ Back(m, r) = IF m.seq >= r.seq THEN m.seq - r.seq ELSE m.seq - r.seq + SeqMod
        BY <3>1, BackIs
      <3> HIDE DEF Back
      <3>3. (IF m.seq >= q.seq THEN m.seq - q.seq ELSE m.seq - q.seq + SeqMod)
              = (IF m.seq >= r.seq THEN m.seq - r.seq ELSE m.seq - r.seq + SeqMod)
        BY <2>4, <3>2
      <3>4. \A x, y, z \in 0 .. SeqMod - 1 :
                (IF x >= y THEN x - y ELSE x - y + SeqMod)
                  = (IF x >= z THEN x - z ELSE x - z + SeqMod) => y = z
        BY ONLY ConstantsAssumption
      <3> QED
        BY <3>1, <3>3, <3>4
    <2> QED
      BY <2>1, <2>5, <2>6, NumbersAssumption
  <1>6. ASSUME NEW r \in f.packets
        PROVE  Back(m, r) <= Back(m, h)
    <2>1. /\ r \in Packets /\ m \in Packets /\ h \in Packets
      BY <1>1, <1>2, <1>3
    <2>2. Back(m, r) \in Nat /\ Back(m, h) \in Nat
      BY <1>4, <2>1, BackIs, ConstantsAssumption
    <2> HIDE DEF Back, c
    <2>3. Back(m, r) \in 0 .. Back(m, h)
      BY <1>2, <1>3
    <2> QED
      BY <2>2, <2>3
  <1>7. f.packets = {r \in SentIn(f.ts) : Back(m, r) <= Back(m, h)}
    <2> HIDE DEF Back
    <2> QED
      BY <1>1, <1>5, <1>6
  <1> QED
    BY <1>2, <1>3, <1>7 DEF WholeFromHead

LEMMA PaddingOpen ==
    ASSUME TypeOK, NoPaddingHeld, NEW p \in Packets, OpenFrame(p)
    PROVE  NoPaddingHeld'
  <1>1. PICK at \in 1 .. Len(frames) + 1 : frames' = InsertFrame(at, p)
    BY DEF OpenFrame
  <1>2. Len(frames) \in Nat /\ DOMAIN frames = 1 .. Len(frames) /\ frames \in Seq(Frame)
    BY DEF TypeOK
  <1>3. /\ DOMAIN frames' = 1 .. Len(frames) + 1
        /\ \A i \in 1 .. Len(frames) + 1 : frames'[i] =
              IF i < at THEN frames[i] ELSE IF i = at THEN NewFrame(p) ELSE frames[i - 1]
    BY <1>1, <1>2, InsertFrameIsSeq
  <1>4. NewFrame(p).packets = {p} /\ ~p.padding
    BY DEF NewFrame, OpenFrame
  <1>5. ASSUME NEW i \in 1 .. Len(frames) + 1
        PROVE  \A q \in frames'[i].packets : ~q.padding
    <2>1. CASE i < at
      <3>1. i \in DOMAIN frames /\ frames'[i] = frames[i]
        BY <1>2, <1>3, <2>1
      <3> QED
        BY <3>1 DEF NoPaddingHeld
    <2>2. CASE i = at
      BY <1>3, <1>4, <2>2
    <2>3. CASE i > at
      <3>1. i - 1 \in DOMAIN frames /\ frames'[i] = frames[i - 1]
        BY <1>2, <1>3, <2>3
      <3> QED
        BY <3>1 DEF NoPaddingHeld
    <2> QED
      BY <1>2, <2>1, <2>2, <2>3
  <1> QED
    BY <1>3, <1>5 DEF NoPaddingHeld

LEMMA PaddingJoin ==
    ASSUME TypeOK, NoPaddingHeld, NEW p \in Packets, JoinFrame(p)
    PROVE  NoPaddingHeld'
  <1>1. PICK i \in DOMAIN frames : frames' = AddPacket(i, p)
    BY DEF JoinFrame
  <1>2. DOMAIN frames = 1 .. Len(frames) /\ i \in 1 .. Len(frames) /\ ~p.padding
    BY <1>1 DEF TypeOK, JoinFrame
  <1>3. \A j \in 1 .. Len(frames) : frames[j] \in Frame
    BY FrameFacts
  <1>4. /\ DOMAIN frames' = 1 .. Len(frames)
        /\ \A j \in 1 .. Len(frames) : frames'[j].packets \subseteq frames[j].packets \cup {p}
    BY <1>1, <1>2, <1>3 DEF AddPacket, Frame
  <1> QED
    BY <1>2, <1>4 DEF NoPaddingHeld

(* Every other step keeps the packets of the frames it keeps.               *)
LEMMA PaddingNext ==
    ASSUME TypeOK, NoPaddingHeld, [Next]_vars
    PROVE  NoPaddingHeld'
  <1>1. CASE EmitFront \/ DiscardFront \/ GiveUpFront
    <2>1. frames # <<>> /\ frames' = Tail(frames)
      BY <1>1 DEF EmitFront, DiscardFront, GiveUpFront, Draining, PopFront
    <2>2. /\ Len(frames) \in Nat \ {0} /\ DOMAIN frames = 1 .. Len(frames)
          /\ DOMAIN frames' = 1 .. Len(frames) - 1
          /\ \A i \in 1 .. Len(frames) - 1 : frames'[i] = frames[i + 1]
      BY <2>1, FrontIsFrame DEF TypeOK
    <2>3. \A i \in 1 .. Len(frames) - 1 : i + 1 \in DOMAIN frames
      BY <2>2
    <2> QED
      BY <2>2, <2>3 DEF NoPaddingHeld
  <1>2. CASE RenackFront \/ Tick
    <2>1. \A j \in 1 .. Len(frames) : frames[j] \in Frame
      BY FrameFacts
    <2>2. DOMAIN frames = 1 .. Len(frames)
      BY DEF TypeOK
    <2>3. CASE RenackFront
      <3>1. 1 \in DOMAIN frames /\ frames' = [frames EXCEPT ![1].renacked = TRUE]
        BY <2>2, <2>3, FrontIsFrame DEF RenackFront, Draining
      <3>2. /\ DOMAIN frames' = DOMAIN frames
            /\ \A j \in DOMAIN frames : frames'[j].packets = frames[j].packets
        BY <2>1, <2>2, <3>1 DEF Frame
      <3> QED
        BY <3>2 DEF NoPaddingHeld
    <2>4. CASE Tick
      <3>1. /\ DOMAIN frames' = DOMAIN frames
            /\ \A j \in DOMAIN frames : frames'[j].packets = frames[j].packets
        BY <2>1, <2>2, <2>4 DEF Frame, Tick
      <3> QED
        BY <3>1 DEF NoPaddingHeld
    <2> QED
      BY <1>2, <2>3, <2>4
  <1>3. CASE EndDrain \/ UNCHANGED vars \/ \E p \in Packets : IgnorePacket(p)
    BY <1>3 DEF EndDrain, vars, IgnorePacket, NoPaddingHeld
  <1>4. CASE Reset
    BY <1>4 DEF Reset, NoPaddingHeld
  <1> QED
    BY <1>1, <1>2, <1>3, <1>4, PaddingOpen, PaddingJoin DEF Next, Drain, Receive

LEMMA WholeNext ==
    ASSUME TypeOK, BufferOrdered, NoPaddingHeld, EmittedWhole, [Next]_vars
    PROVE  EmittedWhole'
  <1>1. CASE EmitFront
    <2> DEFINE n == Len(emitted)
               au == [ts |-> Front.ts, idr |-> HasKeyframe(Front), packets |-> Front.packets]
    <2>1. /\ frames # <<>> /\ Front \in Frame /\ Front = frames[1] /\ 1 \in DOMAIN frames
          /\ Assemblable(Front) /\ emitted' = Append(emitted, au)
      BY <1>1, FrontIsFrame DEF EmitFront, Draining, TypeOK
    <2>2. WholeFromHead(au)
      BY <2>1, AssembledIsWhole DEF BufferOrdered, NoPaddingHeld, WholeFromHead
    <2>3. au \in AccessUnit
      BY <2>1 DEF Frame, AccessUnit, HasKeyframe
    <2> HIDE DEF au
    <2>4. /\ n \in Nat /\ DOMAIN emitted = 1 .. n /\ DOMAIN emitted' = 1 .. n + 1
          /\ \A i \in 1 .. n : emitted'[i] = emitted[i]
          /\ emitted'[n + 1] = au
      BY <2>1, <2>3, AppendProperties DEF TypeOK
    <2>5. \A i \in 1 .. n + 1 : WholeFromHead(emitted'[i])
      BY <2>2, <2>4 DEF EmittedWhole
    <2> QED
      BY <2>4, <2>5 DEF EmittedWhole
  <1>2. CASE Reset
    BY <1>2 DEF Reset, EmittedWhole
  <1>3. CASE UNCHANGED emitted
    BY <1>3 DEF EmittedWhole
  <1> QED
    BY <1>1, <1>2, <1>3 DEF Next, Receive, IgnorePacket, OpenFrame, JoinFrame, Drain,
       DiscardFront, RenackFront, GiveUpFront, EndDrain, Tick, vars

(* Whatever the network loses, repeats or reorders, an access unit that is  *)
(* emitted is all that was sent of its frame from one of its partition      *)
(* heads up to the marker (try_assemble()).                                 *)
THEOREM EmitsWholeFrames == Spec => []EmittedWhole
  <1>1. Init => NoPaddingHeld /\ EmittedWhole
    BY DEF Init, NoPaddingHeld, EmittedWhole
  <1>2. TypeOK /\ NoPaddingHeld /\ [Next]_vars => NoPaddingHeld'
    BY PaddingNext
  <1>3. TypeOK /\ BufferOrdered /\ NoPaddingHeld /\ EmittedWhole /\ [Next]_vars => EmittedWhole'
    BY WholeNext
  <1> QED
    BY <1>1, <1>2, <1>3, TypeCorrect, BufferAlwaysOrdered, PTL DEF Spec

=============================================================================
