---------------------------- MODULE StreamProofs ----------------------------
(* Theorems about what a stream keeps going beside the video itself: the    *)
(* input channel, how a frame is fitted to the panel, which frame a refresh *)
(* shows, and, of the composition MCStream, what the theorems of its parts  *)
(* say of it.                                                               *)
EXTENDS MCStream, SequenceTheorems, TLAPS

OutputProofs == INSTANCE DrmOutputProofs WITH pc <- presenting

-----------------------------------------------------------------------------
(* Counting modulo Serial.                                                  *)

LEMMA SmallModulus ==
    ASSUME NEW n \in Nat \ {0}, NEW x \in 0 .. n - 1
    PROVE  x % n = x
  OBVIOUS

LEMMA OneWrap ==
    ASSUME NEW n \in Nat \ {0}, NEW x \in n .. 2 * n - 1
    PROVE  x % n = x - n
  OBVIOUS

LEMMA Numbers ==
    /\ Serial \in Nat \ {0, 1} /\ Room \in Nat \ {0} /\ Backoff \in Nat \ {0}
    /\ Heartbeat \in Nat \ {0} /\ Second \in Nat \ {0} /\ DeadSeconds \in Nat \ {0}
    /\ None \notin 0 .. Heartbeat
    /\ 0 \in 0 .. Serial - 1 /\ 0 \in 0 .. DeadSeconds - 1
    /\ Room \in 0 .. Room /\ 0 \in 0 .. Room /\ 0 \in 0 .. Heartbeat /\ 0 \in 0 .. Second
    /\ 0 \in 0 .. Backoff /\ Backoff \in 0 .. Backoff
  BY InputAssumption

LEMMA SuccIs ==
    ASSUME NEW s \in 0 .. Serial - 1
    PROVE  Succ(s) = (IF s = Serial - 1 THEN 0 ELSE s + 1) /\ Succ(s) \in 0 .. Serial - 1
<1>1. CASE s = Serial - 1
  <2>1. (s + 1) % Serial = s + 1 - Serial
    BY <1>1, Numbers, OneWrap
  <2> QED
    BY <1>1, <2>1, Numbers DEF Succ
<1>2. CASE s # Serial - 1
  BY <1>2, Numbers, SmallModulus DEF Succ
<1> QED
  BY <1>1, <1>2

(* RollbackSequence() undoes one GamepadPacket(), over the wrap too.        *)
LEMMA RollbackUndoes ==
    ASSUME NEW s \in 0 .. Serial - 1
    PROVE  RollbackSequence(GamepadPacket(s).number) = s
<1>1. GamepadPacket(s).number = Succ(s)
  BY DEF GamepadPacket
<1>2. CASE s = Serial - 1
  <2>1. Succ(s) = 0
    BY <1>2, SuccIs
  <2>2. (0 + Serial - 1) % Serial = Serial - 1
    BY Numbers, SmallModulus
  <2> QED
    BY <1>1, <1>2, <2>1, <2>2 DEF RollbackSequence, Pred
<1>3. CASE s # Serial - 1
  <2>1. Succ(s) = s + 1
    BY <1>3, SuccIs
  <2>2. (s + 1 + Serial - 1) % Serial = s + 1 + Serial - 1 - Serial
    <3>1. s + 1 + Serial - 1 \in Serial .. 2 * Serial - 1
      BY Numbers
    <3> QED
      BY <3>1, Numbers, OneWrap
  <2> QED
    BY <1>1, <2>1, <2>2, Numbers DEF RollbackSequence, Pred
<1> QED
  BY <1>2, <1>3

(* A number kept by a refused handshake moves both sides by one.            *)
LEMMA KeptMoves ==
    ASSUME NEW w \in 0 .. Serial - 1, NEW k \in 0 .. Serial - 1
    PROVE  Succ((w + k) % Serial) = (w + Succ(k)) % Serial
<1> DEFINE x == w + k
<1>1. x \in 0 .. 2 * Serial - 2
  BY Numbers
<1>2. x % Serial = IF x < Serial THEN x ELSE x - Serial
  <2>1. CASE x < Serial
    BY <1>1, <2>1, Numbers, SmallModulus
  <2>2. CASE ~(x < Serial)
    <3>1. x \in Serial .. 2 * Serial - 1
      BY <1>1, <2>2, Numbers
    <3> QED
      BY <2>2, <3>1, Numbers, OneWrap
  <2> QED
    BY <2>1, <2>2
<1>3. x % Serial \in 0 .. Serial - 1
  BY <1>1, <1>2, Numbers
<1>4. CASE k = Serial - 1
  <2>1. Succ(k) = 0
    BY <1>4, SuccIs
  <2>3. (w + 0) % Serial = w
    BY SmallModulus, Numbers
  <2>2. Succ(x % Serial) = w
    <3>1. CASE w = 0
      BY <1>2, <1>3, <1>4, <3>1, SuccIs, Numbers
    <3>2. CASE w # 0
      BY <1>2, <1>3, <1>4, <3>2, SuccIs, Numbers
    <3> QED
      BY <3>1, <3>2
  <2> QED
    BY <2>1, <2>2, <2>3
<1>5. CASE k # Serial - 1
  <2>1. Succ(k) = k + 1
    BY <1>5, SuccIs
  <2>2. CASE x + 1 < Serial
    <3>1. (x + 1) % Serial = x + 1
      BY <1>1, <2>2, SmallModulus, Numbers
    <3>2. Succ(x % Serial) = x + 1
      BY <1>1, <1>2, <1>3, <2>2, SuccIs, Numbers
    <3> QED
      BY <2>1, <3>1, <3>2
  <2>3. CASE x + 1 >= Serial
    <3>1. (x + 1) % Serial = x + 1 - Serial
      BY <1>1, <2>3, OneWrap, Numbers
    <3>2. Succ(x % Serial) = x + 1 - Serial
      BY <1>1, <1>2, <1>3, <2>3, SuccIs, Numbers
    <3> QED
      BY <2>1, <3>1, <3>2
  <2> QED
    BY <1>1, <2>2, <2>3, Numbers
<1> QED
  BY <1>4, <1>5

-----------------------------------------------------------------------------
(* Types.                                                                   *)

LEMMA InitHolds == Init => TypeOK /\ NoGapButHandshake
<1> SUFFICES ASSUME Init PROVE TypeOK /\ NoGapButHandshake
  OBVIOUS
<1>1. TypeOK
  BY Numbers DEF Init, TypeOK
<1>2. (0 + 0) % Serial = 0
  BY Numbers, SmallModulus
<1> QED
  BY <1>1, <1>2 DEF Init, NoGapButHandshake

LEMMA OthersTyped == ASSUME TypeOK, Others PROVE TypeOK'
<1> USE DEF TypeOK, padVars, linkVars, statVars, wireVars
<1>1. CASE SetPad
  BY <1>1 DEF SetPad
<1>2. CASE PresenterLocks \/ PresenterUnlocks
  BY <1>2 DEF PresenterLocks, PresenterUnlocks
<1>3. CASE Tick
  <2>1. sentAge' \in {None} \cup 0 .. Heartbeat
    BY <1>3, Numbers DEF Tick, Older
  <2>2. statsAge' \in 0 .. Second
    BY <1>3, Numbers DEF Tick, Older
  <2>3. backoff' \in 0 .. Backoff
    BY <1>3, Numbers DEF Tick
  <2> QED
    BY <1>3, <2>1, <2>2, <2>3 DEF Tick
<1>4. CASE Drain
  <2>1. room' \in 0 .. Room
    BY <1>4, Numbers DEF Drain
  <2> QED
    BY <1>4, <2>1 DEF Drain
<1>5. CASE Wedge
  BY <1>5, Numbers DEF Wedge
<1> QED
  BY <1>1, <1>2, <1>3, <1>4, <1>5 DEF Others

LEMMA PumpTyped == ASSUME TypeOK, Pump PROVE TypeOK'
<1> USE DEF TypeOK, padVars, linkVars, statVars, wireVars
<1>1. CASE Connect \/ PeerCloses \/ Pumped
  BY <1>1 DEF Connect, PeerCloses, Pumped
<1>2. CASE HandshakeAck
  <2>1. Succ(sequence) \in 0 .. Serial - 1 /\ Succ(kept) \in 0 .. Serial - 1
    BY SuccIs
  <2>2. room > 0 => room - 1 \in 0 .. Room
    BY Numbers
  <2> QED
    BY <1>2, <2>1, <2>2, Numbers DEF HandshakeAck
<1> QED
  BY <1>1, <1>2 DEF Pump

LEMMA SendTyped == ASSUME TypeOK, Send PROVE TypeOK'
<1> USE DEF TypeOK, padVars, linkVars, statVars, wireVars
<1>1. CASE PadSkipped \/ PadDropped
  BY <1>1 DEF PadSkipped, PadDropped
<1>2. CASE PadSent
  <2>1. /\ sequence' = Succ(sequence) /\ wire' = Succ(sequence) /\ server' = frame
        /\ Succ(sequence) \in 0 .. Serial - 1
    BY <1>2, SuccIs DEF PadSent, GamepadPacket
  <2>2. room' \in 0 .. Room
    BY <1>2, Numbers DEF PadSent
  <2> QED
    BY <1>2, <2>1, <2>2, Numbers DEF PadSent
<1>3. CASE PadRefused
  BY <1>3, RollbackUndoes, Numbers DEF PadRefused
<1> QED
  BY <1>1, <1>2, <1>3 DEF Send

LEMMA StatsTyped == ASSUME TypeOK, Stats PROVE TypeOK'
<1> USE DEF TypeOK, padVars, linkVars, statVars, wireVars
<1>1. CASE SecondNotOver
  BY <1>1 DEF SecondNotOver
<1>2. CASE SecondOver
  <2>1. deadSeconds' \in 0 .. DeadSeconds - 1
    BY <1>2, Numbers DEF SecondOver
  <2> QED
    BY <1>2, <2>1, Numbers DEF SecondOver
<1>3. CASE ChannelDead \/ PeerGone
  BY <1>3, Numbers DEF ChannelDead, PeerGone, Rearm
<1> QED
  BY <1>1, <1>2, <1>3 DEF Stats

LEMMA TypeNext == TypeOK /\ [Next]_vars => TypeOK'
<1>1. TypeOK /\ UNCHANGED vars => TypeOK'
  BY DEF TypeOK, vars, padVars, linkVars, statVars, wireVars
<1> QED
  BY <1>1, OthersTyped, PumpTyped, SendTyped, StatsTyped DEF Next

(* Stamps, numbers and the worker's place keep their types (send_gamepad(), *)
(* run_peer()).                                                             *)
THEOREM TypeCorrect == Spec => []TypeOK
  BY InitHolds, TypeNext, PTL DEF Spec

-----------------------------------------------------------------------------
(* The numbers on the wire.                                                 *)

LEMMA GapNext == TypeOK /\ NoGapButHandshake /\ [Next]_vars => NoGapButHandshake'
<1> SUFFICES ASSUME TypeOK, NoGapButHandshake, [Next]_vars PROVE NoGapButHandshake'
  OBVIOUS
<1> USE DEF NoGapButHandshake
<1>1. sequence \in 0 .. Serial - 1 /\ wire \in 0 .. Serial - 1 /\ kept \in 0 .. Serial - 1
  BY DEF TypeOK
<1>2. \A s \in 0 .. Serial - 1 : (s + 0) % Serial = s
  BY Numbers, SmallModulus
<1>3. CASE HandshakeAck
  <2>1. CASE room > 0
    BY <1>1, <1>2, <1>3, <2>1, SuccIs DEF HandshakeAck
  <2>2. CASE ~(room > 0)
    BY <1>1, <1>3, <2>2, KeptMoves DEF HandshakeAck
  <2> QED
    BY <2>1, <2>2
<1>4. CASE PadSent
  <2>1. sequence' = Succ(sequence) /\ wire' = Succ(sequence) /\ kept' = 0
    BY <1>4 DEF PadSent, GamepadPacket
  <2> QED
    BY <1>1, <1>2, <2>1, SuccIs
<1>5. CASE PadRefused
  BY <1>1, <1>5, RollbackUndoes DEF PadRefused
<1>6. CASE \/ PadSkipped \/ PadDropped \/ SecondNotOver \/ SecondOver \/ ChannelDead \/ PeerGone
           \/ Connect \/ PeerCloses \/ Pumped \/ Others \/ UNCHANGED vars
  <2>1. UNCHANGED <<sequence, wire, kept>>
    BY <1>6 DEF PadSkipped, PadDropped, SecondNotOver, SecondOver, ChannelDead, PeerGone, Rearm,
                Connect, PeerCloses, Pumped, Others, SetPad, PresenterLocks, PresenterUnlocks,
                Tick, Drain, Wedge, vars, wireVars
  <2> QED
    BY <2>1
<1> QED
  BY <1>3, <1>4, <1>5, <1>6 DEF Next, Send, Stats, Pump

(* send_gamepad() and RollbackSequence(): what SCTP has accepted is         *)
(* consecutive, over refusals, dropped frames, resumes and the wrap; only   *)
(* a refused handshake send keeps its number.                               *)
THEOREM NumbersHaveNoGap == Spec => []NoGapButHandshake
  BY InitHolds, TypeNext, GapNext, PTL DEF Spec

-----------------------------------------------------------------------------
(* How a frame is fitted to the panel: division that truncates.            *)

LEMMA Products ==
    ASSUME NEW a \in Nat, NEW b \in Nat
    PROVE  a * b \in Nat
  OBVIOUS

LEMMA Monotone ==
    ASSUME NEW a \in Nat, NEW b \in Nat, NEW c \in Nat, a <= b
    PROVE  a * c <= b * c
  OBVIOUS

LEMMA Division ==
    ASSUME NEW a \in Nat, NEW b \in Nat \ {0}
    PROVE  /\ a \div b \in Nat
           /\ (a \div b) * b <= a
           /\ a < (a \div b + 1) * b
  OBVIOUS

LEMMA DivisionUnique ==
    ASSUME NEW a \in Nat, NEW b \in Nat \ {0}, NEW q \in Nat, q * b <= a, a < (q + 1) * b
    PROVE  a \div b = q
  OBVIOUS

LEMMA Halving ==
    ASSUME NEW a \in Nat, NEW b \in Nat \ {0}
    PROVE  (2 * a) \div (2 * b) = a \div b
<1> DEFINE q == a \div b
<1>1. q \in Nat /\ q * b <= a /\ a < (q + 1) * b
  BY Division
<1> HIDE DEF q
<1>2. q * (2 * b) <= 2 * a /\ 2 * a < (q + 1) * (2 * b)
  BY <1>1
<1>3. (2 * a) \div (2 * b) = q
  BY <1>1, <1>2, DivisionUnique
<1> QED
  BY <1>3 DEF q

LEMMA EvenIs ==
    ASSUME NEW n \in Nat
    PROVE  /\ Picture!Even(n) \in Nat /\ Picture!Even(n) <= n /\ Picture!Even(n) % 2 = 0
  BY DEF Picture!Even

LEMMA FitIsSmall ==
    ASSUME Picture!FitAssumption, NEW w \in Nat \ {0}, NEW h \in Nat \ {0}
    PROVE  /\ Picture!Fit(w, h).w \in 0 .. PanelW
           /\ Picture!Fit(w, h).h \in 0 .. PanelH
<1> DEFINE tall == (PanelW * h) \div w
           wide == (PanelH * w) \div h
<1>1. PanelW \in Nat \ {0} /\ PanelH \in Nat \ {0}
  BY DEF Picture!FitAssumption
<1>2. PanelW * h \in Nat /\ PanelH * w \in Nat
  BY <1>1, Products
<1>3. tall \in Nat /\ wide \in Nat /\ tall * w <= PanelW * h /\ wide * h <= PanelH * w
  BY <1>1, <1>2, Division
<1>4. CASE tall > PanelH
  <2>1. (PanelH + 1) * w <= tall * w
    BY <1>1, <1>3, <1>4, Monotone
  <2>2. wide * h < PanelW * h
    BY <1>1, <1>2, <1>3, <2>1, Products
  <2>3. wide <= PanelW
    <3>1. wide > PanelW => PanelW * h <= wide * h
      BY <1>1, <1>3, Monotone
    <3> QED
      BY <1>1, <1>3, <2>2, <3>1, Products
  <2>4. Picture!Fit(w, h) = [w |-> Picture!Even(wide), h |-> Picture!Even(PanelH)]
    BY <1>4 DEF Picture!Fit
  <2> QED
    BY <1>1, <1>3, <2>3, <2>4, EvenIs
<1>5. CASE ~(tall > PanelH)
  <2>1. Picture!Fit(w, h) = [w |-> Picture!Even(PanelW), h |-> Picture!Even(tall)]
    BY <1>5 DEF Picture!Fit
  <2> QED
    BY <1>1, <1>3, <1>5, <2>1, EvenIs
<1> QED
  BY <1>4, <1>5

(* A crop of a longer side stays within it, wherever it is panned to.       *)
LEMMA PannedInside ==
    ASSUME NEW whole \in Nat, NEW cropped \in Nat, cropped <= whole, NEW p \in Picture!Pans
    PROVE  /\ Picture!Panned(whole, cropped, p) \in Nat
           /\ Picture!Panned(whole, cropped, p) + cropped <= whole
           /\ Picture!Panned(whole, cropped, p) % 2 = 0
<1> DEFINE slack == whole - cropped
           start == Picture!Even(slack \div 2) + Picture!Quotient(slack * p, 200)
<1>1. slack \in Nat /\ p \in Int
  BY DEF Picture!Pans
<1>2. slack \div 2 \in Nat
  BY <1>1
<1>3. slack * p \in Int
  BY <1>1
<1>4. Picture!Quotient(slack * p, 200) \in Int
  BY <1>3 DEF Picture!Quotient
<1>5. start \in Int
  BY <1>2, <1>4, EvenIs
<1> HIDE DEF start
<1>6. Picture!Within(start, 0, slack) \in 0 .. slack
  BY <1>1, <1>5 DEF Picture!Within
<1>7. Picture!Panned(whole, cropped, p) = Picture!Even(Picture!Within(start, 0, slack))
  BY DEF Picture!Panned, start
<1> QED
  BY <1>1, <1>6, <1>7, EvenIs

LEMMA CropInside ==
    ASSUME Picture!FitAssumption, NEW w \in Nat \ {0}, NEW h \in Nat \ {0}, NEW zoom \in BOOLEAN,
           NEW p \in Picture!Pans
    PROVE  /\ Picture!InsideOf(Picture!Crop(w, h, zoom, p), w, h)
           /\ Picture!Crop(w, h, zoom, p).x % 2 = 0 /\ Picture!Crop(w, h, zoom, p).y % 2 = 0
<1> DEFINE wantW == (h * PanelW) \div PanelH
           wantH == (w * PanelH) \div PanelW
<1>1. PanelW \in Nat \ {0} /\ PanelH \in Nat \ {0}
  BY DEF Picture!FitAssumption
<1>2. h * PanelW \in Nat /\ w * PanelH \in Nat
  BY <1>1, Products
<1>3. /\ wantW \in Nat /\ h * PanelW < (wantW + 1) * PanelH
      /\ wantH \in Nat /\ wantH * PanelW <= w * PanelH
  BY <1>1, <1>2, Division
<1>4. CASE ~zoom
  BY <1>4 DEF Picture!Crop, Picture!Rect, Picture!InsideOf
<1>5. CASE zoom /\ wantW <= w
  <2>1. Picture!Crop(w, h, zoom, p)
          = Picture!Rect(Picture!Panned(w, Picture!Even(wantW), p), 0, Picture!Even(wantW), h)
    BY <1>5 DEF Picture!Crop
  <2>2. Picture!Even(wantW) \in Nat /\ Picture!Even(wantW) <= w
    BY <1>3, <1>5, EvenIs
  <2> QED
    BY <2>1, <2>2, PannedInside DEF Picture!Rect, Picture!InsideOf
<1>6. CASE zoom /\ ~(wantW <= w)
  <2>1. Picture!Crop(w, h, zoom, p)
          = Picture!Rect(0, Picture!Panned(h, Picture!Even(wantH), p), w, Picture!Even(wantH))
    BY <1>6 DEF Picture!Crop
  <2>2. w * PanelH < h * PanelW
    <3>1. wantW * PanelH <= h * PanelW
      BY <1>1, <1>2, Division
    <3>2. (w + 1) * PanelH <= wantW * PanelH
      BY <1>1, <1>3, <1>6, Monotone
    <3> QED
      BY <1>1, <1>2, <1>3, <3>1, <3>2, Products
  <2>3. wantH <= h
    <3>1. wantH > h => h * PanelW <= wantH * PanelW
      BY <1>1, <1>3, Monotone
    <3> QED
      BY <1>1, <1>2, <1>3, <2>2, <3>1, Products
  <2>4. Picture!Even(wantH) \in Nat /\ Picture!Even(wantH) <= h
    BY <1>3, <2>3, EvenIs
  <2> QED
    BY <2>1, <2>4, PannedInside DEF Picture!Rect, Picture!InsideOf
<1> QED
  BY <1>4, <1>5, <1>6

LEMMA DestinationInside ==
    ASSUME Picture!FitAssumption, NEW w \in Nat \ {0}, NEW h \in Nat \ {0}, NEW zoom \in BOOLEAN
    PROVE  Picture!InsideOf(Picture!Destination(w, h, zoom), PanelW, PanelH)
<1>1. PanelW \in Nat /\ PanelH \in Nat
  BY DEF Picture!FitAssumption
<1>2. CASE zoom
  BY <1>1, <1>2 DEF Picture!Destination, Picture!Rect, Picture!InsideOf
<1>3. CASE ~zoom
  <2> DEFINE fw == Picture!Fit(w, h).w
             fh == Picture!Fit(w, h).h
  <2>1. fw \in 0 .. PanelW /\ fh \in 0 .. PanelH
    BY FitIsSmall
  <2>2. Picture!Destination(w, h, zoom)
          = Picture!Rect((PanelW - fw) \div 2, (PanelH - fh) \div 2, fw, fh)
    BY <1>3 DEF Picture!Destination
  <2> HIDE DEF fw, fh
  <2>3. /\ (PanelW - fw) \div 2 >= 0 /\ (PanelW - fw) \div 2 + fw <= PanelW
        /\ (PanelH - fh) \div 2 >= 0 /\ (PanelH - fh) \div 2 + fh <= PanelH
    BY <1>1, <2>1
  <2> QED
    BY <2>2, <2>3 DEF Picture!Rect, Picture!InsideOf
<1> QED
  BY <1>2, <1>3

(* Half of a frame is fitted into what the frame is fitted into.            *)
LEMMA HalfFitsAlike ==
    ASSUME Picture!FitAssumption, NEW w \in Nat \ {0}, NEW h \in Nat \ {0}
    PROVE  Picture!Fit(2 * w, 2 * h) = Picture!Fit(w, h)
<1>1. PanelW \in Nat /\ PanelH \in Nat
  BY DEF Picture!FitAssumption
<1>2. PanelW * h \in Nat /\ PanelH * w \in Nat
  BY <1>1, Products
<1>3. PanelW * (2 * h) = 2 * (PanelW * h) /\ PanelH * (2 * w) = 2 * (PanelH * w)
  BY <1>1
<1>4. /\ (PanelW * (2 * h)) \div (2 * w) = (PanelW * h) \div w
      /\ (PanelH * (2 * w)) \div (2 * h) = (PanelH * w) \div h
  BY <1>2, <1>3, Halving
<1> QED
  BY <1>4 DEF Picture!Fit

LEMMA Halved ==
    ASSUME NEW n \in Nat \ {0}, n % 2 = 0
    PROVE  n \div 2 \in Nat \ {0} /\ n = 2 * (n \div 2)
  OBVIOUS

(* What is asked of the plane for a frame of w x h.                         *)
LEMMA ShownFits ==
    ASSUME Picture!FitAssumption, NEW w \in Nat \ {0}, NEW h \in Nat \ {0},
           fill' \in BOOLEAN, pan' \in Picture!Pans, Picture!Shown(w, h)
    PROVE  Picture!PlaneInside' /\ srcW' \in Nat /\ srcH' \in Nat
<1>1. /\ srcW' = w /\ srcH' = h /\ crop' = Picture!Crop(w, h, fill', pan')
      /\ dst' = Picture!Destination(w, h, fill')
  BY DEF Picture!Shown
<1>2. /\ Picture!InsideOf(crop', w, h)
      /\ crop'.x % 2 = 0 /\ crop'.y % 2 = 0
  BY <1>1, CropInside
<1>3. Picture!InsideOf(dst', PanelW, PanelH)
  BY <1>1, DestinationInside
<1> QED
  BY <1>1, <1>2, <1>3 DEF Picture!PlaneInside, Picture!InsideOf

LEMMA PictureNext ==
    ASSUME Picture!FitAssumption, Picture!PrepareFrame
    PROVE  Picture!TypeOK' /\ Picture!PlaneInside' /\ Picture!HalvedExactly'
<1>1. /\ frameW' \in Nat \ {0} /\ frameH' \in Nat \ {0}
      /\ fill' \in BOOLEAN /\ pan' \in Picture!Pans
  BY DEF Picture!FitAssumption, Picture!PrepareFrame
<1>2. PICK cpu \in BOOLEAN :
        /\ halve' = Picture!Halves(frameW', frameH', fill', cpu)
        /\ IF halve' THEN Picture!Shown(frameW' \div 2, frameH' \div 2)
           ELSE Picture!Shown(frameW', frameH')
  BY DEF Picture!PrepareFrame
<1>3. halve' \in BOOLEAN
  BY <1>2 DEF Picture!Halves
<1>4. CASE halve'
  <2> DEFINE w == frameW' \div 2
             h == frameH' \div 2
  <2>1. /\ frameW' % 2 = 0 /\ frameH' % 2 = 0 /\ ~fill'
        /\ Picture!Fit(frameW', frameH') = [w |-> w, h |-> h]
    BY <1>2, <1>4 DEF Picture!Halves
  <2>2. w \in Nat \ {0} /\ h \in Nat \ {0} /\ frameW' = 2 * w /\ frameH' = 2 * h
    BY <1>1, <2>1, Halved
  <2>3. Picture!Shown(w, h)
    BY <1>2, <1>4
  <2> HIDE DEF w, h
  <2>4. Picture!PlaneInside' /\ srcW' \in Nat /\ srcH' \in Nat
    BY <1>1, <2>2, <2>3, ShownFits
  <2>5. Picture!Fit(frameW', frameH') = Picture!Fit(w, h)
    BY <2>2, HalfFitsAlike
  <2>6. /\ Picture!Destination(w, h, FALSE) = Picture!Destination(frameW', frameH', FALSE)
        /\ Picture!Destination(w, h, FALSE).w = w /\ Picture!Destination(w, h, FALSE).h = h
    BY <2>1, <2>5 DEF Picture!Destination, Picture!Rect
  <2>7. fill' = FALSE
    BY <1>1, <2>1
  <2>8. srcW' = w /\ srcH' = h /\ dst' = Picture!Destination(w, h, FALSE)
    BY <2>3, <2>7 DEF Picture!Shown
  <2>9. Picture!HalvedExactly'
    BY <2>6, <2>8 DEF Picture!HalvedExactly
  <2> QED
    BY <1>1, <1>3, <2>4, <2>9 DEF Picture!TypeOK
<1>5. CASE ~halve'
  <2>1. Picture!PlaneInside' /\ srcW' \in Nat /\ srcH' \in Nat
    BY <1>1, <1>2, <1>5, ShownFits
  <2> QED
    BY <1>1, <1>3, <1>5, <2>1 DEF Picture!TypeOK, Picture!HalvedExactly
<1> QED
  BY <1>3, <1>4, <1>5

LEMMA PictureInit ==
    ASSUME Picture!FitAssumption, Picture!Init
    PROVE  Picture!TypeOK /\ Picture!PlaneInside /\ Picture!HalvedExactly
<1>1. PanelW \in Nat \ {0} /\ PanelH \in Nat \ {0}
  BY DEF Picture!FitAssumption
<1>2. 0 \in Picture!Pans
  BY DEF Picture!Pans
<1>3. Picture!InsideOf(crop, srcW, srcH) /\ crop.x % 2 = 0 /\ crop.y % 2 = 0
  BY <1>1, <1>2, CropInside DEF Picture!Init
<1>4. Picture!InsideOf(dst, PanelW, PanelH)
  BY <1>1, DestinationInside DEF Picture!Init
<1> QED
  BY <1>1, <1>2, <1>3, <1>4 DEF Picture!Init, Picture!TypeOK, Picture!PlaneInside,
     Picture!HalvedExactly


(* Of any frame on any panel, halved or not, filled or not and wherever it  *)
(* is panned to: nothing outside the source is read, nothing outside the    *)
(* panel painted, and a halved frame is left nothing to scale.              *)
THEOREM PictureAlwaysFits ==
    ASSUME Picture!FitAssumption
    PROVE  Picture!Spec => [](Picture!TypeOK /\ PictureFits)
<1> DEFINE Inv == Picture!TypeOK /\ Picture!PlaneInside /\ Picture!HalvedExactly
<1>1. Picture!Init => Inv
  BY PictureInit
<1>2. ASSUME Inv, UNCHANGED Picture!vars PROVE Inv'
  <2>1. UNCHANGED <<frameW, frameH, fill, pan, halve, srcW, srcH, crop, dst>>
    BY <1>2 DEF Picture!vars
  <2>2. Picture!TypeOK'
    BY <1>2, <2>1 DEF Picture!TypeOK
  <2>3. Picture!PlaneInside'
    BY <1>2, <2>1 DEF Picture!PlaneInside, Picture!InsideOf
  <2>4. Picture!HalvedExactly'
    BY <1>2, <2>1 DEF Picture!HalvedExactly
  <2> QED
    BY <2>2, <2>3, <2>4
<1>3. Inv /\ [Picture!Next]_Picture!vars => Inv'
  BY <1>2, PictureNext DEF Picture!Next
<1>4. Inv => Picture!TypeOK /\ PictureFits
  BY DEF PictureFits
<1> QED
  BY <1>1, <1>3, <1>4, PTL DEF Picture!Spec

-----------------------------------------------------------------------------
(* Which frame a refresh shows: ages.                                       *)

LEMMA MinOfTwo ==
    ASSUME NEW a \in Int, NEW b \in Int
    PROVE  Picker!Min({a, b}) = IF a <= b THEN a ELSE b
<1>1. \A x \in {a, b} : (\A y \in {a, b} : x =< y) <=> x = IF a <= b THEN a ELSE b
  OBVIOUS
<1> QED
  BY <1>1 DEF Picker!Min

LEMMA LimitsAreNumbers ==
    ASSUME Picker!PickerAssumption
    PROVE  /\ PeriodTicks \in Nat \ {0} /\ Reserve \in Nat /\ Surplus \in Nat \ {0}
           /\ Picker!Oldest \in Nat /\ Picker!Patience \in Nat /\ PeriodTicks - 1 < Picker!Oldest
<1>1. \A m, n \in Nat : m * n \in Nat
  OBVIOUS
<1>2. \A m, n \in Nat : n # 0 /\ m # 0 => n <= m * n
  OBVIOUS
<1>3. Picker!Oldest = (Reserve + Surplus + 4) * PeriodTicks /\ Reserve + Surplus + 4 \in Nat
  BY DEF Picker!PickerAssumption, Picker!Oldest
<1>4. PeriodTicks <= Picker!Oldest /\ Picker!Oldest \in Nat
  BY <1>1, <1>2, <1>3 DEF Picker!PickerAssumption
<1>5. Reserve + 2 \in Nat /\ Picker!Patience = (Reserve + 2) * PeriodTicks
  BY DEF Picker!PickerAssumption, Picker!Patience
<1> QED
  BY <1>1, <1>4, <1>5 DEF Picker!PickerAssumption

LEMMA AgedOnce ==
    ASSUME Picker!PickerAssumption, NEW n \in 0 .. Picker!Oldest
    PROVE  Picker!Min({n + PeriodTicks, Picker!Oldest}) \in 0 .. Picker!Oldest
<1>1. n \in Int /\ n + PeriodTicks \in Int /\ Picker!Oldest \in Int /\ 0 <= n + PeriodTicks /\ 0 <= Picker!Oldest
  BY LimitsAreNumbers
<1>2. Picker!Min({n + PeriodTicks, Picker!Oldest})
         = IF n + PeriodTicks <= Picker!Oldest THEN n + PeriodTicks ELSE Picker!Oldest
  BY ONLY <1>1, MinOfTwo
<1> QED
  BY <1>1, <1>2

(* Sequences of a set, as functions.                                        *)
LEMMA SequenceIsFunction ==
    ASSUME NEW A, NEW q \in Seq(A)
    PROVE  /\ Len(q) \in Nat /\ DOMAIN q = 1 .. Len(q)
           /\ \A i \in DOMAIN q : q[i] \in A
  OBVIOUS

LEMMA FunctionIsSequence ==
    ASSUME NEW A, NEW n \in Nat, NEW q \in [1 .. n -> A]
    PROVE  q \in Seq(A)
  OBVIOUS

LEMMA JoinedSequences ==
    ASSUME NEW A, NEW q \in Seq(A), NEW r \in Seq(A)
    PROVE  q \o r \in Seq(A)
  OBVIOUS

LEMMA TailOfSequence ==
    ASSUME NEW A, NEW q \in Seq(A), Len(q) > 0
    PROVE  /\ Tail(q) \in Seq(A) /\ Len(Tail(q)) = Len(q) - 1
           /\ Head(q) = q[1] /\ q[1] \in A
<1>1. q # <<>> /\ 1 \in DOMAIN q
  OBVIOUS
<1> QED
  BY <1>1, HeadTailProperties

(* What pick() finds in the queue: ages within the limit, in a sequence.    *)
LEMMA QueueOfAges ==
    ASSUME Picker!PickerAssumption, frames \in Seq(0 .. Picker!Oldest), NEW b \in Picker!Bursts
    PROVE  Picker!Aged \o b \in Seq(0 .. Picker!Oldest)
<1> DEFINE Age == 0 .. Picker!Oldest
<1>1. \A n \in Age : Picker!Min({n + PeriodTicks, Picker!Oldest}) \in Age
  BY AgedOnce
<1>2. frames \in Seq(Age)
  OBVIOUS
<1>3. 0 .. PeriodTicks - 1 \subseteq Age
  BY LimitsAreNumbers
<1> SUFFICES Picker!Aged \o b \in Seq(Age)
  OBVIOUS
<1> HIDE DEF Age
<1>4. Picker!Aged \in Seq(Age)
  <2>1. /\ Len(frames) \in Nat /\ DOMAIN frames = 1 .. Len(frames)
        /\ \A i \in DOMAIN frames : frames[i] \in Age
    BY <1>2, SequenceIsFunction
  <2>2. Picker!Aged \in [1 .. Len(frames) -> Age]
    BY <1>1, <2>1 DEF Picker!Aged
  <2> QED
    BY <2>1, <2>2, FunctionIsSequence
<1>5. b \in Seq(Age)
  <2>1. PICK n \in 0 .. MaxBurst : b \in [1 .. n -> 0 .. PeriodTicks - 1]
    BY DEF Picker!Bursts, Picker!SeqOf
  <2>2. b \in [1 .. n -> Age]
    BY <1>3, <2>1
  <2>3. n \in Nat
    OBVIOUS
  <2> QED
    BY <2>2, <2>3, FunctionIsSequence
<1> QED
  BY <1>4, <1>5, JoinedSequences

-----------------------------------------------------------------------------
(* One call of pick().                                                      *)

LEMMA PickIsSound ==
    ASSUME Picker!PickerAssumption, flushing' \in BOOLEAN,
           NEW q \in Seq(0 .. Picker!Oldest), Picker!Pick(q)
    PROVE  /\ frames' \in Seq(0 .. Picker!Oldest) /\ shown' \in BOOLEAN
           /\ dropped' \in Nat /\ lag' \in 0 .. Picker!Oldest
           /\ Picker!CatchUp'
<1> DEFINE n == Len(q)
           d == Picker!Drops(q)
           left == SubSeq(q, d + 1, n)
<1>1. /\ Picker!Steady \in 1 .. Reserve + 1
      /\ Reserve \in Nat /\ Surplus \in Nat \ {0} /\ n \in Nat
      /\ Picker!Patience \in Nat /\ Picker!Oldest \in Nat
  BY LimitsAreNumbers DEF Picker!Steady
<1>2. /\ d \in 0 .. n
      /\ d > 0 => n - d >= Picker!Steady
      /\ n - d < Picker!Steady + Surplus
      /\ d = 0 => ~(n > Picker!Steady /\ Head(q) > Picker!Patience)
  <2>1. CASE n >= Picker!Steady + Surplus
    BY <1>1, <2>1 DEF Picker!Drops
  <2>2. CASE n < Picker!Steady + Surplus
    BY <1>1, <2>2 DEF Picker!Drops
  <2> QED
    BY <1>1, <2>1, <2>2
<1>3. /\ left \in Seq(0 .. Picker!Oldest) /\ Len(left) = n - d
      /\ n - d > 0 => left[1] = q[d + 1]
  <2>1. d + 1 \in 1 .. n + 1
    BY <1>1, <1>2
  <2>2. left \in Seq(0 .. Picker!Oldest)
    BY <1>1, <2>1, SubSeqProperties
  <2>3. Len(left) = n - d
    BY <1>1, <1>2, <2>1, SubSeqProperties
  <2>4. n - d > 0 => left[1] = q[d + 1]
    BY <1>1, <1>2, <2>1, SubSeqProperties
  <2> QED
    BY <2>2, <2>3, <2>4
<1>4. /\ dropped' = d
      /\ IF n - d < Picker!Steady
         THEN frames' = left /\ shown' = FALSE /\ lag' = 0
         ELSE frames' = Tail(left) /\ shown' = TRUE /\ lag' = Head(left)
  BY <1>3 DEF Picker!Pick
<1> HIDE DEF n, d, left
<1>5. CASE n - d < Picker!Steady
  <2>1. frames' = left /\ shown' = FALSE /\ lag' = 0 /\ dropped' = d
    BY <1>4, <1>5
  <2>2. d = 0
    BY <1>1, <1>2, <1>5
  <2>3. Len(frames') < Reserve + Surplus
    BY <1>1, <1>3, <1>5, <2>1
  <2>4. Picker!CatchUp'
    BY <2>1, <2>2, <2>3 DEF Picker!CatchUp, Picker!DropThenShow, Picker!BacklogBounded,
       Picker!LateOnlyBehind
  <2>5. frames' \in Seq(0 .. Picker!Oldest) /\ lag' \in 0 .. Picker!Oldest
    BY <1>1, <1>3, <2>1
  <2> QED
    BY <2>1, <2>2, <2>4, <2>5
<1>6. CASE n - d >= Picker!Steady
  <2>1. frames' = Tail(left) /\ shown' = TRUE /\ lag' = Head(left) /\ dropped' = d
    BY <1>1, <1>2, <1>4, <1>6
  <2>2. /\ Tail(left) \in Seq(0 .. Picker!Oldest) /\ Len(Tail(left)) = n - d - 1
        /\ Head(left) = left[1] /\ Head(left) \in 0 .. Picker!Oldest
    <3>1. Len(left) > 0
      BY <1>1, <1>2, <1>3, <1>6
    <3> QED
      BY <1>3, <3>1, TailOfSequence
  <2>3. Len(frames') < Reserve + Surplus
    BY <1>1, <1>2, <2>1, <2>2
  <2>4. lag' > Picker!Patience /\ d = 0 => Len(frames') <= Reserve
    <3> SUFFICES ASSUME lag' > Picker!Patience, d = 0
                 PROVE  Len(frames') <= Reserve
      OBVIOUS
    <3>1. lag' = q[1]
      BY <1>1, <1>3, <1>6, <2>1, <2>2
    <3>2. Head(q) = q[1]
      BY <1>1, <1>6 DEF n
    <3>3. n <= Picker!Steady
      BY <1>1, <1>2, <3>1, <3>2
    <3> QED
      BY <1>1, <2>1, <2>2, <3>3
  <2>5. (lag > Picker!Patience)' <=> lag' > Picker!Patience
    BY DEF Picker!Patience
  <2> QED
    BY <1>1, <1>2, <2>1, <2>2, <2>3, <2>4, <2>5
    DEF Picker!CatchUp, Picker!DropThenShow, Picker!BacklogBounded, Picker!LateOnlyBehind
<1> QED
  BY <1>1, <1>2, <1>5, <1>6

-----------------------------------------------------------------------------
(* Whatever the decoder delivers and whenever, no refresh drops frames to   *)
(* show none, leaves a stall's worth behind, or shows a late frame it could *)
(* have dropped; the queue holds ages and nothing else.                     *)
THEOREM AlwaysCatchesUp ==
    ASSUME Picker!PickerAssumption
    PROVE  Picker!Spec => [](Picker!TypeOK /\ Picker!CatchUp)
<1>1. Picker!Init => Picker!TypeOK /\ Picker!CatchUp
  <2> SUFFICES ASSUME Picker!Init PROVE Picker!TypeOK /\ Picker!CatchUp
    OBVIOUS
  <2>1. frames = <<>> /\ Len(frames) = 0
    BY DEF Picker!Init
  <2>2. Picker!CatchUp
    BY <2>1, LimitsAreNumbers
    DEF Picker!Init, Picker!CatchUp, Picker!DropThenShow, Picker!BacklogBounded,
       Picker!LateOnlyBehind
  <2>3. frames \in Seq(0 .. Picker!Oldest) /\ 0 \in 0 .. Picker!Oldest
    BY <2>1, LimitsAreNumbers
  <2> QED
    BY <2>2, <2>3 DEF Picker!Init, Picker!TypeOK
<1>2. Picker!TypeOK /\ Picker!CatchUp /\ [Picker!Next]_Picker!vars =>
          Picker!TypeOK' /\ Picker!CatchUp'
  <2> SUFFICES ASSUME Picker!TypeOK, Picker!CatchUp, [Picker!Next]_Picker!vars
               PROVE  Picker!TypeOK' /\ Picker!CatchUp'
    OBVIOUS
  <2>1. CASE Picker!Refresh
    <3>1. PICK b \in Picker!Bursts : Picker!Pick(Picker!Aged \o b)
      BY <2>1 DEF Picker!Refresh
    <3>2. flushing' \in BOOLEAN
      BY <2>1 DEF Picker!Refresh, Picker!TypeOK
    <3>3. Picker!Aged \o b \in Seq(0 .. Picker!Oldest)
      BY QueueOfAges DEF Picker!TypeOK
    <3> HIDE DEF Picker!CatchUp
    <3> QED
      BY <3>1, <3>2, <3>3, PickIsSound DEF Picker!TypeOK, Picker!Oldest
  <2>2. CASE Picker!Flush \/ UNCHANGED Picker!vars
    <3>1. flushing' \in BOOLEAN /\ UNCHANGED <<frames, shown, dropped, lag>>
      BY <2>2 DEF Picker!Flush, Picker!vars, Picker!TypeOK
    <3> QED
      BY <3>1 DEF Picker!TypeOK, Picker!CatchUp, Picker!DropThenShow, Picker!BacklogBounded,
         Picker!LateOnlyBehind, Picker!Patience, Picker!Oldest
  <2> QED
    BY <2>1, <2>2 DEF Picker!Next
<1> QED
  BY <1>1, <1>2, PTL DEF Picker!Spec

-----------------------------------------------------------------------------
(* The composition: every step is a step of one part.                       *)

LEMMA SameOutput ==
    /\ Output!DrmAssumption => OutputProofs!DrmAssumption
    /\ Output!Init => OutputProofs!Init
    /\ Output!Next => OutputProofs!Next
  BY DEF Output!DrmAssumption, OutputProofs!DrmAssumption, Output!Init, OutputProofs!Init,
         Output!Next, OutputProofs!Next,
         Output!Latch, OutputProofs!Latch, Output!FlipEvent, OutputProofs!FlipEvent,
         Output!FlipTimesOut, OutputProofs!FlipTimesOut, Output!WaitDone,
         OutputProofs!WaitDone, Output!UiDraws, OutputProofs!UiDraws, Output!Written,
         OutputProofs!Written, Output!UiPresents, OutputProofs!UiPresents,
         Output!LegacyPresents, OutputProofs!LegacyPresents, Output!StreamShows,
         OutputProofs!StreamShows, Output!FramePicked, OutputProofs!FramePicked,
         Output!FrameCommitted, OutputProofs!FrameCommitted, Output!Held,
         OutputProofs!Held, Output!StreamEnds, OutputProofs!StreamEnds, Output!StreamLeft,
         OutputProofs!StreamLeft, Output!NewPairRefused, OutputProofs!NewPairRefused,
         Output!NewPair, OutputProofs!NewPair, Output!FirstCommitted,
         OutputProofs!FirstCommitted, Output!FirstSetPlane, OutputProofs!FirstSetPlane,
         Output!FreeOld, OutputProofs!FreeOld, Output!Close, OutputProofs!Close,
         Output!Closed, OutputProofs!Closed, Output!vars, OutputProofs!vars, Output!device,
         OutputProofs!device, Output!source, OutputProofs!source, Output!Back,
         OutputProofs!Back, Output!Stale, OutputProofs!Stale, Output!Before,
         OutputProofs!Before, Output!Committed, OutputProofs!Committed, Output!Refused,
         OutputProofs!Refused, Output!SetPlane, OutputProofs!SetPlane, Output!Waiting,
         OutputProofs!Waiting, Output!Flip, OutputProofs!Flip, Output!Pair,
         OutputProofs!Pair, Output!Buffers, OutputProofs!Buffers

LEMMA SameVars ==
    /\ Output!vars = OutputProofs!vars
  BY DEF Output!vars, OutputProofs!vars,
         Output!device, OutputProofs!device, Output!source, OutputProofs!source

LEMMA PartsInit ==
    StreamInit => Init /\ Picker!Init /\ Picture!Init /\ Output!Init
  BY DEF StreamInit

LEMMA PartsStep ==
    ASSUME [StreamNext]_streamVars
    PROVE  /\ [Next]_vars /\ [Picker!Next]_Picker!vars
           /\ [Picture!Next]_Picture!vars /\ [Output!Next]_Output!vars
<1>1. UNCHANGED pickerVars => UNCHANGED Picker!vars
  BY DEF pickerVars, Picker!vars
<1>2. UNCHANGED pictureVars => UNCHANGED Picture!vars
  BY DEF pictureVars, Picture!vars
<1>3. UNCHANGED outputVars => UNCHANGED Output!vars
  BY DEF outputVars, Output!vars, Output!device, Output!source
<1> QED
  BY <1>1, <1>2, <1>3 DEF StreamNext, Input, streamVars

(* The parts share nothing: a stream is a run of each of them, side by      *)
(* side (stream.cpp starts the input thread, the presenter and the output   *)
(* over the one session).                                                   *)
THEOREM PartsRunApart ==
    StreamSpec => Spec /\ Picker!Spec /\ Picture!Spec /\ Output!Spec
  BY PartsInit, PartsStep, PTL DEF StreamSpec, Spec, Picker!Spec, Picture!Spec, Output!Spec

LEMMA OutputRuns == Output!Spec => OutputProofs!Spec
<1>1. Output!Init => OutputProofs!Init
  BY SameOutput
<1>2. [Output!Next]_Output!vars => [OutputProofs!Next]_OutputProofs!vars
  BY SameOutput, SameVars DEF Output!vars, OutputProofs!vars, Output!device,
     OutputProofs!device,
     Output!source, OutputProofs!source
<1> QED
  BY <1>1, <1>2, PTL DEF Output!Spec, OutputProofs!Spec

(* A stream catches up with a backlog without a hold on top of the skip     *)
(* (VideoPipeline::pick()).                                                 *)
THEOREM StreamCatchesUp == StreamSpec => [](Picker!TypeOK /\ CatchUp)
<1>1. Picker!Spec => [](Picker!TypeOK /\ Picker!CatchUp)
  BY PartsAssumption, AlwaysCatchesUp
<1> QED
  BY <1>1, PartsRunApart, PTL DEF CatchUp

(* Every picture of a stream is inside its source and inside the panel.     *)
THEOREM StreamPictureFits == StreamSpec => []PictureFits
<1>1. Picture!FitAssumption
  BY PartsAssumption
<1>2. Picture!Spec => [](Picture!TypeOK /\ PictureFits)
  BY <1>1, PictureAlwaysFits
<1> QED
  BY <1>2, PartsRunApart, PTL

(* The buffer a stream or a screen fills is neither shown nor about to be   *)
(* (wait_for_flip()).                                                       *)
THEOREM StreamNeverTears == StreamSpec => []NoTear
<1>1. OutputProofs!DrmAssumption
  BY PartsAssumption, SameOutput
<1>2. OutputProofs!Spec => []OutputProofs!NoTear
  BY <1>1, OutputProofs!NeverTears
<1>3. OutputProofs!NoTear => NoTear
  BY DEF NoTear, Output!NoTear, OutputProofs!NoTear, Output!Back, OutputProofs!Back
<1> QED
  BY <1>2, <1>3, PartsRunApart, OutputRuns, PTL

(* A change of size keeps the plane filled, and a refresh without a frame   *)
(* repeats the picture on screen (drm_out_set_source(), drm_out_recommit()).*)
THEOREM StreamPlaneSteps == StreamSpec => PlaneSteps
<1>1. OutputProofs!DrmAssumption
  BY PartsAssumption, SameOutput
<1>2. OutputProofs!Spec => OutputProofs!PlaneKept /\ OutputProofs!HeldRepeats
  BY <1>1, OutputProofs!PlaneIsKept, OutputProofs!HeldRepeatsShown
<1>3. OutputProofs!PlaneKept => Output!PlaneKept
  BY SameVars DEF Output!PlaneKept, OutputProofs!PlaneKept, Output!vars, OutputProofs!vars,
     Output!device, OutputProofs!device, Output!source, OutputProofs!source
<1>4. OutputProofs!HeldRepeats => Output!HeldRepeats
  BY SameVars DEF Output!HeldRepeats, OutputProofs!HeldRepeats, Output!vars, OutputProofs!vars,
     Output!device, OutputProofs!device, Output!source, OutputProofs!source
<1> QED
  BY <1>2, <1>3, <1>4, PartsRunApart, OutputRuns, PTL DEF PlaneSteps

(* The parts of a stream keep their types, the framebuffers on screen and   *)
(* queued being ones the kernel has.                                        *)
THEOREM StreamTypesCorrect == StreamSpec => []PartsTypeOK
<1>1. OutputProofs!DrmAssumption /\ Picture!FitAssumption
  BY PartsAssumption, SameOutput
<1>2. OutputProofs!Spec => []OutputProofs!TypeOK
  BY <1>1, OutputProofs!TypeCorrect
<1>3. OutputProofs!TypeOK => Output!TypeOK
  BY DEF Output!TypeOK, OutputProofs!TypeOK, Output!Buffers, OutputProofs!Buffers
<1>4. Picture!Spec => [](Picture!TypeOK /\ PictureFits)
  BY <1>1, PictureAlwaysFits
<1>5. TypeOK /\ Picker!TypeOK /\ Picture!TypeOK /\ Output!TypeOK => PartsTypeOK
  BY DEF PartsTypeOK
<1> QED
  BY <1>2, <1>3, <1>4, <1>5, TypeCorrect, StreamCatchesUp, PartsRunApart, OutputRuns, PTL

=============================================================================
