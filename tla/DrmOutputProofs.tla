--------------------------- MODULE DrmOutputProofs ---------------------------
(* Theorems about DrmOutput, for every set of video sizes and every number  *)
(* of events the kernel may hold back.                                      *)
EXTENDS DrmOutput, SequenceTheorems, TLAPS

-----------------------------------------------------------------------------
(* Events not read: none is the one waited for, or at most one is.          *)

Quiet(es) == \A k \in DOMAIN es : ~es[k]

Single(es) == \A k, l \in DOMAIN es : es[k] /\ es[l] => k = l

LEMMA QuietIsSingle == \A es : Quiet(es) => Single(es)
  BY DEF Quiet, Single

LEMMA StaleIsQuiet ==
    ASSUME NEW es \in Seq(BOOLEAN)
    PROVE  Stale(es) \in Seq(BOOLEAN) /\ Quiet(Stale(es))
<1>1. Len(es) \in Nat /\ DOMAIN es = 1 .. Len(es)
  OBVIOUS
<1>2. Stale(es) \in [1 .. Len(es) -> BOOLEAN]
  BY <1>1 DEF Stale
<1>3. Stale(es) \in Seq(BOOLEAN)
  BY <1>1, <1>2
<1>4. Quiet(Stale(es))
  BY DEF Quiet, Stale
<1> QED
  BY <1>3, <1>4

LEMMA AppendEvent ==
    ASSUME NEW es \in Seq(BOOLEAN), NEW b \in BOOLEAN
    PROVE  /\ Append(es, b) \in Seq(BOOLEAN)
           /\ Quiet(es) /\ ~b => Quiet(Append(es, b))
           /\ Quiet(es) => Single(Append(es, b))
           /\ Single(es) /\ ~b => Single(Append(es, b))
<1>1. /\ Append(es, b) \in Seq(BOOLEAN)
      /\ Len(es) \in Nat /\ DOMAIN es = 1 .. Len(es)
      /\ DOMAIN Append(es, b) = 1 .. Len(es) + 1
      /\ \A k \in 1 .. Len(es) : Append(es, b)[k] = es[k]
      /\ Append(es, b)[Len(es) + 1] = b
  BY AppendProperties
<1>2. \A k \in 1 .. Len(es) + 1 : k \in 1 .. Len(es) \/ k = Len(es) + 1
  BY <1>1
<1>3. \A k \in 1 .. Len(es) + 1 : Append(es, b)[k] =>
         (k \in 1 .. Len(es) /\ es[k]) \/ (k = Len(es) + 1 /\ b)
  BY <1>1, <1>2
<1> QED
  BY <1>1, <1>3 DEF Quiet, Single

LEMMA TailEvents ==
    ASSUME NEW es \in Seq(BOOLEAN), es # <<>>
    PROVE  /\ Tail(es) \in Seq(BOOLEAN)
           /\ Head(es) \in BOOLEAN
           /\ Quiet(es) => Quiet(Tail(es)) /\ ~Head(es)
           /\ Single(es) => Single(Tail(es))
           /\ Single(es) /\ Head(es) => Quiet(Tail(es))
<1>1. /\ Tail(es) \in Seq(BOOLEAN) /\ Head(es) = es[1] /\ Head(es) \in BOOLEAN
      /\ Len(es) \in Nat \ {0} /\ DOMAIN es = 1 .. Len(es)
      /\ DOMAIN Tail(es) = 1 .. Len(es) - 1
      /\ \A k \in 1 .. Len(es) - 1 : Tail(es)[k] = es[k + 1]
  BY HeadTailProperties
<1>2. \A k \in 1 .. Len(es) - 1 : k + 1 \in 1 .. Len(es) /\ k + 1 # 1
  BY <1>1
<1>3. 1 \in 1 .. Len(es)
  BY <1>1
<1>4. Quiet(es) => Quiet(Tail(es)) /\ ~Head(es)
  BY <1>1, <1>2, <1>3 DEF Quiet
<1>5. ASSUME Single(es), NEW k \in 1 .. Len(es) - 1, NEW l \in 1 .. Len(es) - 1,
             Tail(es)[k], Tail(es)[l]
      PROVE  k = l
  <2>1. k + 1 = l + 1
    BY <1>1, <1>2, <1>5 DEF Single
  <2> QED
    BY <1>1, <2>1
<1>6. ASSUME Single(es), Head(es), NEW k \in 1 .. Len(es) - 1
      PROVE  ~Tail(es)[k]
  BY <1>1, <1>2, <1>3, <1>6 DEF Single
<1>7. Single(es) => Single(Tail(es))
  BY <1>1, <1>5 DEF Single
<1>8. Single(es) /\ Head(es) => Quiet(Tail(es))
  BY <1>1, <1>6 DEF Quiet
<1> QED
  BY <1>1, <1>4, <1>7, <1>8

-----------------------------------------------------------------------------
(* What is true at each point of the presenter's way.                       *)

Other == [gen |-> gen, i |-> 1 - back]

Commit == [fb : Buffers, live : BOOLEAN]

Clear == scan # Back /\ (queued = None \/ queued.fb # Back)

(* Types, as far as buffers and commits go.                                 *)
Kinds ==
    /\ gen \in {0, 1} /\ back \in {0, 1}
    /\ scan \in Buffers \cup {None}
    /\ queued \in Commit \cup {None}
    /\ events \in Seq(BOOLEAN)
    /\ pending \in BOOLEAN /\ atomic \in BOOLEAN /\ gaveUp \in BOOLEAN

(* Which modes and sizes go with which point.                               *)
Places ==
    /\ mode \in {"ui", "video", "closed"}
    /\ pc \in {"uiwait", "legacy"} => mode = "ui"
    /\ pc \in {"wait", "leave"} => mode = "video"
    /\ mode = "closed" => pc = "idle" /\ scan = None /\ queued = None
    /\ pc = "legacy" => ~atomic
    /\ mode = "video" /\ pc \in {"write", "show"} => size # UiSize
    /\ mode = "video" /\ pc \in {"switch", "alloc"} => target # UiSize
    /\ mode = "video" /\ pc \in {"first", "firstwait", "free", "freefailed"} => size # UiSize

(* The commit waited for is the one in the queue, or it is on screen and    *)
(* its event is the only one of its own; and nobody waits without one.      *)
Awaited == IF pc = "uiwait" THEN Back ELSE Other

OneAwaited ==
    /\ pending /\ mode # "closed" =>
          \/ queued # None /\ queued.live /\ queued.fb = Awaited /\ Quiet(events)
          \/ queued = None /\ scan = Awaited
    /\ ~pending => Quiet(events) /\ (queued # None => ~queued.live)
    /\ Single(events)
    /\ ~atomic => ~pending
    /\ pc \in {"alloc", "first", "free", "freefailed"} => ~pending

(* Once a switch of size has made the new pair, only the old one is in use. *)
OldPairInUse ==
    /\ pc \notin {"first", "firstwait", "free", "freefailed"} =>
          /\ scan # None => scan.gen = gen
          /\ queued # None => queued.fb.gen = gen
    /\ pc = "first" =>
          /\ scan # None => scan.gen # gen
          /\ queued # None => queued.fb.gen # gen
    /\ pc \in {"firstwait", "free", "freefailed"} => Clear

(* The back buffer is clear, but while a flip away from it is awaited, which *)
(* nobody leaves without waiting for it.                                     *)
BackClear ==
    ~gaveUp =>
        IF pc = "uiwait" THEN pending \/ (scan = Back /\ queued = None)
        ELSE Clear \/ (pc \in {"wait", "leave", "switch"} /\ pending /\ size # UiSize)

TearInv == Kinds /\ Places /\ OneAwaited /\ OldPairInUse /\ BackClear

-----------------------------------------------------------------------------
(* What a commit does to the device.                                        *)
LEMMA BackAndOther ==
    ASSUME Kinds
    PROVE  /\ Back \in Buffers /\ Other \in Buffers /\ Back # Other
           /\ Back.gen = gen /\ Other.gen = gen
           /\ \A b \in Buffers : b.gen = gen => b \in {Back, Other}
  BY DEF Kinds, Back, Other, Buffers

LEMMA CommittedDoes ==
    ASSUME DrmAssumption, Kinds, NEW fb \in Buffers, Committed(fb)
    PROVE  /\ queued' \in Commit /\ queued' # None /\ queued'.fb = fb /\ queued'.live
           /\ events' \in Seq(BOOLEAN) /\ Quiet(events') /\ pending' = TRUE
           /\ scan' = IF queued = None THEN scan ELSE queued.fb
           /\ scan' \in Buffers \cup {None}
<1>1. queued' = [fb |-> fb, live |-> TRUE]
  BY DEF Committed
<1>2. queued' \in Commit /\ queued'.fb = fb /\ queued'.live
  BY <1>1 DEF Commit
<1>3. queued' # None
  BY <1>2 DEF DrmAssumption, Commit, Buffers
<1>4. Before \in Seq(BOOLEAN)
  BY AppendEvent DEF Before, Kinds
<1>5. events' \in Seq(BOOLEAN) /\ Quiet(events')
  BY <1>4, StaleIsQuiet DEF Committed
<1>6. queued # None => queued.fb \in Buffers
  BY DEF Kinds, Commit
<1> QED
  BY <1>2, <1>3, <1>5, <1>6 DEF Committed, Kinds

LEMMA RefusedDoes ==
    ASSUME DrmAssumption, Kinds, Refused
    PROVE  /\ queued = None => queued' = None
           /\ queued # None => /\ queued' \in Commit /\ queued' # None
                               /\ queued'.fb = queued.fb /\ ~queued'.live
           /\ events' \in Seq(BOOLEAN) /\ Quiet(events')
           /\ pending' = FALSE /\ scan' = scan
<1>1. events' \in Seq(BOOLEAN) /\ Quiet(events')
  BY StaleIsQuiet DEF Refused, Kinds
<1>2. ASSUME queued # None
      PROVE  queued' \in Commit /\ queued'.fb = queued.fb /\ ~queued'.live
  BY <1>2 DEF Refused, Kinds, Commit
<1>3. queued # None => queued' # None
  BY <1>2 DEF DrmAssumption, Commit, Buffers
<1> QED
  BY <1>1, <1>2, <1>3 DEF Refused

LEMMA SetPlaneDoes ==
    ASSUME Kinds, Quiet(events), NEW fb \in Buffers, SetPlane(fb)
    PROVE  /\ scan' = fb /\ queued' = None
           /\ events' \in Seq(BOOLEAN) /\ Quiet(events')
  BY AppendEvent DEF SetPlane, Before, Kinds

-----------------------------------------------------------------------------
(* The kernel and the waits keep the invariant.                             *)
LEMMA TearInit == ASSUME DrmAssumption, Init PROVE TearInv
<1>1. events \in Seq(BOOLEAN) /\ Quiet(events) /\ Single(events)
  BY DEF Init, Quiet, Single
<1>2. scan = None /\ queued = None /\ None \notin Buffers
  BY DEF Init, DrmAssumption, Buffers
<1>3. Back \in Buffers
  BY DEF Init, Back, Buffers
<1>4. Kinds
  BY <1>1, <1>2 DEF Init, Kinds
<1>5. Places
  BY DEF Init, Places
<1>6. OneAwaited
  BY <1>1, <1>2 DEF Init, OneAwaited
<1>7. OldPairInUse
  BY <1>2 DEF Init, OldPairInUse
<1>8. BackClear
  BY <1>2, <1>3 DEF Init, BackClear, Clear
<1> QED
  BY <1>4, <1>5, <1>6, <1>7, <1>8 DEF TearInv

LEMMA TearLatch == ASSUME DrmAssumption, TearInv, Latch PROVE TearInv'
<1>1. /\ Back' = Back /\ Other' = Other /\ Awaited' = Awaited
      /\ queued \in Commit /\ queued.fb \in Buffers /\ queued.live \in BOOLEAN
      /\ queued # None /\ queued' = None /\ scan' = queued.fb
      /\ UNCHANGED <<atomic, size, gen, back, pending, flipped, mode, target, pc, gaveUp>>
  BY DEF Latch, TearInv, Kinds, Commit, Back, Other, Awaited, source
<1>2. /\ events' \in Seq(BOOLEAN)
      /\ Quiet(events) /\ ~queued.live => Quiet(events')
      /\ Quiet(events) => Single(events')
      /\ Single(events) /\ ~queued.live => Single(events')
  BY <1>1, AppendEvent DEF Latch, TearInv, Kinds
<1>3. Kinds' /\ Places'
  BY <1>1, <1>2 DEF TearInv, Kinds, Places
<1>4. OneAwaited'
  BY <1>1, <1>2 DEF TearInv, OneAwaited, Places, Kinds
<1>5. Clear => Clear'
  BY <1>1 DEF Clear
<1>6. OldPairInUse'
  BY <1>1, <1>5 DEF TearInv, OldPairInUse
<1>7. BackClear'
  BY <1>1, <1>5 DEF TearInv, BackClear
<1> QED
  BY <1>3, <1>4, <1>6, <1>7 DEF TearInv

LEMMA TearFlipEvent == ASSUME DrmAssumption, TearInv, FlipEvent PROVE TearInv'
<1>1. /\ Back' = Back /\ Other' = Other /\ Awaited' = Awaited /\ Clear' = Clear
      /\ UNCHANGED <<atomic, size, gen, back, scan, queued, mode, target, pc>>
      /\ pending /\ events # <<>> /\ events' = Tail(events)
  BY DEF FlipEvent, Back, Other, Awaited, Clear, source
<1>2. /\ events' \in Seq(BOOLEAN) /\ Head(events) \in BOOLEAN
      /\ Quiet(events) => Quiet(events') /\ ~Head(events)
      /\ Single(events')
      /\ Head(events) => Quiet(events')
  BY <1>1, TailEvents DEF TearInv, Kinds, OneAwaited
<1>3. mode # "closed"
  BY DEF FlipEvent, Waiting, TearInv, Places
<1>4. CASE Head(events)
  <2>1. pending' = FALSE /\ gaveUp' = FALSE
    BY <1>4 DEF FlipEvent
  <2>2. queued = None /\ scan = Awaited
    BY <1>1, <1>2, <1>3, <1>4 DEF TearInv, OneAwaited
  <2>3. Kinds' /\ Places' /\ OldPairInUse'
    BY <1>1, <1>2, <2>1 DEF TearInv, Kinds, Places, OldPairInUse
  <2>4. OneAwaited'
    BY <1>1, <1>2, <1>4, <2>1, <2>2
       DEF TearInv, OneAwaited
  <2>5. pc # "uiwait" => Clear
    BY <2>2, BackAndOther DEF Awaited, Clear, TearInv
  <2>6. BackClear'
    BY <1>1, <2>1, <2>2, <2>5 DEF BackClear, Awaited
  <2> QED
    BY <2>3, <2>4, <2>6 DEF TearInv
<1>5. CASE ~Head(events)
  <2>1. UNCHANGED <<pending, gaveUp>>
    BY <1>5 DEF FlipEvent
  <2> QED
    BY <1>1, <1>2, <2>1
       DEF TearInv, Kinds, Places, OneAwaited, OldPairInUse, BackClear
<1> QED
  BY <1>2, <1>4, <1>5

LEMMA TearFlipTimesOut == ASSUME DrmAssumption, TearInv, FlipTimesOut PROVE TearInv'
<1>1. /\ Back' = Back /\ Quiet(events)
      /\ UNCHANGED <<size, gen, back, scan, events, mode, target>>
      /\ pending' = FALSE /\ gaveUp' = TRUE
      /\ IF pc = "uiwait" THEN atomic' = FALSE /\ pc' = "legacy" ELSE UNCHANGED <<atomic, pc>>
  BY DEF FlipTimesOut, Back, source, Quiet
<1>2. /\ queued = None => queued' = None
      /\ queued # None => queued' \in Commit /\ queued'.fb = queued.fb /\ ~queued'.live
  BY DEF FlipTimesOut, TearInv, Kinds, Commit
<1>3. queued # None => queued' # None
  BY <1>2 DEF DrmAssumption, Commit, Buffers
<1>4. Kinds'
  BY <1>1, <1>2 DEF TearInv, Kinds
<1>5. Places'
  BY <1>1, <1>2 DEF TearInv, Places
<1>6. OneAwaited'
  BY <1>1, <1>2, QuietIsSingle DEF TearInv, OneAwaited
<1>7. Clear => Clear'
  BY <1>1, <1>2 DEF Clear
<1>8. OldPairInUse'
  BY <1>1, <1>2, <1>3, <1>7 DEF TearInv, OldPairInUse
<1>9. BackClear'
  BY <1>1 DEF BackClear
<1> QED
  BY <1>4, <1>5, <1>6, <1>8, <1>9 DEF TearInv

LEMMA TearWaitDone == ASSUME DrmAssumption, TearInv, WaitDone PROVE TearInv'
<1>1. /\ ~pending /\ UNCHANGED <<atomic, size, gen, pending, scan, queued, events, mode,
                                 target, gaveUp>>
      /\ Kinds /\ Places /\ OneAwaited /\ OldPairInUse /\ BackClear
  BY DEF WaitDone, device, TearInv
<1>2. CASE pc = "uiwait"
  <2>1. back' = 1 - back /\ pc' = "idle"
    BY <1>2 DEF WaitDone, Flip
  <2>2. Back' = Other
    BY <1>1, <2>1 DEF Back, Other
  <2>3. Kinds' /\ Places'
    BY <1>1, <1>2, <2>1 DEF Kinds, Places
  <2>4. OneAwaited' /\ OldPairInUse'
    BY <1>1, <1>2, <2>1 DEF OneAwaited, OldPairInUse
  <2>5. BackClear'
    BY <1>1, <1>2, <2>1, <2>2, BackAndOther DEF BackClear, Clear
  <2> QED
    BY <2>3, <2>4, <2>5 DEF TearInv
<1>3. CASE pc # "uiwait"
  <2>1. /\ back' = back
        /\ <<pc, pc'>> \in {<<"wait", "idle">>, <<"switch", "alloc">>, <<"firstwait", "free">>}
    BY <1>3 DEF WaitDone
  <2>2. Back' = Back /\ Clear' = Clear
    BY <1>1, <2>1 DEF Back, Clear
  <2>3. Kinds' /\ Places'
    BY <1>1, <2>1 DEF Kinds, Places
  <2>4. OneAwaited' /\ OldPairInUse'
    BY <1>1, <2>1, <2>2 DEF OneAwaited, OldPairInUse
  <2>5. BackClear'
    BY <1>1, <2>1, <2>2 DEF BackClear
  <2> QED
    BY <2>3, <2>4, <2>5 DEF TearInv
<1> QED
  BY <1>2, <1>3


-----------------------------------------------------------------------------
(* The presenter and the screens keep the invariant.                        *)

(* A step that moves on and leaves device and buffers alone.                *)
LEMMA TearMove ==
    ASSUME TearInv,
           UNCHANGED <<atomic, source, pending, device, gaveUp>>,
           Places',
           <<pc, pc'>> \in {<<"idle", "write">>, <<"write", "show">>, <<"idle", "idle">>,
                            <<"idle", "switch">>, <<"idle", "leave">>, <<"wait", "leave">>,
                            <<"leave", "idle">>, <<"leave", "switch">>, <<"alloc", "leave">>,
                            <<"alloc", "idle">>, <<"legacy", "idle">>, <<"show", "idle">>,
                            <<"show", "leave">>},
           pc' = "idle" => (pc = "leave" => size = UiSize),
           mode # "closed", mode' # "closed"
    PROVE  TearInv'
<1>1. /\ Back' = Back /\ Other' = Other /\ Clear' = Clear
      /\ Kinds /\ OneAwaited /\ OldPairInUse /\ BackClear
      /\ UNCHANGED <<atomic, size, gen, back, pending, scan, queued, events, gaveUp>>
  BY DEF Back, Other, Clear, source, device, TearInv
<1>2. Awaited = Other /\ Awaited' = Other
  BY <1>1 DEF Awaited
<1>3. Kinds'
  BY <1>1 DEF Kinds
<1>4. OneAwaited'
  BY <1>1, <1>2 DEF OneAwaited
<1>5. OldPairInUse'
  BY <1>1 DEF OldPairInUse
<1>6. BackClear'
  BY <1>1 DEF BackClear, OneAwaited
<1> QED
  BY <1>3, <1>4, <1>5, <1>6 DEF TearInv

LEMMA TearMoves ==
    ASSUME DrmAssumption, TearInv,
           \/ UiDraws \/ Written \/ StreamShows \/ FramePicked \/ StreamEnds
           \/ StreamLeft \/ NewPairRefused
    PROVE  TearInv'
<1>1. Places
  BY DEF TearInv
<1>2. CASE UiDraws
  <2>1. Places' /\ mode # "closed"
    BY <1>1, <1>2 DEF UiDraws, Places, source, device
  <2> QED
    BY <1>2, <2>1, TearMove DEF UiDraws
<1>3. CASE Written
  <2>1. Places' /\ mode # "closed"
    BY <1>1, <1>3 DEF Written, Places, source, device
  <2> QED
    BY <1>3, <2>1, TearMove DEF Written
<1>4. CASE StreamShows
  <2>1. Places'
    BY <1>1, <1>4 DEF StreamShows, Places, source, device
  <2> QED
    BY <1>4, <2>1, TearMove DEF StreamShows
<1>5. CASE FramePicked
  <2>1. Places'
    BY <1>1, <1>5 DEF FramePicked, Places, source, device, DrmAssumption
  <2> QED
    BY <1>5, <2>1, TearMove DEF FramePicked
<1>6. CASE StreamEnds
  <2>1. Places'
    BY <1>1, <1>6 DEF StreamEnds, Places, source, device
  <2> QED
    BY <1>6, <2>1, TearMove DEF StreamEnds
<1>7. CASE StreamLeft
  <2>1. Places' /\ mode # "closed"
    BY <1>1, <1>7 DEF StreamLeft, Places, source, device
  <2> QED
    BY <1>7, <2>1, TearMove DEF StreamLeft
<1>8. CASE NewPairRefused
  <2>1. Places' /\ mode # "closed"
    BY <1>1, <1>8 DEF NewPairRefused, Places, source, device
  <2> QED
    BY <1>8, <2>1, TearMove DEF NewPairRefused
<1> QED
  BY <1>2, <1>3, <1>4, <1>5, <1>6, <1>7, <1>8

(* A commit that the driver refuses shows nothing new.                      *)
LEMMA TearRefused ==
    ASSUME DrmAssumption, TearInv, Refused, Places',
           UNCHANGED <<size, gen, back, gaveUp>>, atomic' \in BOOLEAN,
           <<pc, pc'>> \in {<<"show", "legacy">>, <<"show", "leave">>, <<"idle", "idle">>,
                            <<"first", "freefailed">>}
    PROVE  TearInv'
<1>1. /\ Kinds /\ OneAwaited /\ OldPairInUse /\ BackClear
      /\ Back' = Back
  BY DEF TearInv, Back
<1>2. /\ queued = None => queued' = None
      /\ queued # None => /\ queued' \in Commit /\ queued' # None
                          /\ queued'.fb = queued.fb /\ ~queued'.live
      /\ events' \in Seq(BOOLEAN) /\ Quiet(events')
      /\ pending' = FALSE /\ scan' = scan
  BY <1>1, RefusedDoes
<1>3. Clear' = Clear
  BY <1>1, <1>2 DEF Clear
<1>4. Kinds'
  BY <1>1, <1>2 DEF Kinds
<1>5. OneAwaited'
  BY <1>2, QuietIsSingle DEF OneAwaited
<1>6. pc = "first" => Clear
  <2>1. Back \in Buffers /\ Back.gen = gen /\ Back # None
    BY <1>1, BackAndOther DEF DrmAssumption, Buffers
  <2> QED
    BY <1>1, <2>1 DEF OldPairInUse, Clear
<1>7. OldPairInUse'
  BY <1>1, <1>2, <1>3, <1>6 DEF OldPairInUse
<1>8. BackClear'
  BY <1>1, <1>3, <1>6 DEF BackClear
<1> QED
  BY <1>4, <1>5, <1>7, <1>8 DEF TearInv

LEMMA TearUiPresents == ASSUME DrmAssumption, TearInv, UiPresents PROVE TearInv'
<1>1. /\ Kinds /\ Places /\ OneAwaited /\ OldPairInUse /\ BackClear
      /\ Back' = Back /\ Back \in Buffers /\ Back.gen = gen
      /\ UNCHANGED <<size, gen, back, flipped, mode, target, gaveUp>> /\ pc = "show" /\ atomic
  BY BackAndOther DEF TearInv, UiPresents, source, Back
<1>2. CASE Committed(Back) /\ pc' = "uiwait" /\ UNCHANGED atomic
  <2>1. /\ queued' \in Commit /\ queued' # None /\ queued'.fb = Back /\ queued'.live
        /\ events' \in Seq(BOOLEAN) /\ Quiet(events') /\ pending' = TRUE
        /\ scan' = (IF queued = None THEN scan ELSE queued.fb)
        /\ scan' \in Buffers \cup {None}
    BY <1>1, <1>2, CommittedDoes
  <2>2. Kinds' /\ Places'
    BY <1>1, <1>2, <2>1 DEF Kinds, Places, UiPresents
  <2>3. OneAwaited'
    BY <1>1, <1>2, <2>1, QuietIsSingle DEF OneAwaited, Awaited
  <2>4. OldPairInUse'
    BY <1>1, <1>2, <2>1 DEF OldPairInUse
  <2>5. BackClear'
    BY <1>2, <2>1 DEF BackClear
  <2> QED
    BY <2>2, <2>3, <2>4, <2>5 DEF TearInv
<1>3. CASE Refused /\ pc' = "legacy" /\ atomic' = FALSE
  <2>1. Places'
    BY <1>1, <1>3 DEF Places, UiPresents
  <2> QED
    BY <1>1, <1>3, <2>1, TearRefused
<1> QED
  BY <1>2, <1>3 DEF UiPresents

(* The legacy path waits for the vblank itself.                             *)
LEMMA TearLegacyPresents == ASSUME DrmAssumption, TearInv, LegacyPresents PROVE TearInv'
<1>1. /\ Kinds /\ Places /\ OneAwaited /\ OldPairInUse /\ BackClear
      /\ UNCHANGED <<atomic, size, gen, alloc, pending, flipped, mode, target, gaveUp>>
      /\ Back \in Buffers /\ Back # Other /\ Back.gen = gen
  BY BackAndOther DEF TearInv, LegacyPresents
<1>2. ~atomic /\ ~pending /\ pc \in {"legacy", "show"} /\ mode # "closed" /\ Quiet(events)
  BY <1>1 DEF LegacyPresents, Places, OneAwaited
<1>3. CASE SetPlane(Back) /\ Flip /\ pc' = "idle"
  <2>1. scan' = Back /\ queued' = None /\ events' \in Seq(BOOLEAN) /\ Quiet(events')
    BY <1>1, <1>2, <1>3, SetPlaneDoes
  <2>2. back' = 1 - back /\ Back' = Other
    BY <1>1, <1>3 DEF Flip, Back, Other
  <2>3. Kinds' /\ Places'
    BY <1>1, <1>2, <1>3, <2>1, <2>2 DEF Kinds, Places
  <2>4. OneAwaited' /\ OldPairInUse'
    BY <1>1, <1>2, <1>3, <2>1, QuietIsSingle DEF OneAwaited, OldPairInUse
  <2>5. BackClear'
    BY <1>1, <1>3, <2>1, <2>2 DEF BackClear, Clear
  <2> QED
    BY <2>3, <2>4, <2>5 DEF TearInv
<1>4. CASE UNCHANGED <<device, back>> /\ pc' = IF mode = "ui" THEN "idle" ELSE "leave"
  <2>1. UNCHANGED <<atomic, source, pending, device, gaveUp>>
    BY <1>1, <1>4 DEF source
  <2>2. Places'
    BY <1>1, <1>2, <1>4 DEF Places, device
  <2>3. mode' = mode /\ <<pc, pc'>> \in {<<"legacy", "idle">>, <<"show", "idle">>, <<"show", "leave">>}
    BY <1>1, <1>2, <1>4 DEF Places
  <2> QED
    BY <1>1, <1>2, <2>1, <2>2, <2>3, TearMove
<1> QED
  BY <1>3, <1>4 DEF LegacyPresents


LEMMA TearFrameCommitted == ASSUME DrmAssumption, TearInv, FrameCommitted PROVE TearInv'
<1>1. /\ Kinds /\ Places /\ OneAwaited /\ OldPairInUse /\ BackClear
      /\ Back \in Buffers /\ Back # Other /\ Back.gen = gen
      /\ UNCHANGED <<atomic, size, gen, flipped, mode, target, gaveUp>>
      /\ mode = "video" /\ pc = "show" /\ atomic
  BY BackAndOther DEF TearInv, FrameCommitted
<1>2. CASE Committed(Back) /\ Flip /\ pc' = "wait"
  <2>1. /\ queued' \in Commit /\ queued' # None /\ queued'.fb = Back /\ queued'.live
        /\ events' \in Seq(BOOLEAN) /\ Quiet(events') /\ pending' = TRUE
        /\ scan' = (IF queued = None THEN scan ELSE queued.fb)
        /\ scan' \in Buffers \cup {None}
    BY <1>1, <1>2, CommittedDoes
  <2>2. /\ back' = 1 - back /\ back' \in {0, 1}
        /\ Other' = Back
    BY <1>1, <1>2 DEF Flip, Back, Other, Kinds
  <2>3. Kinds' /\ Places'
    BY <1>1, <1>2, <2>1, <2>2 DEF Kinds, Places
  <2>4. OneAwaited'
    BY <1>1, <1>2, <2>1, <2>2, QuietIsSingle DEF OneAwaited, Awaited
  <2>5. OldPairInUse'
    BY <1>1, <1>2, <2>1 DEF OldPairInUse
  <2>6. BackClear'
    BY <1>1, <1>2, <2>1 DEF BackClear, Places
  <2> QED
    BY <2>3, <2>4, <2>5, <2>6 DEF TearInv
<1>3. CASE Refused /\ UNCHANGED back /\ pc' = "leave"
  <2>1. Places'
    BY <1>1, <1>3 DEF Places, Refused
  <2> QED
    BY <1>1, <1>3, <2>1, TearRefused DEF Kinds
<1> QED
  BY <1>2, <1>3 DEF FrameCommitted

LEMMA TearHeld == ASSUME DrmAssumption, TearInv, Held PROVE TearInv'
<1>1. /\ Kinds /\ Places /\ OneAwaited /\ OldPairInUse /\ BackClear
      /\ Other \in Buffers /\ Back # Other /\ Other.gen = gen
      /\ UNCHANGED <<atomic, size, gen, back, flipped, mode, target, gaveUp>>
      /\ Back' = Back /\ Other' = Other
      /\ mode = "video" /\ pc = "idle" /\ atomic
  BY BackAndOther DEF TearInv, Held, source, Back, Other
<1>2. CASE Committed([Back EXCEPT !.i = 1 - back]) /\ pc' = "wait"
  <2>1. Committed(Other)
    BY <1>2 DEF Back, Other
  <2>2. /\ queued' \in Commit /\ queued' # None /\ queued'.fb = Other /\ queued'.live
        /\ events' \in Seq(BOOLEAN) /\ Quiet(events') /\ pending' = TRUE
        /\ scan' = (IF queued = None THEN scan ELSE queued.fb)
        /\ scan' \in Buffers \cup {None}
    BY <1>1, <2>1, CommittedDoes
  <2>3. Kinds' /\ Places'
    BY <1>1, <1>2, <2>2 DEF Kinds, Places
  <2>4. OneAwaited'
    BY <1>1, <1>2, <2>2, QuietIsSingle DEF OneAwaited, Awaited
  <2>5. OldPairInUse'
    BY <1>1, <1>2, <2>2 DEF OldPairInUse
  <2>6. Clear => Clear'
    BY <1>1, <2>2 DEF Clear
  <2>7. BackClear'
    BY <1>1, <1>2, <2>6 DEF BackClear
  <2> QED
    BY <2>3, <2>4, <2>5, <2>7 DEF TearInv
<1>3. CASE Refused /\ UNCHANGED pc
  <2>1. Places'
    BY <1>1, <1>3 DEF Places, Refused
  <2> QED
    BY <1>1, <1>3, <2>1, TearRefused DEF Kinds
<1> QED
  BY <1>2, <1>3 DEF Held

-----------------------------------------------------------------------------
(* The switch to another size keeps it.                                     *)
LEMMA TearNewPair == ASSUME DrmAssumption, TearInv, NewPair PROVE TearInv'
<1>1. /\ Kinds /\ Places /\ OneAwaited /\ OldPairInUse
      /\ UNCHANGED <<atomic, pending, scan, queued, events, mode, target, gaveUp>>
      /\ gen' = 1 - gen /\ back' = 0 /\ size' = target
      /\ pc = "alloc" /\ pc' = "first" /\ ~pending
  BY DEF TearInv, NewPair, device, OneAwaited
<1>2. Kinds' /\ Places'
  BY <1>1 DEF Kinds, Places
<1>3. gen' # gen
  BY <1>1 DEF Kinds
<1>4. OneAwaited' /\ OldPairInUse'
  BY <1>1, <1>3 DEF OneAwaited, OldPairInUse
<1>5. Back' \in Buffers /\ Back'.gen = gen'
  BY <1>1, <1>2 DEF Kinds, Back, Buffers
<1>6. scan # Back' /\ (queued # None => queued.fb # Back')
  BY <1>1, <1>3, <1>5 DEF OldPairInUse, DrmAssumption, Buffers
<1>7. BackClear'
  BY <1>1, <1>6 DEF BackClear, Clear
<1> QED
  BY <1>2, <1>4, <1>7 DEF TearInv

LEMMA TearFirst ==
    ASSUME DrmAssumption, TearInv, FirstCommitted \/ FirstSetPlane
    PROVE  TearInv'
<1>1. /\ Kinds /\ Places /\ OneAwaited /\ OldPairInUse
      /\ Back \in Buffers /\ Other \in Buffers /\ Back # Other
      /\ Back.gen = gen /\ Other.gen = gen
      /\ UNCHANGED <<atomic, size, gen, flipped, mode, target, gaveUp>>
      /\ pc = "first" /\ ~pending /\ Quiet(events) /\ mode # "closed"
  BY BackAndOther DEF TearInv, FirstCommitted, FirstSetPlane, OneAwaited, Places
<1>2. ASSUME NEW b \in Buffers, b.gen = gen
      PROVE  scan # b /\ (queued # None => queued.fb # b)
  BY <1>1, <1>2 DEF OldPairInUse, DrmAssumption, Buffers
<1>3. CASE atomic /\ Committed(Back) /\ Flip /\ pc' = "firstwait"
  <2>1. /\ queued' \in Commit /\ queued' # None /\ queued'.fb = Back /\ queued'.live
        /\ events' \in Seq(BOOLEAN) /\ Quiet(events') /\ pending' = TRUE
        /\ scan' = (IF queued = None THEN scan ELSE queued.fb)
        /\ scan' \in Buffers \cup {None}
    BY <1>1, <1>3, CommittedDoes
  <2>2. /\ back' = 1 - back /\ back' \in {0, 1} /\ Other' = Back /\ Back' = Other
    BY <1>1, <1>3 DEF Flip, Back, Other, Kinds
  <2>3. Kinds' /\ Places'
    BY <1>1, <1>3, <2>1, <2>2 DEF Kinds, Places
  <2>4. OneAwaited'
    BY <1>1, <1>3, <2>1, <2>2, QuietIsSingle DEF OneAwaited, Awaited
  <2>5. Clear'
    BY <1>1, <1>2, <2>1, <2>2 DEF Clear
  <2>6. OldPairInUse' /\ BackClear'
    BY <1>3, <2>5 DEF OldPairInUse, BackClear
  <2> QED
    BY <2>3, <2>4, <2>6 DEF TearInv
<1>4. CASE Refused /\ UNCHANGED back /\ pc' = "freefailed"
  <2>1. Places'
    BY <1>1, <1>4 DEF Places, Refused
  <2> QED
    BY <1>1, <1>4, <2>1, TearRefused DEF Kinds
<1>5. CASE ~atomic /\ SetPlane(Back) /\ Flip /\ pc' = "free" /\ UNCHANGED pending
  <2>1. scan' = Back /\ queued' = None /\ events' \in Seq(BOOLEAN) /\ Quiet(events')
    BY <1>1, <1>5, SetPlaneDoes
  <2>2. back' = 1 - back /\ back' \in {0, 1} /\ Back' = Other
    BY <1>1, <1>5 DEF Flip, Back, Other, Kinds
  <2>3. Kinds' /\ Places'
    BY <1>1, <1>5, <2>1, <2>2 DEF Kinds, Places
  <2>4. OneAwaited'
    BY <1>1, <1>5, <2>1, QuietIsSingle DEF OneAwaited
  <2>5. Clear'
    BY <1>1, <2>1, <2>2 DEF Clear
  <2>6. OldPairInUse' /\ BackClear'
    BY <1>5, <2>5 DEF OldPairInUse, BackClear
  <2> QED
    BY <2>3, <2>4, <2>6 DEF TearInv
<1>6. CASE UNCHANGED <<device, back>> /\ pc' = "freefailed" /\ UNCHANGED pending
  <2>1. Back' = Back /\ UNCHANGED <<scan, queued, events, back>>
    BY <1>1, <1>6 DEF Back, device
  <2>2. Clear'
    BY <1>1, <1>2, <2>1 DEF Clear
  <2>3. Kinds' /\ Places' /\ OneAwaited'
    BY <1>1, <1>6, <2>1 DEF Kinds, Places, OneAwaited
  <2>4. OldPairInUse' /\ BackClear'
    BY <1>6, <2>2 DEF OldPairInUse, BackClear
  <2> QED
    BY <2>3, <2>4 DEF TearInv
<1> QED
  BY <1>3, <1>4, <1>5, <1>6 DEF FirstCommitted, FirstSetPlane

LEMMA TearFreeOld == ASSUME DrmAssumption, TearInv, FreeOld PROVE TearInv'
<1> DEFINE old == Pair(1 - gen)
           replaced == queued # None /\ queued.fb \notin old
<1>1. /\ Kinds /\ Places /\ OneAwaited /\ OldPairInUse
      /\ UNCHANGED <<atomic, size, gen, back, pending, events, mode, target, gaveUp>>
      /\ Back' = Back /\ Back \in Buffers /\ Back # None
      /\ pc \in {"free", "freefailed"} /\ ~pending
      /\ pc' = (IF mode = "video" THEN "write" ELSE "idle")
      /\ queued' = (IF replaced THEN queued ELSE None)
      /\ scan' = IF scan \in old THEN (IF replaced THEN queued.fb ELSE None) ELSE scan
  BY BackAndOther DEF TearInv, FreeOld, OneAwaited, Back, DrmAssumption, Buffers
<1>2. \A b \in Buffers : b \notin old => b.gen = gen
  BY <1>1 DEF Pair, Buffers, Kinds
<1>3. /\ queued # None => queued.fb \in Buffers
      /\ scan # None => scan \in Buffers
      /\ Clear
  BY <1>1 DEF Kinds, Commit, OldPairInUse
<1> HIDE DEF old
<1>4. Kinds'
  BY <1>1, <1>3 DEF Kinds
<1>5. Places'
  BY <1>1 DEF Places
<1>6. OneAwaited'
  BY <1>1 DEF OneAwaited
<1>7. scan' # None => scan'.gen = gen
  BY <1>1, <1>2, <1>3
<1>8. queued' # None => queued'.fb.gen = gen
  BY <1>1, <1>2, <1>3
<1>9. Clear'
  BY <1>1, <1>3 DEF Clear
<1>10. OldPairInUse' /\ BackClear'
  BY <1>1, <1>7, <1>8, <1>9 DEF OldPairInUse, BackClear
<1> QED
  BY <1>4, <1>5, <1>6, <1>10 DEF TearInv

LEMMA TearClose == ASSUME DrmAssumption, TearInv, Close PROVE TearInv'
<1>1. /\ scan' = None /\ queued' = None /\ events' = <<>> /\ mode' = "closed"
      /\ UNCHANGED <<atomic, size, gen, back, pending, target, pc, gaveUp>>
      /\ pc = "idle" /\ Back' = Back /\ Back \in Buffers /\ Back # None
      /\ Kinds /\ Places /\ OneAwaited
  BY BackAndOther DEF TearInv, Close, Back, DrmAssumption, Buffers
<1>2. events' \in Seq(BOOLEAN) /\ Quiet(events')
  BY <1>1 DEF Quiet
<1>3. Kinds' /\ Places' /\ OldPairInUse'
  BY <1>1, <1>2 DEF Kinds, Places, OldPairInUse
<1>4. OneAwaited'
  BY <1>1, <1>2, QuietIsSingle DEF OneAwaited
<1>5. BackClear'
  BY <1>1 DEF BackClear, Clear
<1> QED
  BY <1>3, <1>4, <1>5 DEF TearInv

LEMMA TearNext == ASSUME DrmAssumption, TearInv, [Next]_vars PROVE TearInv'
<1>1. CASE UNCHANGED vars
  BY <1>1 DEF vars, source, device, TearInv, Kinds, Places, OneAwaited, Awaited,
              OldPairInUse, BackClear, Clear, Back, Other
<1>2. CASE Next
  BY <1>1, <1>2, TearLatch, TearFlipEvent, TearFlipTimesOut, TearWaitDone, TearMoves,
     TearUiPresents, TearLegacyPresents, TearFrameCommitted, TearHeld, TearNewPair,
     TearFirst, TearFreeOld, TearClose
     DEF Next, Closed
<1> QED
  BY <1>1, <1>2

(* The buffer that is filled is neither on screen nor queued for it, over   *)
(* stale events, refused commits, waits that gave up, legacy fallbacks,     *)
(* held pictures, changes of size and streams left with a flip in flight.   *)
THEOREM NeverTears == ASSUME DrmAssumption PROVE Spec => []NoTear
<1>1. Init => TearInv
  BY TearInit
<1>2. TearInv /\ [Next]_vars => TearInv'
  BY TearNext
<1>3. TearInv => NoTear
  BY DEF TearInv, BackClear, NoTear, Clear
<1> QED
  BY <1>1, <1>2, <1>3, PTL DEF Spec

-----------------------------------------------------------------------------
(* The action properties.                                                   *)

(* A switch that has waited leaves the plane a picture of the new pair:     *)
(* queued, or on screen with nothing queued behind it.                      *)
Replacing ==
    pc \in {"firstwait", "free"} =>
        IF queued = None THEN scan # None /\ scan.gen = gen ELSE queued.fb.gen = gen

LEMMA ReplacingInit == Init => Replacing
  BY DEF Init, Replacing

LEMMA ReplacingNext == ASSUME DrmAssumption, TearInv, Replacing, [Next]_vars PROVE Replacing'
<1>1. Kinds /\ None \notin Buffers /\ Back \in Buffers /\ Back.gen = gen
  BY BackAndOther DEF TearInv, DrmAssumption, Buffers
<1>2. CASE Latch
  BY <1>1, <1>2 DEF Latch, source, Kinds, Commit, Replacing
<1>3. CASE FlipEvent \/ WaitDone \/ UNCHANGED vars
  <2>1. UNCHANGED <<gen, scan, queued>> /\ (pc' \in {"firstwait", "free"} => pc \in {"firstwait", "free"})
    BY <1>3 DEF FlipEvent, WaitDone, vars, source, device
  <2> QED
    BY <2>1 DEF Replacing
<1>4. CASE FlipTimesOut
  <2>1. UNCHANGED <<gen, scan>> /\ (pc' \in {"firstwait", "free"} => pc \in {"firstwait", "free"})
    BY <1>4 DEF FlipTimesOut, source
  <2>2. /\ queued = None => queued' = None
        /\ queued # None => queued'.fb = queued.fb /\ queued'.fb \in Buffers
                            /\ queued' \in Commit
    BY <1>1, <1>4 DEF FlipTimesOut, Kinds, Commit
  <2>3. queued # None => queued' # None
    BY <2>2 DEF DrmAssumption, Commit, Buffers
  <2> QED
    BY <2>1, <2>2, <2>3 DEF Replacing
<1>5. CASE FirstCommitted
  <2>1. CASE Committed(Back)
    BY <1>1, <1>5, <2>1, CommittedDoes DEF FirstCommitted, Replacing
  <2>2. CASE Refused /\ pc' = "freefailed"
    BY <2>2 DEF Replacing
  <2> QED
    BY <1>5, <2>1, <2>2 DEF FirstCommitted
<1>6. CASE FirstSetPlane
  BY <1>1, <1>6 DEF FirstSetPlane, SetPlane, Replacing
<1>7. CASE \/ UiDraws \/ Written \/ UiPresents \/ LegacyPresents
           \/ StreamShows \/ FramePicked \/ FrameCommitted \/ Held \/ StreamEnds \/ StreamLeft
           \/ NewPairRefused \/ NewPair \/ FreeOld \/ Close
  <2>1. pc' \notin {"firstwait", "free"}
    BY <1>7 DEF UiDraws, Written, UiPresents, LegacyPresents, StreamShows, FramePicked,
         FrameCommitted, Held, StreamEnds, StreamLeft, NewPairRefused, NewPair, FreeOld, Close
  <2> QED
    BY <2>1 DEF Replacing
<1> QED
  BY <1>2, <1>3, <1>4, <1>5, <1>6, <1>7 DEF Next, Closed

LEMMA PlaneStep ==
    ASSUME DrmAssumption, TearInv, Replacing, [Next]_vars, scan # None, scan' = None
    PROVE  pc = "freefailed" \/ mode' = "closed"
<1>1. Kinds /\ None \notin Buffers /\ Back \in Buffers /\ Other \in Buffers /\ Back.gen = gen
  BY BackAndOther DEF TearInv, DrmAssumption, Buffers
<1>2. queued # None => queued.fb \in Buffers /\ queued.fb # None
  BY <1>1 DEF Kinds, Commit
<1>3. ASSUME NEW fb \in Buffers, Committed(fb) \/ SetPlane(fb) PROVE FALSE
  BY <1>1, <1>2, <1>3 DEF Committed, SetPlane
<1>4. CASE FreeOld
  <2>1. CASE pc = "free"
    <3> DEFINE old == Pair(1 - gen)
    <3>1. \A b \in Buffers : b.gen = gen => b \notin old
      BY <1>1 DEF Pair, Kinds
    <3>2. CASE queued = None
      <4>1. scan \notin old
        BY <1>1, <2>1, <3>1, <3>2 DEF Replacing, Kinds
      <4> QED
        BY <1>4, <4>1 DEF FreeOld
    <3>3. CASE queued # None
      <4>1. queued.fb \notin old
        BY <1>2, <2>1, <3>1, <3>3 DEF Replacing
      <4> QED
        BY <1>2, <1>4, <3>3, <4>1 DEF FreeOld
    <3> QED
      BY <3>2, <3>3
  <2> QED
    BY <1>4, <2>1 DEF FreeOld
<1>5. CASE Close
  BY <1>5 DEF Close
<1>6. CASE Latch
  BY <1>2, <1>6 DEF Latch
<1>7. CASE UiPresents \/ LegacyPresents \/ FrameCommitted \/ FirstCommitted \/ FirstSetPlane
  <2>1. UNCHANGED scan
    BY <1>1, <1>3, <1>7 DEF UiPresents, LegacyPresents, FrameCommitted, FirstCommitted,
         FirstSetPlane, Refused, device
  <2> QED
    BY <2>1
<1>8. CASE Held
  <2>1. [Back EXCEPT !.i = 1 - back] = Other
    BY DEF Back, Other
  <2>2. UNCHANGED scan
    BY <1>1, <1>3, <1>8, <2>1 DEF Held, Refused
  <2> QED
    BY <2>2
<1>9. UNCHANGED scan => FALSE
  OBVIOUS
<1> QED
  BY <1>4, <1>5, <1>6, <1>7, <1>8, <1>9 DEF Next, vars, device, FlipEvent, FlipTimesOut, WaitDone,
     UiDraws, Written, StreamShows, FramePicked, StreamEnds, StreamLeft, NewPairRefused, NewPair,
     Closed

LEMMA HeldStep ==
    ASSUME DrmAssumption, TearInv, [Next]_vars, pc = "idle", pc' = "wait"
    PROVE  queued'.fb = scan' \/ scan' = None \/ gaveUp
<1>1. /\ Kinds /\ None \notin Buffers /\ Other \in Buffers
      /\ \A b \in Buffers : b.gen = gen => b \in {Back, Other}
  BY BackAndOther DEF TearInv, DrmAssumption, Buffers
<1>2. Held
  BY DEF Next, vars, Latch, FlipEvent, FlipTimesOut, WaitDone, Waiting, UiDraws, Written, UiPresents,
     LegacyPresents, StreamShows, FramePicked, FrameCommitted, StreamEnds, StreamLeft,
     NewPairRefused, NewPair, FirstCommitted, FirstSetPlane, FreeOld, Close, Closed
<1>3. Committed(Other)
  BY <1>2 DEF Held, Back, Other
<1>4. queued'.fb = Other /\ scan' = IF queued = None THEN scan ELSE queued.fb
  BY <1>1, <1>3, CommittedDoes
<1>5. CASE ~gaveUp
  <2>1. Clear
    BY <1>5 DEF TearInv, BackClear
  <2>2. /\ scan # None => scan \in Buffers /\ scan.gen = gen
        /\ queued # None => queued.fb \in Buffers /\ queued.fb.gen = gen
    BY <1>1 DEF TearInv, OldPairInUse, Kinds, Commit
  <2> QED
    BY <1>1, <1>4, <2>1, <2>2 DEF Clear
<1> QED
  BY <1>5, <1>1 DEF Kinds

(* The plane is never left empty but by a switch whose first commit was     *)
(* refused, or by the end (drm_out_set_source()).                           *)
THEOREM PlaneIsKept == ASSUME DrmAssumption PROVE Spec => PlaneKept
<1>1. Init => TearInv /\ Replacing
  BY TearInit, ReplacingInit
<1>2. TearInv /\ Replacing /\ [Next]_vars => TearInv' /\ Replacing'
  BY TearNext, ReplacingNext
<1>3. TearInv /\ Replacing /\ [Next]_vars =>
        [scan # None /\ scan' = None => pc = "freefailed" \/ mode' = "closed"]_vars
  BY PlaneStep
<1> QED
  BY <1>1, <1>2, <1>3, PTL DEF Spec, PlaneKept

(* A refresh without a frame commits the picture that is on screen, unless  *)
(* a wait gave up since the last flip (drm_out_recommit()).                 *)
THEOREM HeldRepeatsShown == ASSUME DrmAssumption PROVE Spec => HeldRepeats
<1>1. Init => TearInv
  BY TearInit
<1>2. TearInv /\ [Next]_vars => TearInv'
  BY TearNext
<1>3. TearInv /\ [Next]_vars =>
        [pc = "idle" /\ pc' = "wait" => queued'.fb = scan' \/ scan' = None \/ gaveUp]_vars
  BY HeldStep
<1> QED
  BY <1>1, <1>2, <1>3, PTL DEF Spec, HeldRepeats

-----------------------------------------------------------------------------
(* Types.                                                                   *)

Switching == pc \in {"first", "firstwait", "free", "freefailed"}

(* What TypeOK says beyond TearInv; which framebuffers the kernel has.      *)
Sizes ==
    /\ size \in VideoSizes \cup {UiSize} /\ target \in VideoSizes \cup {UiSize}
    /\ flipped \in BOOLEAN /\ Len(events) <= MaxEvents
    /\ pc \in {"idle", "write", "show", "wait", "uiwait", "legacy", "switch", "alloc",
               "first", "firstwait", "free", "freefailed", "leave"}
    /\ alloc = IF mode = "closed" THEN {} ELSE IF Switching THEN Buffers ELSE Pair(gen)

LEMMA EventCounts ==
    ASSUME NEW es \in Seq(BOOLEAN)
    PROVE  /\ Len(es) \in Nat /\ Len(Stale(es)) = Len(es)
           /\ \A b \in BOOLEAN : Len(Append(es, b)) = Len(es) + 1
           /\ es # <<>> => Len(Tail(es)) = Len(es) - 1
<1>1. Len(es) \in Nat /\ DOMAIN es = 1 .. Len(es)
  OBVIOUS
<1>2. Stale(es) \in Seq(BOOLEAN) /\ DOMAIN Stale(es) = 1 .. Len(es)
  BY <1>1, StaleIsQuiet DEF Stale
<1>3. Len(Stale(es)) \in Nat /\ DOMAIN Stale(es) = 1 .. Len(Stale(es))
  BY <1>2
<1>4. Len(Stale(es)) = Len(es)
  BY <1>1, <1>2, <1>3
<1>5. \A b \in BOOLEAN : Len(Append(es, b)) = Len(es) + 1
  OBVIOUS
<1>6. es # <<>> => Len(Tail(es)) = Len(es) - 1
  BY HeadTailProperties
<1> QED
  BY <1>1, <1>4, <1>5, <1>6

LEMMA EventsFit ==
    ASSUME DrmAssumption, Kinds, Len(events) <= MaxEvents, [Next]_vars
    PROVE  Len(events') <= MaxEvents
<1>1. /\ MaxEvents \in Nat /\ Len(events) \in Nat /\ events \in Seq(BOOLEAN)
      /\ queued # None => queued.live \in BOOLEAN
  BY EventCounts DEF DrmAssumption, Kinds, Commit
<1>8. Before \in Seq(BOOLEAN)
  BY <1>1, AppendEvent DEF Before
<1>2. ASSUME NEW fb, Committed(fb) \/ SetPlane(fb) PROVE Len(events') <= MaxEvents
  BY <1>1, <1>2, <1>8, EventCounts DEF Committed, SetPlane
<1>3. CASE Latch
  BY <1>1, <1>3, EventCounts DEF Latch
<1>4. CASE FlipEvent
  <2>1. events' = Tail(events) /\ Len(Tail(events)) = Len(events) - 1
    BY <1>1, <1>4, EventCounts DEF FlipEvent
  <2> QED
    BY <1>1, <2>1
<1>5. CASE Refused
  BY <1>1, <1>5, EventCounts DEF Refused
<1>6. CASE Close
  BY <1>1, <1>6 DEF Close
<1>7. CASE UNCHANGED events
  BY <1>7
<1> QED
  BY <1>2, <1>3, <1>4, <1>5, <1>6, <1>7 DEF Next, vars, device, FlipTimesOut, WaitDone,
     UiDraws, Written, UiPresents, LegacyPresents, StreamShows, FramePicked, FrameCommitted, Held,
     StreamEnds, StreamLeft, NewPairRefused, NewPair, FirstCommitted, FirstSetPlane, FreeOld, Closed

LEMMA SizesInit == ASSUME DrmAssumption, Init PROVE Sizes
<1>1. Len(events) <= MaxEvents
  BY DEF Init, DrmAssumption
<1> QED
  BY <1>1 DEF Init, Sizes, Switching

LEMMA SizesNext == ASSUME DrmAssumption, TearInv, Sizes, [Next]_vars PROVE Sizes'
<1>1. Len(events') <= MaxEvents
  BY EventsFit DEF Sizes, TearInv
<1>2. Places /\ Kinds
  BY DEF TearInv
<1>3. CASE \/ Latch \/ FlipEvent \/ FlipTimesOut \/ WaitDone
           \/ UiDraws \/ Written \/ UiPresents \/ LegacyPresents
           \/ StreamShows \/ FramePicked \/ FrameCommitted \/ Held \/ StreamEnds \/ StreamLeft
           \/ NewPairRefused \/ UNCHANGED vars
  <2>1. /\ size' = size /\ target' \in VideoSizes \cup {UiSize} /\ flipped' \in BOOLEAN
        /\ pc' \in {"idle", "write", "show", "wait", "uiwait", "legacy", "switch", "alloc",
                    "first", "firstwait", "free", "freefailed", "leave"}
    BY <1>2, <1>3 DEF Sizes, Latch, FlipEvent, FlipTimesOut, WaitDone, UiDraws, Written, UiPresents,
       LegacyPresents, StreamShows, FramePicked, FrameCommitted, Held, StreamEnds, StreamLeft,
       NewPairRefused, vars, source
  <2>2. UNCHANGED <<gen, alloc>> /\ (mode' = "closed" <=> mode = "closed")
    BY <1>2, <1>3 DEF Latch, FlipEvent, FlipTimesOut, WaitDone, UiDraws, Written, UiPresents,
       LegacyPresents, StreamShows, FramePicked, FrameCommitted, Held, StreamEnds, StreamLeft,
       NewPairRefused, vars, source, Places
  <2>3. Switching' <=> Switching
    BY <1>2, <1>3 DEF Latch, FlipEvent, FlipTimesOut, WaitDone, UiDraws, Written, UiPresents,
       LegacyPresents, StreamShows, FramePicked, FrameCommitted, Held, StreamEnds, StreamLeft,
       NewPairRefused, vars, Switching, Places
  <2> QED
    BY <1>1, <2>1, <2>2, <2>3 DEF Sizes, Pair
<1>4. CASE NewPair \/ FirstCommitted \/ FirstSetPlane
  <2>1. /\ size' \in VideoSizes \cup {UiSize} /\ target' = target /\ flipped' = flipped
        /\ pc' \in {"first", "firstwait", "free", "freefailed"} /\ mode' = mode /\ mode # "closed"
    BY <1>2, <1>4 DEF NewPair, FirstCommitted, FirstSetPlane, Sizes, Places
  <2>2. alloc' = Buffers
    BY <1>4, <2>1 DEF NewPair, FirstCommitted, FirstSetPlane, Sizes, Switching
  <2> QED
    BY <1>1, <2>1, <2>2 DEF Sizes, Switching
<1>5. CASE FreeOld
  <2>1. /\ UNCHANGED <<size, gen, target, flipped, mode>> /\ mode # "closed"
        /\ pc' \in {"write", "idle"} /\ alloc' = Pair(gen)
    BY <1>2, <1>5 DEF FreeOld, Places
  <2> QED
    BY <1>1, <2>1 DEF Sizes, Switching, Pair
<1>6. CASE Close
  BY <1>1, <1>6 DEF Close, Sizes
<1> QED
  BY <1>3, <1>4, <1>5, <1>6 DEF Next, Closed

LEMMA TypesFollow == ASSUME DrmAssumption, TearInv, Sizes PROVE TypeOK
<1>1. Kinds /\ Places /\ None \notin Buffers
  BY DEF TearInv, DrmAssumption, Buffers
<1>2. scan \in alloc \cup {None} /\ (queued # None => queued.fb \in alloc /\ queued.live \in BOOLEAN)
  <2>1. CASE mode = "closed"
    BY <1>1, <2>1 DEF Places
  <2>2. CASE mode # "closed" /\ Switching
    BY <1>1, <2>2 DEF Kinds, Commit, Sizes
  <2>3. CASE mode # "closed" /\ ~Switching
    BY <1>1, <2>3 DEF Kinds, Commit, Sizes, TearInv, OldPairInUse, Switching, Pair
  <2> QED
    BY <2>1, <2>2, <2>3
<1>3. alloc \subseteq Buffers
  BY DEF Sizes, Pair
<1> QED
  BY <1>1, <1>2, <1>3 DEF TypeOK, Kinds, Places, Sizes

(* Nothing is on screen or queued that the kernel no longer has, and the    *)
(* presenter's way, sizes and events keep their types (drm_output.c).       *)
THEOREM TypeCorrect == ASSUME DrmAssumption PROVE Spec => []TypeOK
<1>1. Init => TearInv /\ Sizes
  BY TearInit, SizesInit
<1>2. TearInv /\ Sizes /\ [Next]_vars => TearInv' /\ Sizes'
  BY TearNext, SizesNext
<1>3. TearInv /\ Sizes => TypeOK
  BY TypesFollow
<1> QED
  BY <1>1, <1>2, <1>3, PTL DEF Spec

=============================================================================
