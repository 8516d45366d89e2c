----------------------------- MODULE DrmOutput -----------------------------
(***************************************************************************)
(* The display (src/src/video/drm_output.c) under the presenter's loop     *)
(* (src/src/app/present.cpp, stream.cpp) and the screens that draw with it:*)
(* two framebuffers, one being filled while the other is scanned out,      *)
(* commits that the kernel latches at a vblank and answers with an event,  *)
(* waits that give up, and a change of source size that swaps both.        *)
(*                                                                         *)
(* A commit and its event carry commit_seq; only "it is the one waited     *)
(* for" matters, so a commit is kept with that bit instead of a number.    *)
(***************************************************************************)
EXTENDS Integers, Sequences, FiniteSets

CONSTANTS
    UiSize,        \* the size the screens draw at
    VideoSizes,    \* sizes a stream may send, after any halving on the CPU
    MaxEvents,     \* bound on the events the kernel holds for us
    None

DrmAssumption ==
    /\ UiSize \notin VideoSizes /\ MaxEvents \in Nat \ {0}
    /\ None \notin [gen : {0, 1}, i : {0, 1}]
    /\ None \notin [fb : [gen : {0, 1}, i : {0, 1}], live : BOOLEAN]

Buffers == [gen : {0, 1}, i : {0, 1}]
Pair(g) == {b \in Buffers : b.gen = g}

VARIABLES
    atomic,     \* o->atomic
    size,       \* o->src_w, o->src_h
    gen, back,  \* which pair bufs[] holds, o->back
    alloc,      \* framebuffers the kernel has
    pending,    \* o->flip_pending
    flipped,    \* o->flips > 0
    scan,       \* framebuffer the plane shows, or None
    queued,     \* commit the kernel has not latched: None or [fb, live]
    events,     \* flip events not read: are they the one waited for?
    mode,       \* "ui", "video" or "closed"
    target,     \* size being switched to
    pc,
    gaveUp      \* history: a wait timed out and no own flip came since

device == <<scan, queued, events>>
source == <<size, gen, back, alloc>>
vars == <<atomic, source, pending, flipped, device, mode, target, pc, gaveUp>>

Back == [gen |-> gen, i |-> back]

(* drm_out_open(), drm_out_configure(). *)
Init ==
    /\ atomic \in BOOLEAN /\ size = UiSize
    /\ gen = 0 /\ back = 0 /\ alloc = Pair(0)
    /\ pending = FALSE /\ flipped = FALSE
    /\ scan = None /\ queued = None /\ events = <<>>
    /\ mode = "ui" /\ target = UiSize /\ pc = "idle" /\ gaveUp = FALSE

TypeOK ==
    /\ atomic \in BOOLEAN /\ size \in VideoSizes \cup {UiSize}
    /\ gen \in {0, 1} /\ back \in {0, 1} /\ alloc \subseteq Buffers
    /\ pending \in BOOLEAN /\ flipped \in BOOLEAN
    /\ scan \in alloc \cup {None}
    /\ queued # None => queued.fb \in alloc /\ queued.live \in BOOLEAN
    /\ events \in Seq(BOOLEAN) /\ Len(events) <= MaxEvents
    /\ mode \in {"ui", "video", "closed"} /\ target \in VideoSizes \cup {UiSize}
    /\ pc \in {"idle", "write", "show", "wait", "uiwait", "legacy", "switch", "alloc",
               "first", "firstwait", "free", "freefailed", "leave"}
    /\ gaveUp \in BOOLEAN

-----------------------------------------------------------------------------
(* The kernel. *)

Stale(es) == [i \in DOMAIN es |-> FALSE]

(* A vblank: the queued commit is on the screen, its event is ours to read. *)
Latch ==
    /\ queued # None /\ Len(events) < MaxEvents
    /\ scan' = queued.fb /\ queued' = None
    /\ events' = Append(events, queued.live)
    /\ UNCHANGED <<atomic, source, pending, flipped, mode, target, pc, gaveUp>>

(* A commit behind one not latched yet blocks until that is.                *)
Before == IF queued = None THEN events ELSE Append(events, FALSE)

(* atomic_commit(): the sequence moves on whether or not the driver takes   *)
(* it, so what was out before is stale.                                     *)
Committed(fb) ==
    /\ Len(Before) <= MaxEvents
    /\ pending' = TRUE
    /\ scan' = (IF queued = None THEN scan ELSE queued.fb)
    /\ events' = Stale(Before)
    /\ queued' = [fb |-> fb, live |-> TRUE]

Refused ==
    /\ pending' = FALSE
    /\ events' = Stale(events)
    /\ queued' = (IF queued = None THEN None ELSE [queued EXCEPT !.live = FALSE])
    /\ UNCHANGED scan

(* legacy_present(): SetPlane and a vblank, both waited for.                *)
SetPlane(fb) ==
    /\ Len(Before) <= MaxEvents
    /\ scan' = fb /\ queued' = None /\ events' = Before

-----------------------------------------------------------------------------
(* wait_for_flip() *)

Waiting == pc \in {"wait", "uiwait", "switch", "firstwait"}

(* Mutant: any flip event ends the wait. *)
AnyFlipEvent ==
    /\ Waiting /\ pending /\ events # <<>>
    /\ events' = Tail(events)
    /\ pending' = FALSE /\ flipped' = TRUE /\ gaveUp' = FALSE
    /\ UNCHANGED <<atomic, source, scan, queued, mode, target, pc>>

(* page_flip_handler(). *)
FlipEvent ==
    /\ Waiting /\ pending /\ events # <<>>
    /\ events' = Tail(events)
    /\ IF Head(events)
       THEN pending' = FALSE /\ flipped' = TRUE /\ gaveUp' = FALSE
       ELSE UNCHANGED <<pending, flipped, gaveUp>>
    /\ UNCHANGED <<atomic, source, scan, queued, mode, target, pc>>

(* The wait gives up, and the event it waited for becomes stale.  A flip    *)
(* that does not come fails drm_out_present(), which turns to SetPlane.     *)
FlipTimesOut ==
    /\ Waiting /\ pending /\ \A i \in DOMAIN events : ~events[i]
    /\ pending' = FALSE /\ gaveUp' = TRUE
    /\ queued' = (IF queued = None THEN None ELSE [queued EXCEPT !.live = FALSE])
    /\ IF pc = "uiwait" THEN atomic' = FALSE /\ pc' = "legacy" ELSE UNCHANGED <<atomic, pc>>
    /\ UNCHANGED <<source, flipped, scan, events, mode, target>>

Flip == back' = 1 - back

WaitDone ==
    /\ Waiting /\ ~pending
    /\ \/ pc = "wait" /\ pc' = "idle" /\ UNCHANGED back
       \/ pc = "uiwait" /\ pc' = "idle" /\ Flip
       \/ pc = "switch" /\ pc' = "alloc" /\ UNCHANGED back
       \/ pc = "firstwait" /\ pc' = "free" /\ UNCHANGED back
    /\ UNCHANGED <<atomic, size, gen, alloc, pending, flipped, device, mode, target, gaveUp>>

-----------------------------------------------------------------------------
(* The screens: fill the back buffer, present it and wait. *)

UiDraws ==
    /\ mode = "ui" /\ pc = "idle"
    /\ pc' = "write"
    /\ UNCHANGED <<atomic, source, pending, flipped, device, mode, target, gaveUp>>

Written ==
    /\ pc = "write"
    /\ pc' = "show"
    /\ UNCHANGED <<atomic, source, pending, flipped, device, mode, target, gaveUp>>

(* drm_out_present() on the atomic path. *)
UiPresents ==
    /\ mode = "ui" /\ pc = "show" /\ atomic
    /\ \/ Committed(Back) /\ pc' = "uiwait" /\ UNCHANGED atomic
       \/ Refused /\ pc' = "legacy" /\ atomic' = FALSE
    /\ UNCHANGED <<source, flipped, mode, target, gaveUp>>

(* ... and on the legacy one; a refused SetPlane shows nothing new.          *)
LegacyPresents ==
    /\ pc = "legacy" \/ (pc = "show" /\ ~atomic)
    /\ \/ SetPlane(Back) /\ Flip /\ pc' = "idle"
       \/ UNCHANGED <<device, back>> /\ pc' = IF mode = "ui" THEN "idle" ELSE "leave"
    /\ UNCHANGED <<atomic, size, gen, alloc, pending, flipped, mode, target, gaveUp>>

-----------------------------------------------------------------------------
(* One refresh of a stream: present_tick() and wait_refresh(). *)

StreamShows ==
    /\ mode = "ui" /\ pc = "idle"
    /\ mode' = "video"
    /\ UNCHANGED <<atomic, source, pending, flipped, device, target, pc, gaveUp>>

(* prepare_frame(): a frame of another size changes the source first.        *)
FramePicked ==
    /\ mode = "video" /\ pc = "idle"
    /\ target' \in VideoSizes
    /\ pc' = IF target' = size THEN "write" ELSE "switch"
    /\ UNCHANGED <<atomic, source, pending, flipped, device, mode, gaveUp>>

(* drm_out_commit(). *)
FrameCommitted ==
    /\ mode = "video" /\ pc = "show" /\ atomic
    /\ \/ Committed(Back) /\ Flip /\ pc' = "wait"
       \/ Refused /\ UNCHANGED back /\ pc' = "leave"
    /\ UNCHANGED <<atomic, size, gen, alloc, flipped, mode, target, gaveUp>>

(* Mutant: a held picture commits the buffer to be filled next. *)
HeldShowsBack ==
    /\ mode = "video" /\ pc = "idle"
    /\ atomic /\ flipped
    /\ Committed(Back) /\ pc' = "wait"
    /\ UNCHANGED <<atomic, source, flipped, mode, target, gaveUp>>

(* drm_out_recommit(): no frame, so the one on screen again; without one, or *)
(* when it is refused, the refresh is waited out on the clock.               *)
Held ==
    /\ mode = "video" /\ pc = "idle"
    /\ atomic /\ flipped
    /\ \/ Committed([Back EXCEPT !.i = 1 - back]) /\ pc' = "wait"
       \/ Refused /\ UNCHANGED pc
    /\ UNCHANGED <<atomic, source, flipped, mode, target, gaveUp>>

(* The player quits, perhaps with a flip in flight, or the stream ends.      *)
StreamEnds ==
    /\ mode = "video" /\ pc \in {"idle", "wait"}
    /\ pc' = "leave"
    /\ UNCHANGED <<atomic, source, pending, flipped, device, mode, target, gaveUp>>

StreamLeft ==
    /\ pc = "leave"
    /\ mode' = "ui" /\ target' = UiSize
    /\ pc' = IF size = UiSize THEN "idle" ELSE "switch"
    /\ UNCHANGED <<atomic, source, pending, flipped, device, gaveUp>>

-----------------------------------------------------------------------------
(* drm_out_set_source() *)

(* No memory for the new pair: the old one stays, and a stream gives up.     *)
NewPairRefused ==
    /\ pc = "alloc"
    /\ pc' = IF mode = "video" THEN "leave" ELSE "idle"
    /\ UNCHANGED <<atomic, source, pending, flipped, device, mode, target, gaveUp>>

NewPair ==
    /\ pc = "alloc"
    /\ gen' = 1 - gen /\ alloc' = Buffers
    /\ size' = target /\ back' = 0
    /\ pc' = "first"
    /\ UNCHANGED <<atomic, pending, flipped, device, mode, target, gaveUp>>

(* A black buffer of the new size goes up, by whichever path there is.       *)
FirstCommitted ==
    /\ pc = "first" /\ atomic
    /\ \/ Committed(Back) /\ Flip /\ pc' = "firstwait"
       \/ Refused /\ UNCHANGED back /\ pc' = "freefailed"
    /\ UNCHANGED <<atomic, size, gen, alloc, flipped, mode, target, gaveUp>>

FirstSetPlane ==
    /\ pc = "first" /\ ~atomic
    /\ \/ SetPlane(Back) /\ Flip /\ pc' = "free"
       \/ UNCHANGED <<device, back>> /\ pc' = "freefailed"
    /\ UNCHANGED <<atomic, size, gen, alloc, pending, flipped, mode, target, gaveUp>>

(* The kernel keeps a framebuffer that a queued flip is replacing; one that  *)
(* nothing replaces leaves the plane with nothing to show.                   *)
FreeOld ==
    /\ pc \in {"free", "freefailed"}
    /\ LET old == Pair(1 - gen)
           replaced == queued # None /\ queued.fb \notin old
       IN  /\ alloc' = Pair(gen)
           /\ queued' = (IF replaced THEN queued ELSE None)
           /\ scan' = IF scan \in old THEN (IF replaced THEN queued.fb ELSE None) ELSE scan
    /\ pc' = IF mode = "video" THEN "write" ELSE "idle"
    /\ UNCHANGED <<atomic, size, gen, back, pending, flipped, events, mode, target, gaveUp>>

(* drm_out_close(). *)
Close ==
    /\ mode = "ui" /\ pc = "idle"
    /\ mode' = "closed" /\ scan' = None /\ alloc' = {} /\ queued' = None /\ events' = <<>>
    /\ UNCHANGED <<atomic, size, gen, back, pending, flipped, target, pc, gaveUp>>

Closed == mode = "closed" /\ UNCHANGED vars

Next ==
    \/ Latch \/ FlipEvent \/ FlipTimesOut \/ WaitDone
    \/ UiDraws \/ Written \/ UiPresents \/ LegacyPresents
    \/ StreamShows \/ FramePicked \/ FrameCommitted \/ Held \/ StreamEnds \/ StreamLeft
    \/ NewPairRefused \/ NewPair \/ FirstCommitted \/ FirstSetPlane \/ FreeOld
    \/ Close \/ Closed

Spec == Init /\ [][Next]_vars

-----------------------------------------------------------------------------
(* Properties. *)

(* "or the presenter would write a buffer that is still queued"              *)
(* (drm_output.c:594-596): the buffer being filled is neither on screen nor  *)
(* on its way there, once a wait that gave up is followed by a flip of our   *)
(* own.                                                                      *)
NoTear == pc = "write" /\ ~gaveUp => Back # scan /\ (queued = None \/ queued.fb # Back)

(* "The plane goes straight from one framebuffer to another and is never     *)
(* left empty" (drm_output.c:520-521), unless the first commit at the new size   *)
(* was refused.                                                              *)
PlaneKept ==
    [][scan # None /\ scan' = None => pc = "freefailed" \/ mode' = "closed"]_vars

(* A refresh without a frame repeats the picture on screen, never the one    *)
(* before it (drm_out_recommit()).                                           *)
HeldRepeats ==
    [][pc = "idle" /\ pc' = "wait" => queued'.fb = scan' \/ scan' = None \/ gaveUp]_vars
=============================================================================
