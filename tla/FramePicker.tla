---------------------------- MODULE FramePicker ----------------------------
(***************************************************************************)
(* VideoPipeline::pick() (src/src/media/video_pipeline.cpp): which decoded *)
(* frame a refresh shows, out of a queue the decode thread fills in bursts *)
(* or not at all.  A refresh is PeriodTicks long, and a queued frame is    *)
(* its age in ticks.                                                       *)
(***************************************************************************)
EXTENDS Integers, Sequences, SequencesExt

CONSTANTS
    Reserve,       \* Config::reserve
    Surplus,       \* frames beyond the reserve that count as a stall: 8
    PeriodTicks,   \* kPeriodMs
    MaxBurst       \* bound on the frames decoded within a refresh

PickerAssumption ==
    /\ Reserve \in Nat /\ Surplus \in Nat \ {0}
    /\ PeriodTicks \in Nat \ {0} /\ MaxBurst \in Nat

VARIABLES
    frames,     \* ages of the decoded frames, the oldest first
    flushing,   \* no more input is coming
    shown,      \* what the last refresh did: picked a frame or held
    dropped,    \* ... and how many it dropped
    lag         \* ... and the age of what it picked

vars == <<frames, flushing, shown, dropped, lag>>

Steady == 1 + IF flushing' THEN 0 ELSE Reserve
Patience == (Reserve + 2) * PeriodTicks
Oldest == (Reserve + Surplus + 4) * PeriodTicks   \* ages are counted up to here

Init ==
    /\ frames = <<>> /\ flushing = FALSE
    /\ shown = FALSE /\ dropped = 0 /\ lag = 0

TypeOK ==
    /\ frames \in Seq(0 .. Oldest) /\ flushing \in BOOLEAN
    /\ shown \in BOOLEAN /\ dropped \in Nat /\ lag \in 0 .. Oldest

(* A refresh later, with what was decoded meanwhile.                         *)
Aged == [i \in DOMAIN frames |-> Min({frames[i] + PeriodTicks, Oldest})]
Bursts == {b \in SeqOf(0 .. PeriodTicks - 1, MaxBurst) :
               \A i, j \in DOMAIN b : i < j => b[i] >= b[j]}

(* Mutant: however many are waiting, one at a time. *)
DropsOneAtATime(q) == IF Len(q) > Steady /\ Head(q) > Patience THEN 1 ELSE 0

(* How many frames pick() drops: all beyond the reserve after a stall, one   *)
(* when the oldest has waited too long.                                      *)
Drops(q) ==
    IF Len(q) >= Steady + Surplus THEN Len(q) - Steady
    ELSE IF Len(q) > Steady /\ Head(q) > Patience THEN 1 ELSE 0

(* pick(). *)
Pick(q) ==
    /\ dropped' = Drops(q)
    /\ LET kept == SubSeq(q, Drops(q) + 1, Len(q))
       IN  IF Len(kept) < Steady
           THEN frames' = kept /\ shown' = FALSE /\ lag' = 0
           ELSE frames' = Tail(kept) /\ shown' = TRUE /\ lag' = Head(kept)

Refresh ==
    /\ flushing' = flushing
    /\ \E b \in Bursts : (flushing => b = <<>>) /\ Pick(Aged \o b)

Flush ==
    /\ ~flushing
    /\ flushing' = TRUE
    /\ UNCHANGED <<frames, shown, dropped, lag>>

Next == Refresh \/ Flush

Spec == Init /\ [][Next]_vars

-----------------------------------------------------------------------------
(* Properties. *)

(* A refresh never drops a frame and then shows none: catching up costs a    *)
(* skip, never a hold on top of it.                                          *)
DropThenShow == dropped > 0 => shown

(* What waits is bounded, so latency is: no more than a stall's worth of     *)
(* frames is left behind by a refresh, however they arrive.                  *)
BacklogBounded == Len(frames) < Reserve + Surplus

(* A frame is shown late only behind a backlog that is being caught up with: *)
(* one older than the slack was preceded by a drop in the same refresh, or   *)
(* nothing was left to drop without running dry.                             *)
LateOnlyBehind == shown /\ lag > Patience => dropped > 0 \/ Len(frames) <= Reserve

(* Catching up with a backlog (VideoPipeline::pick()): a refresh that drops  *)
(* frames shows one, no refresh leaves a stall's worth behind, and a frame   *)
(* is shown late only while there is nothing left to drop.                   *)
CatchUp == DropThenShow /\ BacklogBounded /\ LateOnlyBehind
=============================================================================
