------------------------------ MODULE PadScript ------------------------------
(***************************************************************************)
(* Scripted presses and auto-repeat, as a menu loop sees them              *)
(* (src/src/input/evdev_pad.c): pad_poll() runs the script against the     *)
(* clock, the loop then asks pad_repeat() whether the button ticks.  Each  *)
(* deadline of the code is the time left to it, not below zero.            *)
(***************************************************************************)
EXTENDS Integers, Sequences

CONSTANTS
    Script,       \* the steps: [kind |-> "press" | "wait" | "quit", ms |-> length]
    Gap,          \* PAD_SCRIPT_GAP_MS
    RepeatDelay, RepeatEvery, RepeatFast, RepeatAccel,  \* PAD_REPEAT_*
    Lateness      \* bound: the longest a menu loop is away once the script is due

ScriptAssumption ==
    /\ Script \in Seq([kind : {"press", "wait", "quit"}, ms : Nat \ {0}])
    /\ Lateness \in Nat /\ Gap \in Nat
    /\ {RepeatDelay, RepeatEvery, RepeatFast, RepeatAccel} \subseteq Nat \ {0}
    /\ RepeatFast <= RepeatEvery /\ RepeatEvery <= RepeatDelay

VARIABLES
    pos, done,    \* script_pos, script_done
    waitLeft,     \* script_wait_until
    holdLeft,     \* script_release_at, while down
    late,         \* how long the script has been due
    down,         \* down[b]
    repeating,    \* repeat_at[b] is set
    repeatLeft,   \* repeat_at[b]
    heldFor,      \* since repeat_since[b]
    away,         \* history: how late the loop was for the last press step
    ticks,        \* history: pad_repeat() said yes, since then
    sinceTick     \* history: time since it last did

vars == <<pos, done, waitLeft, holdLeft, late, down, repeating, repeatLeft, heldFor,
          away, ticks, sinceTick>>

Init ==
    /\ pos = 0 /\ done = FALSE /\ waitLeft = 0 /\ holdLeft = 0 /\ late = 0
    /\ down = FALSE /\ repeating = FALSE /\ repeatLeft = 0 /\ heldFor = 0
    /\ away = 0 /\ ticks = 0 /\ sinceTick = RepeatEvery

Less(t) == IF t = 0 THEN 0 ELSE t - 1

(* script_due_in() = 0. *)
Due == ~done /\ ((down /\ holdLeft = 0) \/ (pos < Len(Script) /\ waitLeft = 0))

(* pad_poll() sleeps no further than the next edge; the loop's own work (a   *)
(* request, the wait for a refresh) may make it late, by more than the gap   *)
(* too.                                                                     *)
Tick ==
    /\ ~done
    /\ Due => late < Lateness
    /\ late' = IF Due THEN late + 1 ELSE 0
    /\ waitLeft' = Less(waitLeft) /\ holdLeft' = Less(holdLeft)
    /\ repeatLeft' = Less(repeatLeft)
    /\ heldFor' = IF repeating /\ heldFor <= RepeatAccel THEN heldFor + 1 ELSE heldFor
    /\ sinceTick' = IF sinceTick < RepeatEvery THEN sinceTick + 1 ELSE sinceTick
    /\ UNCHANGED <<pos, done, down, repeating, away, ticks>>

(* script_step(): the hold that is over, then the step that is due.  A loop  *)
(* that was away for the gap finds both at once, and the button down as it   *)
(* left it.                                                                 *)
StillHeld == down /\ holdLeft > 0
Step == IF ~done /\ pos < Len(Script) /\ waitLeft = 0 THEN Script[pos + 1].kind ELSE "none"

WaitAfter(ms) == ms + Gap

ScriptStep ==
    /\ pos' = IF Step = "none" THEN pos ELSE pos + 1
    /\ done' = (done \/ Step = "quit")
    /\ down' = (StillHeld \/ Step = "press")
    /\ holdLeft' = CASE Step = "press" -> Script[pos'].ms
                     [] StillHeld -> holdLeft
                     [] OTHER -> 0
    /\ waitLeft' = CASE Step = "press" -> WaitAfter(Script[pos'].ms)
                     [] Step = "wait" -> Script[pos'].ms
                     [] OTHER -> waitLeft

(* pad_repeat(). *)
RepeatInterval == IF heldFor > RepeatAccel THEN RepeatFast ELSE RepeatEvery

NotHeld ==
    /\ ~down'
    /\ repeating' = FALSE /\ repeatLeft' = 0 /\ heldFor' = 0
    /\ UNCHANGED sinceTick

PressTicks ==
    /\ down' /\ ~repeating
    /\ repeating' = TRUE /\ repeatLeft' = RepeatDelay /\ heldFor' = 0
    /\ sinceTick' = 0

RepeatTicks ==
    /\ down' /\ repeating /\ repeatLeft = 0
    /\ repeatLeft' = RepeatInterval /\ sinceTick' = 0
    /\ UNCHANGED <<repeating, heldFor>>

RepeatWaits ==
    /\ down' /\ repeating /\ repeatLeft > 0
    /\ UNCHANGED <<repeating, repeatLeft, heldFor, sinceTick>>

(* One turn of a menu loop. *)
Turn ==
    /\ ~done
    /\ ScriptStep
    /\ late' = 0 /\ away' = IF Step = "press" THEN late ELSE away
    /\ \/ (NotHeld \/ RepeatWaits) /\ ticks' = IF Step = "press" THEN 0 ELSE ticks
       \/ (PressTicks \/ RepeatTicks) /\ ticks' = IF Step = "press" THEN 1 ELSE ticks + 1

Stopped == done /\ UNCHANGED vars

Next == Tick \/ Turn \/ Stopped

Spec == Init /\ [][Next]_vars

-----------------------------------------------------------------------------
(* Properties. *)

Tapped(n) == n > 0 /\ Script[n].kind = "press" /\ Script[n].ms <= RepeatDelay

(* "two taps of the same button are two edges and not one long hold"        *)
(* (evdev_pad.c:236): a tap is one tick, and the loop has seen it by the     *)
(* time the next step runs, however late that is.  The gap keeps them apart  *)
(* only from a loop that is not away for as long: one that is reads the      *)
(* release and the next press in one poll.                                  *)
TapIsOneTick == [][pos' # pos /\ Tapped(pos) /\ away < Gap => ticks = 1]_vars

(* However late the loop is, held ticks do not come in a burst.             *)
NoBurst == [][(RepeatTicks /\ Turn) => sinceTick >= RepeatFast /\
              (heldFor <= RepeatAccel => sinceTick >= RepeatEvery)]_vars

=============================================================================
