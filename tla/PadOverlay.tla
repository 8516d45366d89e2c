----------------------------- MODULE PadOverlay -----------------------------
(***************************************************************************)
(* The pad and who reads it: src/src/input/evdev_pad.c, the loops of       *)
(* run_session() (src/src/app/stream.cpp) and the options overlay          *)
(* (src/src/app/options.cpp).                                              *)
(*                                                                         *)
(* Between two polls the player presses and releases buttons and the       *)
(* kernel queues the events, of which it drops the older ones when nobody  *)
(* polls for long; pad_poll() drains the queue and maps codes to Xbox      *)
(* functions through the layout of the moment.  A press sets a latch that  *)
(* pad_take_press() clears.  One thread owns the pad at a time: the menus' *)
(* or, while video is up, the input thread, which runs the overlay.        *)
(* Nobody else reads the queue, so a step is a poll and what its owner     *)
(* makes of it, under any queue that has built up.                         *)
(***************************************************************************)
EXTENDS Integers, Sequences, FiniteSets, Functions

CONSTANTS
    Codes,       \* the physical buttons the player uses
    LiveRows,    \* the overlay's rows: options that act on a running stream
    ChoiceCount, \* how many choices each of them has
    QueueCap,    \* bound: events between two polls
    MaxHeld,     \* bound: buttons held at once
    MaxAstray    \* bound: functions that differ from their buttons after a drop

Face == {"BTN_SOUTH", "BTN_EAST", "BTN_NORTH", "BTN_WEST"}
Plain == [BTN_SELECT |-> "Select", BTN_DPAD_UP |-> "Up", BTN_DPAD_DOWN |-> "Down",
          BTN_DPAD_LEFT |-> "Left", BTN_DPAD_RIGHT |-> "Right"]

PadAssumption ==
    /\ Codes \subseteq Face \cup DOMAIN Plain
    /\ LiveRows \in Seq(STRING) \ {<<>>}
    /\ \A i \in 1 .. Len(LiveRows) : ChoiceCount[LiveRows[i]] \in Nat \ {0}
    /\ \E i \in 1 .. Len(LiveRows) : LiveRows[i] = "layout"
    /\ QueueCap \in Nat \ {0} /\ MaxHeld \in Nat \ {0} /\ MaxAstray \in Nat

Rows == Range(LiveRows)
Choices(r) == 0 .. ChoiceCount[r] - 1
Values == {v \in [Rows -> UNION {Choices(r) : r \in Rows}] : \A r \in Rows : v[r] \in Choices(r)}
Functions == {"A", "B", "X", "Y", "Select", "Up", "Down", "Left", "Right"}
Latched == {"A", "B", "X"}  \* the latches these loops read
Repeating == {"Up", "Down", "Left", "Right"}

VARIABLES
    held,        \* the buttons the player holds, as of the last poll
    map,         \* the pad's layout and swap_xy
    down,        \* functions whose down[] is set
    pressed,     \* functions whose pressed[] is set
    repeated,    \* functions whose repeat_at[] is set
    screen,      \* who owns the pad: "menus" or "video"
    open, cursor, edit, val,   \* g_open, g_cursor, g_edit, g_val
    stuck,       \* history: functions left down without their button
    stale,       \* history: presses latched before the overlay opened
    byStale      \* history: one of those changed a setting in this step

overlayVars == <<open, cursor, edit, val>>
vars == <<held, map, down, pressed, repeated, screen, overlayVars, stuck, stale, byStale>>

Positional == [BTN_SOUTH |-> "A", BTN_EAST |-> "B", BTN_NORTH |-> "Y", BTN_WEST |-> "X"]
Labels == [BTN_SOUTH |-> "B", BTN_EAST |-> "A", BTN_NORTH |-> "X", BTN_WEST |-> "Y"]

FaceMap(m, code) ==
    LET b == IF m.positional THEN Positional[code] ELSE Labels[code]
    IN  CASE m.swap /\ b = "X" -> "Y"
          [] m.swap /\ b = "Y" -> "X"
          [] OTHER -> b

Function(m, code) == IF code \in Face THEN FaceMap(m, code) ELSE Plain[code]

Chosen(v) == [positional |-> v["layout"] = 1,
              swap |-> "swapxy" \in Rows /\ v["swapxy"] = 1]

Init ==
    /\ held = {}
    /\ val = [r \in Rows |-> 0] /\ edit = val
    /\ map = Chosen(val)
    /\ down = {} /\ pressed = {} /\ repeated = {} /\ stuck = {}
    /\ screen = "menus"
    /\ open = FALSE /\ cursor = 0 /\ stale = {} /\ byStale = FALSE

TypeOK ==
    /\ held \subseteq Codes /\ Cardinality(held) <= MaxHeld
    /\ map \in [positional : BOOLEAN, swap : BOOLEAN]
    /\ down \subseteq Functions /\ pressed \subseteq Latched
    /\ repeated \subseteq Repeating /\ stuck \subseteq down
    /\ screen \in {"menus", "video"}
    /\ open \in BOOLEAN /\ cursor \in 0 .. Len(LiveRows) + 1
    /\ edit \in Values /\ val \in Values
    /\ stale \subseteq pressed /\ byStale \in BOOLEAN

-----------------------------------------------------------------------------
(* pad_poll(): each code in the queue goes down or up; "edges" are the      *)
(* presses among them.  When the kernel's queue was full it has dropped     *)
(* what was in it, and the read loop passes over the SYN_DROPPED that says  *)
(* so: a function whose release was dropped is stuck until another event of *)
(* its own is read.                                                         *)

(* Mutant: a release that comes with a press is not read. *)
EventReadOnce(p, code) ==
    LET b == Function(map, code)
        press == code \notin p.held
        edge == IF press /\ b \notin p.down THEN {b} \cap Latched ELSE {}
    IN  [held |-> IF press THEN p.held \cup {code} ELSE p.held \ {code},
         down |-> IF press THEN p.down \cup {b}
                  ELSE IF p.edges = {} THEN p.down \ {b} ELSE p.down,
         pressed |-> p.pressed \cup edge,
         edges |-> p.edges \cup edge,
         stuck |-> p.stuck \ {b}]

EventRead(p, code) ==
    LET b == Function(map, code)
        press == code \notin p.held
        edge == IF press /\ b \notin p.down THEN {b} \cap Latched ELSE {}
    IN  [held |-> IF press THEN p.held \cup {code} ELSE p.held \ {code},
         down |-> IF press THEN p.down \cup {b} ELSE p.down \ {b},
         pressed |-> p.pressed \cup edge,
         edges |-> p.edges \cup edge,
         stuck |-> p.stuck \ {b}]

EventDropped(p, code) ==
    IF code \in p.held
    THEN [p EXCEPT !.held = @ \ {code}, !.stuck = @ \cup ({Function(map, code)} \cap p.down)]
    ELSE [p EXCEPT !.held = @ \cup {code}]

(* The queue, of which the kernel dropped the first so many events.         *)
Polled(queue, dropped) ==
    LET read[n \in 0 .. Len(queue)] ==
            IF n = 0 THEN [held |-> held, down |-> down, pressed |-> pressed,
                           edges |-> {}, stuck |-> stuck]
            ELSE IF n <= dropped THEN EventDropped(read[n - 1], queue[n])
            ELSE EventRead(read[n - 1], queue[n])
    IN  read[Len(queue)]

Named(s) == {Function(map, c) : c \in s}
Astray(p) == (p.down \ Named(p.held)) \cup (Named(p.held) \ p.down)

Drops(queue) == {d \in 1 .. Len(queue) : Cardinality(Astray(Polled(queue, d))) <= MaxAstray}

Polls == {p \in UNION {{Polled(q, d) : d \in {0} \cup Drops(q)} :
                            q \in UNION {[1 .. n -> Codes] : n \in 0 .. QueueCap}} :
             Cardinality(p.held) <= MaxHeld}

(* A poll, the presses its caller then takes, and whether the overlay is    *)
(* open afterwards.                                                         *)
Poll(p, taken, opened) ==
    /\ held' = p.held /\ down' = p.down /\ pressed' = p.pressed \ taken
    /\ open' = opened
    /\ stale' = IF ~opened THEN {}
                ELSE IF ~open THEN pressed' ELSE (stale \ p.edges) \cap pressed'

Stale(p, b) == b \in stale \ p.edges

KeepPad(p) == map' = map /\ stuck' = p.stuck

(* apply_pad(): what is down now will be released under the new layout. *)
ApplyPad(p, v) ==
    /\ map' = Chosen(v)
    /\ stuck' = p.stuck \cup
           {b \in p.down : \E c \in Face : Function(map, c) = b /\ Function(map', c) # b}

-----------------------------------------------------------------------------
(* The menus, the connecting screen and the error screen poll in turn, each *)
(* taking the presses it knows and asking pad_repeat() for the directions   *)
(* it moves in, if any; the first decoded frame starts the input thread.    *)
(* The Settings page asks for all four, stages values in the same g_edit,   *)
(* and commits on A.                                                        *)

MenuTurn(p) ==
    /\ screen = "menus"
    /\ \E taken \in SUBSET p.pressed : Poll(p, taken, open)
    /\ \E asked \in SUBSET (repeated \cup (Repeating \cap p.down)) :
           repeated' = (repeated \ asked) \cup (asked \cap p.down)
    /\ KeepPad(p)
    /\ screen' \in {"menus", "video"}
    /\ byStale' = FALSE
    /\ UNCHANGED <<cursor, edit, val>>

PageStages(p) ==
    /\ screen = "menus"
    /\ Poll(p, {"A"}, open)
    /\ repeated' = Repeating \cap p.down
    /\ edit' \in Values
    /\ KeepPad(p)
    /\ byStale' = FALSE
    /\ UNCHANGED <<screen, cursor, val>>

PageSaves(p) ==
    /\ screen = "menus" /\ "A" \in p.pressed
    /\ Poll(p, {"A"}, open)
    /\ repeated' = Repeating \cap p.down
    /\ \E v \in Values : val' = v /\ edit' = v /\ ApplyPad(p, v)
    /\ byStale' = FALSE
    /\ UNCHANGED <<screen, cursor>>

-----------------------------------------------------------------------------
(* The input thread. *)

Opens(p) == "Select" \in p.down /\ "X" \in p.pressed

Closing(p) ==
    IF "B" \in p.pressed THEN {"B"}
    ELSE IF "Select" \in p.down THEN {"X"} \cap p.pressed ELSE {}

OverlayShut(p) ==
    /\ ~open /\ ~Opens(p)
    /\ Poll(p, {}, FALSE)
    /\ KeepPad(p)
    /\ byStale' = FALSE
    /\ UNCHANGED <<repeated, screen, cursor, edit, val>>

OverlayOpens(p) ==
    /\ ~open /\ Opens(p)
    /\ Poll(p, {"X"}, TRUE)
    /\ cursor' = 0 /\ edit' = val
    /\ KeepPad(p)
    /\ byStale' = FALSE
    /\ UNCHANGED <<repeated, screen, val>>

OverlayCloses(p) ==
    /\ open /\ Closing(p) # {}
    /\ Poll(p, Closing(p), FALSE)
    /\ KeepPad(p)
    /\ byStale' = FALSE
    /\ UNCHANGED <<repeated, screen, cursor, edit, val>>

(* pad_repeat(): the press itself, then again whenever the clock says so. *)
Ticks(p) == {t \in SUBSET (Repeating \cap p.down) : Repeating \cap p.down \subseteq t \cup repeated}

(* Mutant: one row past the action rows. *)
MovedPastEnd(t) ==
    LET n == Len(LiveRows) + 3
        up == IF "Up" \in t THEN (cursor + n - 1) % n ELSE cursor
    IN  IF "Down" \in t THEN (up + 1) % n ELSE up

Moved(t) ==
    LET n == Len(LiveRows) + 2
        up == IF "Up" \in t THEN (cursor + n - 1) % n ELSE cursor
    IN  IF "Down" \in t THEN (up + 1) % n ELSE up

Delta(p, t) ==
    IF "A" \in p.pressed \/ "Right" \in t THEN 1 ELSE IF "Left" \in t THEN -1 ELSE 0

OnRow(t) == Moved(t) < Len(LiveRows)
Row(t) == LiveRows[Moved(t) + 1]

OverlayTurn(p, t) ==
    /\ open /\ Closing(p) = {}
    /\ Poll(p, {"A"}, TRUE)
    /\ repeated' = Repeating \cap p.down
    /\ cursor' = Moved(t)
    /\ UNCHANGED screen

OverlayMoves(p, t) ==
    /\ OverlayTurn(p, t)
    /\ \/ /\ OnRow(t)
          /\ edit' = [edit EXCEPT ![Row(t)] =
                         (@ + Delta(p, t) + ChoiceCount[Row(t)]) % ChoiceCount[Row(t)]]
       \/ ~OnRow(t) /\ "A" \notin p.pressed /\ UNCHANGED edit
    /\ KeepPad(p)
    /\ byStale' = FALSE
    /\ UNCHANGED val

(* "Apply now", or "Apply and save". *)
OverlayApplies(p, t) ==
    /\ OverlayTurn(p, t)
    /\ ~OnRow(t) /\ "A" \in p.pressed
    /\ val' = edit
    /\ ApplyPad(p, val')
    /\ byStale' = (Stale(p, "A") /\ val' # val)
    /\ UNCHANGED edit

(* The present loop ends, by the quit gesture or the engine's state; the    *)
(* overlay is left as it is.                                                *)
VideoEnds ==
    /\ screen = "video"
    /\ screen' = "menus" /\ byStale' = FALSE
    /\ UNCHANGED <<held, map, down, pressed, repeated, overlayVars, stuck, stale>>

InputThread(p) ==
    /\ screen = "video"
    /\ \/ OverlayShut(p) \/ OverlayOpens(p) \/ OverlayCloses(p)
       \/ \E t \in Ticks(p) : OverlayMoves(p, t) \/ OverlayApplies(p, t)

Next ==
    \/ \E p \in Polls : MenuTurn(p) \/ PageStages(p) \/ PageSaves(p) \/ InputThread(p)
    \/ VideoEnds

Spec == Init /\ [][Next]_vars

-----------------------------------------------------------------------------
(* Properties. *)

(* However presses and releases fall between the polls of whoever owns the  *)
(* pad, a function whose button is up is not down (pad_poll()), but for     *)
(* those a change of layout left behind and those whose release the kernel  *)
(* dropped: they stay down until another event of theirs is read.           *)
DownIsHeld == down \ stuck \subseteq Named(held)

(* A press latched before the overlay was opened changes no setting: the    *)
(* overlay's first turn takes it, when what is staged is what is in force.  *)
StalePressChangesNothing == ~byStale

=============================================================================
