------------------------------ MODULE Options ------------------------------
(***************************************************************************)
(* The options menu (src/src/app/options.cpp): one table of settings kept  *)
(* in four places: the file, the menu's values g_val, the copy g_edit that *)
(* both menus stage changes in, and the fields of g_opts the client reads. *)
(* A launch loads the file, lets command-line flags override fields, then  *)
(* reads the fields back into the menu.  The settings page and the         *)
(* in-stream overlay commit their copy; saving is a write to a temporary   *)
(* file and a rename, and may be cut short at any point.                   *)
(*                                                                         *)
(* A field is the index of its choice, or Unlisted when a flag gave it a   *)
(* value the menu has no choice for.                                       *)
(***************************************************************************)
EXTENDS Integers, Sequences, FiniteSets, SequencesExt, Ordering

CONSTANTS
    Kept,          \* the rows of the table the model keeps
    MaxChoices,    \* bound on the choices of a row
    Unlisted,
    Torn,          \* a file cut short
    None           \* no file

Entry(id, n, live, group, def) ==
    [id |-> id, n |-> n, live |-> live, group |-> group, def |-> def]

(* kOpts. *)
Table == <<
    Entry("layout", 2, TRUE, "standard", 0), Entry("swapxy", 2, TRUE, "standard", 0),
    Entry("fit", 2, TRUE, "standard", 0), Entry("pan", 5, TRUE, "standard", 0),
    Entry("scale", 3, TRUE, "standard", 2), Entry("tier", 4, FALSE, "standard", 0),
    Entry("locale", 8, FALSE, "standard", 0), Entry("latch", 7, TRUE, "advanced", 0),
    Entry("size", 4, FALSE, "advanced", 1), Entry("bitrate", 8, FALSE, "advanced", 0),
    Entry("threads", 3, FALSE, "advanced", 0), Entry("wifi", 2, FALSE, "advanced", 1),
    Entry("rt", 2, FALSE, "advanced", 1) >>

Rows == LET all == Table IN Picked(all, {i \in DOMAIN all : all[i].id \in Kept})
Of(o) == Table[CHOOSE i \in DOMAIN Table : Table[i].id = o]
ChoicesOf(o) == 0 .. Min({Of(o).n, MaxChoices}) - 1
Defaults == [o \in Kept |-> Of(o).def]

OptionsAssumption ==
    /\ Kept \subseteq {Table[i].id : i \in DOMAIN Table} /\ MaxChoices \in Nat \ {0}
    /\ \A o \in Kept : Of(o).def \in ChoicesOf(o) /\ Unlisted \notin ChoicesOf(o)
    /\ Torn # None /\ Torn \notin [Kept -> Int]

VARIABLES
    file,       \* options.json: None, Torn, or a choice (-1: no such key) of each row
    tmp,        \* options.json.tmp: None, Torn or a file
    val, edit,  \* g_val, g_edit
    field,      \* g_opts
    screen,     \* "off", "library", "page" or "stream"
    open, cursor,             \* g_open, g_cursor
    row, group, detail,       \* g_page_row, g_page_group, g_page_detail
    saver,      \* options_save(): "idle", "opened" or "closed"
    lost,       \* history: a save was closed with its body lost
    rewritten,  \* history: fields capture could not read back, until a commit
    abandoned,  \* history: rows staged by a menu that was left since
    carried     \* history: the overlay is open from an earlier stream

store == <<file, tmp, lost>>
menu == <<open, cursor, row, group, detail>>
vars == <<store, val, edit, field, screen, menu, saver, rewritten, abandoned, carried>>

Whole == [Kept -> -1 .. MaxChoices - 1]

Init ==
    /\ file \in {None} \cup {f \in Whole : \A o \in Kept : f[o] \in ChoicesOf(o) \cup {-1}}
    /\ tmp = None /\ lost = FALSE
    /\ val = Defaults /\ edit = Defaults /\ field = Defaults
    /\ screen = "off" /\ open = FALSE /\ cursor = 1
    /\ row = 1 /\ group = "standard" /\ detail = FALSE
    /\ saver = "idle" /\ rewritten = {} /\ abandoned = {} /\ carried = FALSE

TypeOK ==
    /\ file \in Whole \cup {None, Torn} /\ tmp \in Whole \cup {None, Torn}
    /\ \A o \in Kept : val[o] \in ChoicesOf(o) /\ edit[o] \in ChoicesOf(o)
                       /\ field[o] \in ChoicesOf(o) \cup {Unlisted}
    /\ screen \in {"off", "library", "page", "stream"} /\ open \in BOOLEAN
    /\ cursor \in 1 .. Len(Rows) + 2 /\ row \in 1 .. Len(Rows) + 2
    /\ group \in {"standard", "advanced"} /\ detail \in BOOLEAN
    /\ saver \in {"idle", "opened", "closed"} /\ lost \in BOOLEAN
    /\ rewritten \subseteq Kept /\ abandoned \subseteq Kept
    /\ carried \in BOOLEAN

-----------------------------------------------------------------------------
(* Launch. *)

(* options_load(). *)
Loaded ==
    [o \in Kept |-> IF file \notin {None, Torn} /\ file[o] \in ChoicesOf(o) THEN file[o]
                    ELSE Of(o).def]

(* What the flags can make of a field. *)
Flagged(o) ==
    CASE o \in {"fit", "pan"} -> {}
      [] o \in {"wifi", "rt"} -> {0}
      [] o \in {"latch", "size", "bitrate", "locale"} -> ChoicesOf(o) \cup {Unlisted}
      [] OTHER -> ChoicesOf(o)

(* Mutant: the bitrate is read back one choice up. *)
ReadBackRoundedUp(o, f) ==
    CASE o = "pan" -> {0}
      [] o # "pan" /\ f \in ChoicesOf(o) -> {Min({f + 1, MaxChoices - 1})}
      [] OTHER -> ChoicesOf(o)

(* options_capture(): the pan is not read back, latch and bitrate as the    *)
(* nearest choice, anything else the menu does not list as the first.       *)
ReadBack(o, f) ==
    CASE o = "pan" -> {0}
      [] o # "pan" /\ f \in ChoicesOf(o) -> {f}
      [] f = Unlisted /\ o \in {"latch", "bitrate"} -> ChoicesOf(o)
      [] OTHER -> {0}

Launch ==
    /\ screen = "off"
    /\ screen' = "library"
    /\ field' \in {f \in [Kept -> 0 .. MaxChoices - 1 \cup {Unlisted}] :
                      \A o \in Kept : f[o] \in {Loaded[o]} \cup Flagged(o)}
    /\ val' \in {v \in [Kept -> 0 .. MaxChoices - 1] :
                    \A o \in Kept : v[o] \in ReadBack(o, field'[o])}
    /\ rewritten' = {o \in Kept : field'[o] = Unlisted \/ o = "pan"}
    /\ UNCHANGED <<store, edit, menu, saver, abandoned, carried>>

(* The process ends, or is killed in the middle of a save.                  *)
Exit ==
    /\ screen # "off"
    /\ screen' = "off" /\ saver' = "idle"
    /\ val' = Defaults /\ edit' = Defaults /\ field' = Defaults
    /\ open' = FALSE /\ cursor' = 1 /\ row' = 1 /\ group' = "standard" /\ detail' = FALSE
    /\ rewritten' = {} /\ abandoned' = {} /\ carried' = FALSE
    /\ UNCHANGED store

-----------------------------------------------------------------------------
(* options_save(): a small body stays in the stream's buffer until close(), *)
(* whose failure nobody looks at.                                           *)

Save == saver' = "opened" /\ tmp' = Torn
SaveNotOpened == saver' = "idle" /\ UNCHANGED tmp

(* Mutant: the file itself is opened and truncated. *)
SaveInPlace ==
    /\ saver = "opened"
    /\ saver' = "closed" /\ file' = Torn
    /\ tmp' = val /\ UNCHANGED lost

SaveClosed ==
    /\ saver = "opened"
    /\ saver' = "closed" /\ UNCHANGED file
    /\ \/ tmp' = val /\ UNCHANGED lost
       \/ tmp' = Torn /\ lost' = TRUE

SaveRenamed ==
    /\ saver = "closed"
    /\ saver' = "idle" /\ tmp' = None
    /\ file' \in {IF tmp = Torn THEN Torn ELSE tmp, file}
    /\ UNCHANGED lost

SaveStep ==
    /\ SaveClosed \/ SaveRenamed
    /\ UNCHANGED <<val, edit, field, screen, menu, rewritten, abandoned, carried>>

-----------------------------------------------------------------------------
(* What both menus do. *)

Turned(o, d) == (edit[o] + d + Cardinality(ChoicesOf(o))) % Cardinality(ChoicesOf(o))

Cycle(o) ==
    /\ \E d \in {-1, 1} : edit' = [edit EXCEPT ![o] = Turned(o, d)]
    /\ abandoned' = abandoned \ {o}
    /\ UNCHANGED <<store, val, field, menu, saver, rewritten, carried>>

(* g_val from g_edit, apply(). *)
Commit ==
    /\ val' = edit /\ field' = edit
    /\ rewritten' = {} /\ abandoned' = {}
    /\ UNCHANGED <<edit, menu, file, lost, carried>>

-----------------------------------------------------------------------------
(* The settings page. *)

Group == LET all == Rows IN Picked(all, {i \in DOMAIN all : all[i].group = group})

(* Mutant: the page opens on what was staged before. *)
PageEnterStaged ==
    /\ screen = "library"
    /\ screen' = "page" /\ abandoned' = {o \in Kept : edit[o] # val[o]}
    /\ row' = 1 /\ group' = "standard" /\ detail' = FALSE
    /\ UNCHANGED <<store, val, edit, field, open, cursor, saver, rewritten, carried>>

(* options_page_enter(). *)
PageEnter ==
    /\ screen = "library"
    /\ screen' = "page"
    /\ edit' = val /\ abandoned' = {}
    /\ row' = 1 /\ group' = "standard" /\ detail' = FALSE
    /\ UNCHANGED <<store, val, field, open, cursor, saver, rewritten, carried>>

(* Leaving the tab drops nothing: the copy waits for the next menu to open. *)
(* (The page's cursor is forgotten here, since every entry sets it.)        *)
PageLeave ==
    /\ screen = "page" /\ saver = "idle"
    /\ screen' = "library"
    /\ abandoned' = {o \in Kept : edit[o] # val[o]}
    /\ row' = 1 /\ group' = "standard" /\ detail' = FALSE
    /\ UNCHANGED <<store, val, edit, field, open, cursor, saver, rewritten, carried>>

PageExplained ==
    /\ detail
    /\ detail' = FALSE
    /\ UNCHANGED <<store, val, edit, field, open, cursor, row, group, saver, rewritten, abandoned,
                   carried>>

PageMove ==
    /\ ~detail
    /\ \/ row' \in {row - 1, row + 1} \cap 1 .. Len(Group) + 2 /\ UNCHANGED <<group, detail>>
       \/ row' = 1 /\ group' \in {"standard", "advanced"} \ {group} /\ UNCHANGED detail
       \/ row <= Len(Group) /\ detail' = TRUE /\ UNCHANGED <<row, group>>
    /\ UNCHANGED <<store, val, edit, field, open, cursor, saver, rewritten, abandoned, carried>>

PageCycle == ~detail /\ row <= Len(Group) /\ Cycle(Group[row].id)

PageSave ==
    /\ ~detail /\ row = Len(Group) + 1
    /\ Commit
    /\ Save \/ SaveNotOpened

PageReset ==
    /\ ~detail /\ row = Len(Group) + 2
    /\ edit' = Defaults /\ abandoned' = {}
    /\ UNCHANGED <<store, val, field, menu, saver, rewritten, carried>>

(* options_page_input() and options_page_group_step(). *)
Page ==
    /\ screen = "page" /\ saver = "idle" /\ UNCHANGED screen
    /\ PageExplained \/ PageMove \/ PageCycle \/ PageSave \/ PageReset

-----------------------------------------------------------------------------
(* The overlay. *)

LiveRows == LET all == Rows IN Picked(all, {i \in DOMAIN all : all[i].live})

(* A stream starts and ends without a word to the menu: an overlay open     *)
(* when the stream is quit is open in the next one.                         *)
StreamStarts == screen = "library" /\ screen' = "stream" /\ carried' = open
StreamEnds == screen = "stream" /\ saver = "idle" /\ screen' = "library" /\ UNCHANGED carried

StreamSwitch ==
    /\ StreamStarts \/ StreamEnds
    /\ UNCHANGED <<store, val, edit, field, menu, saver, rewritten, abandoned>>

OverlayOpen ==
    /\ ~open
    /\ open' = TRUE /\ cursor' = 1
    /\ edit' = val /\ abandoned' = {} /\ carried' = FALSE
    /\ UNCHANGED <<store, val, field, row, group, detail, saver, rewritten>>

OverlayClose ==
    /\ open
    /\ open' = FALSE /\ carried' = FALSE /\ cursor' = 1
    /\ abandoned' = {o \in Kept : edit[o] # val[o]}
    /\ UNCHANGED <<store, val, edit, field, row, group, detail, saver, rewritten>>

OverlayMove ==
    /\ open
    /\ LET n == Len(LiveRows) + 2
       IN  cursor' \in {(cursor % n) + 1, ((cursor + n - 2) % n) + 1}
    /\ UNCHANGED <<store, val, edit, field, open, row, group, detail, saver, rewritten, abandoned,
                   carried>>

OverlayCycle == open /\ cursor <= Len(LiveRows) /\ Cycle(LiveRows[cursor].id)

OverlayApply ==
    /\ open /\ cursor = Len(LiveRows) + 1
    /\ Commit
    /\ UNCHANGED <<tmp, saver>>

OverlaySave ==
    /\ open /\ cursor = Len(LiveRows) + 2
    /\ Commit
    /\ Save \/ SaveNotOpened

(* options_menu_input(). *)
Overlay ==
    /\ screen = "stream" /\ saver = "idle" /\ UNCHANGED screen
    /\ OverlayOpen \/ OverlayClose \/ OverlayMove \/ OverlayCycle \/ OverlayApply \/ OverlaySave

Next ==
    \/ Launch \/ Exit \/ SaveStep \/ PageEnter \/ PageLeave \/ Page
    \/ StreamSwitch \/ Overlay

Spec == Init /\ [][Next]_vars

-----------------------------------------------------------------------------
(* Properties. *)

(* Whenever the client is killed, the file the next launch reads is whole   *)
(* ("Written atomically", options.hpp:29), unless a full disk took the body *)
(* at a close nobody checks.                                                *)
FileIsWhole == file = Torn => lost

(* What is in force is what the menu says, but for the fields a launch      *)
(* could not read back and no commit has rewritten yet.                     *)
MenuShowsForceOrRewritten == \A o \in Kept : field[o] = val[o] \/ o \in rewritten

(* "Closing discards" (options.cpp:593), and so does leaving the page: no    *)
(* commit changes a value staged by a menu that was left since, but through  *)
(* an overlay that was still open when an earlier stream ended.              *)
DiscardedStaysDiscarded ==
    [][\A o \in abandoned : val'[o] # val[o] => carried \/ screen' = "off"]_vars
=============================================================================
