------------------------------ MODULE MCClient ------------------------------
(* The client around the video: the account, the audio path, the name and   *)
(* art workers, the library screen, the options, the pad under the overlay  *)
(* and scripted presses.  The parts share no variable, so one run checks    *)
(* them side by side: an initial state picks a part and the others stay     *)
(* where they start.  Their safety properties only.                         *)
EXTENDS SignIn, Sequences, TLC

CONSTANTS
    None, Absent,
    Serial, Reorder, Starts, MaxEpoch, InboxCap, MaxWait, MaxLate, FillCap,
    Packet, MaxLatency, TrimTo, CardSize, RingBound,
    Titles, BatchMax, Budget, RefreshAge, MissRetry,
    Keys, Miss, MaxQueue, Cap, Kept, MaxIdle,
    Native, MaxConsoles, RecentMax, SectionH, RowH, StripH, ListH, SearchH,
    Cached, Natives,
    KeptRows, MaxChoices, Unlisted, Torn,
    Codes, QueueCap, MaxHeld, MaxAstray,
    Gap, RepeatDelay, RepeatEvery, RepeatFast, RepeatAccel, Lateness

(* Three titles, one of which the Store names differently than the          *)
(* catalogue, so that names re-sort them; catalogues of three, one and no   *)
(* title; two genres.                                                       *)
Games == {"a", "b", "c"}
Catalogs == {{"a", "b", "c"}, {"b"}, {}}
RawKey == [a |-> 1, b |-> 2, c |-> 3]
NamedKey == [a |-> 4, b |-> 2, c |-> 0]
RawLetter == [a |-> 1, b |-> 1, c |-> 2]
NamedLetter == [a |-> 2, b |-> 1, c |-> 0]
Genre == [a |-> "g", b |-> "g", c |-> "h"]
GenreRank == [g |-> 1, h |-> 2]
Hits == <<"x">> :> {"a", "b"}

(* The overlay has one row, the layout, which changes the pad under it.     *)
LiveRows == <<"layout">>
ChoiceCount == [layout |-> 2]

(* Taps, a wait, a hold, taps and the end.                                  *)
S(kind, ms) == [kind |-> kind, ms |-> ms]
Script == <<S("press", 3), S("press", 3), S("wait", 2), S("press", 40),
            S("press", 3), S("press", 3), S("quit", 1)>>

VARIABLES
    part,
    running, resync, source, past, epoch, inbox, taken, playing, reordered, next,
    ring, card, state, of, skew, raced,
    names, cache, stale, asked, lookups, batch, got, threw, wpc, done, pending, owed,
    quitting, waiting, titled, genred, failed,
    disk, thumbs, bytes, jobs, wanted, busy, read, finished, quit,
    games, named, native, recent, consoles, looking, tab, genre, letter, query, rows,
    sel, top, focus, search, searchFrom, searchSec, worker, fresh, freshConsoles,
    pc, stopped, loose,
    options, tmp, val, edit, field, menu, open, cursor, row, group, detail, saver,
    lost, rewritten, abandoned, carried,
    held, map, down, pressed, repeated, screen, over, line, staged, inForce, stuck,
    latched, byStale,
    pos, ended, waitLeft, holdLeft, late, pressing, repeating, repeatLeft, heldFor,
    away, ticks, sinceTick

Audio == INSTANCE AudioPath WITH batch <- taken, pc <- playing, pending <- reordered
Names == INSTANCE NameCache WITH
    file <- names, jobs <- lookups, quit <- quitting, screen <- waiting, named <- titled
Art == INSTANCE ArtCache
Library == INSTANCE LibraryScreen WITH Titles <- Games
Menu == INSTANCE Options WITH Kept <- KeptRows, file <- options, screen <- menu
Pad == INSTANCE PadOverlay WITH
    open <- over, cursor <- line, edit <- staged, val <- inForce, stale <- latched
Taps == INSTANCE PadScript WITH done <- ended, down <- pressing

ASSUME PartsAssumption ==
    /\ Audio!AudioAssumption /\ Names!NamesAssumption /\ Art!ArtAssumption
    /\ Library!LibraryAssumption /\ Menu!OptionsAssumption
    /\ Pad!PadAssumption /\ Taps!ScriptAssumption

audioVars == <<running, resync, source, past, epoch, inbox, taken, playing, reordered, next,
               ring, card, state, of, skew, raced>>
nameVars == <<names, cache, stale, asked, lookups, batch, got, threw, wpc, done, pending, owed,
              quitting, waiting, titled, genred, failed>>
artVars == <<disk, thumbs, bytes, jobs, wanted, busy, read, finished, quit>>
libraryVars == <<games, named, native, recent, consoles, looking, tab, genre, letter, query,
                 rows, sel, top, focus, search, searchFrom, searchSec, worker, fresh,
                 freshConsoles, pc, stopped, loose>>
menuVars == <<options, tmp, val, edit, field, menu, open, cursor, row, group, detail, saver,
              lost, rewritten, abandoned, carried>>
padVars == <<held, map, down, pressed, repeated, screen, over, line, staged, inForce, stuck,
             latched, byStale>>
tapVars == <<pos, ended, waitLeft, holdLeft, late, pressing, repeating, repeatLeft, heldFor,
             away, ticks, sinceTick>>
clientVars == <<part, vars, audioVars, nameVars, artVars, libraryVars, menuVars, padVars,
                tapVars>>

ClientInit ==
    /\ part \in {"account", "audio", "names", "art", "library", "menu", "pad", "taps"}
    /\ part = "account" \/ file = "none"
    /\ part = "audio" \/ source = CHOOSE s \in Starts : TRUE
    /\ part = "names" \/ names = Names!Nothing
    /\ part = "art" \/ disk = [k \in Keys |-> "none"]
    /\ part = "library" \/ (worker = "catalog" /\ games = <<"b">>)
    /\ part = "menu" \/ options = None
    /\ Init /\ Audio!Init /\ Names!Init /\ Art!Init
    /\ Library!Init /\ Menu!Init /\ Pad!Init /\ Taps!Init

ClientNext ==
    \/ /\ part = "account" /\ Next
       /\ UNCHANGED <<part, audioVars, nameVars, artVars, libraryVars, menuVars, padVars, tapVars>>
    \/ /\ part = "audio" /\ Audio!Next
       /\ UNCHANGED <<part, vars, nameVars, artVars, libraryVars, menuVars, padVars, tapVars>>
    \/ /\ part = "names" /\ Names!Next
       /\ UNCHANGED <<part, vars, audioVars, artVars, libraryVars, menuVars, padVars, tapVars>>
    \/ /\ part = "art" /\ Art!Next
       /\ UNCHANGED <<part, vars, audioVars, nameVars, libraryVars, menuVars, padVars, tapVars>>
    \/ /\ part = "library" /\ Library!Next
       /\ UNCHANGED <<part, vars, audioVars, nameVars, artVars, menuVars, padVars, tapVars>>
    \/ /\ part = "menu" /\ Menu!Next
       /\ UNCHANGED <<part, vars, audioVars, nameVars, artVars, libraryVars, padVars, tapVars>>
    \/ /\ part = "pad" /\ Pad!Next
       /\ UNCHANGED <<part, vars, audioVars, nameVars, artVars, libraryVars, menuVars, tapVars>>
    \/ /\ part = "taps" /\ Taps!Next
       /\ UNCHANGED <<part, vars, audioVars, nameVars, artVars, libraryVars, menuVars, padVars>>

ClientSpec == ClientInit /\ [][ClientNext]_clientVars

-----------------------------------------------------------------------------
(* The properties of the parts, each asked while its part is at work;       *)
(* KeptSignedIn and AuthNotShared come with SignIn.                         *)

(* Every variable of every part keeps its type.                             *)
PartsTypeOK ==
    /\ TypeOK
    /\ part = "audio" => Audio!TypeOK
    /\ part = "names" => Names!TypeOK
    /\ part = "art" => Art!TypeOK
    /\ part = "library" => Library!TypeOK
    /\ part = "menu" => Menu!TypeOK
    /\ part = "pad" => Pad!TypeOK

(* Sound stays in its place and in time (audio_player.cpp, thread_main()):  *)
(* a turn makes one packet of sound for every number it goes past, and what *)
(* waits for the ear is bounded.                                            *)
SoundKept == part = "audio" => Audio!SoundInPlace /\ Audio!LatencyBounded

(* No packet of the old RTP source makes the reorder buffer turn the new    *)
(* one away (AudioPlayer::resync()).                                        *)
NewStreamHeard == part = "audio" => Audio!NewStreamHeard

(* The loading screen's counter is what is queued and in flight             *)
(* (NameResolver::request() against its worker).                            *)
LookupsAccounted == Names!LookupsAccounted

(* A picture asked for is in one place, and its memory is counted (Thumbs). *)
ArtAccounted == part = "art" => Art!ArtAccounted

(* The library's cursor, list and strips agree whichever lists arrive under *)
(* them, shorter and empty ones too, wherever reading such a list past its  *)
(* end does not end the process (pump_refresh(), rebuild(), resort()).      *)
CursorSound ==
    part = "library" => Library!RowsShowModel /\ Library!CursorOnEntry /\ Library!CursorVisible

(* Names that arrive leave the cursor on its title (resort()), and a search *)
(* given up empty returns to the row it was opened from (library.cpp:2176). *)
CursorSteps == Library!NamesKeepSelection /\ Library!SearchReturns

(* The options file is whole whenever the client is killed                  *)
(* (options_save()).                                                        *)
FileIsWhole == part = "menu" => Menu!FileIsWhole

(* What is in force is what the menu says, but for fields a launch could    *)
(* not read back (options_capture()).                                       *)
MenuShowsForceOrRewritten == part = "menu" => Menu!MenuShowsForceOrRewritten

(* What a menu staged and left is not committed by the next one             *)
(* (options_menu_input(), options_page_enter()).                            *)
DiscardedStaysDiscarded == Menu!DiscardedStaysDiscarded

(* No press is made up: a function whose button is up is not down, unless a *)
(* change of layout left it so or the kernel dropped its event (pad_poll()), *)
(* a press from before the overlay was opened changes no setting             *)
(* (pad_take_press()), a scripted tap is one tick unless the menu loop was   *)
(* away for the gap between two taps (script_step()), and held ticks do not  *)
(* come in a burst after a late turn (pad_repeat()).                         *)
PressesSound ==
    /\ [](part = "pad" => Pad!DownIsHeld /\ Pad!StalePressChangesNothing)
    /\ Taps!TapIsOneTick /\ Taps!NoBurst
=============================================================================
