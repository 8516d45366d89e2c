---------------------------- MODULE LibraryScreen ----------------------------
(***************************************************************************)
(* The library screen (src/src/app/library.cpp): a list of rows derived    *)
(* from the catalogue, the consoles, the recent titles, a tab, a genre, a  *)
(* letter and a search; a cursor that is an index into those rows; and     *)
(* workers whose results (names, a fresh catalogue, the account's          *)
(* consoles) change the list under the cursor.                             *)
(*                                                                         *)
(* One turn of run()'s loop is a Pump step (take what the workers have,    *)
(* repaint) and an input step that handles one button; the search picker,  *)
(* where two buttons of one poll interfere, handles two.  Indexes count    *)
(* from 1 and 0 stands for the code's -1.                                  *)
(***************************************************************************)
EXTENDS Integers, Sequences, FiniteSets, SequencesExt, Ordering

CONSTANTS
    Titles,
    Catalogs,      \* the catalogues the service may answer with: sets of titles
    RawKey, NamedKey,        \* what sort() compares of a title without and with
                             \* its name: sort_key(), then the title's id
    RawLetter, NamedLetter,  \* letter_of_key() of those, numbered in order
    Genre,         \* the Store's category of a title, known with its name
    GenreRank,     \* the alphabetical order of the genres
    Hits,          \* Hits[q]: the titles a query of one letter or more matches
    Native,        \* kNativeGenre
    None,
    MaxConsoles,
    RecentMax,     \* kRecentMax
    SectionH, RowH, StripH, ListH, SearchH,  \* row heights, the list's height
    Cached,        \* titles the name cache knows when the screen opens
    Natives        \* titles a stream may turn out to be native for

Letters == {RawLetter[t] : t \in Titles} \cup {NamedLetter[t] : t \in Titles}
Queries == {<<>>} \cup DOMAIN Hits
Tabs == <<"home", "all", "genres", "settings", "tools">>
Tools == <<"buttons", "network", "about", "logout", "reset", "reset and logout">>
Selectable == {"game", "console", "genre", "tool"}

LibraryAssumption ==
    /\ Catalogs \subseteq SUBSET Titles
    /\ \A c \in Catalogs : IsFiniteSet(c)
    /\ {RawKey, NamedKey, RawLetter, NamedLetter} \subseteq [Titles -> Int]
    /\ \A t, u \in Titles : t # u => {RawKey[t], NamedKey[t]} \cap {RawKey[u], NamedKey[u]} = {}
    /\ DOMAIN Genre = Titles
    /\ \A t, u \in Titles : GenreRank[Genre[t]] \in Int
                            /\ (GenreRank[Genre[t]] = GenreRank[Genre[u]] => Genre[t] = Genre[u])
    /\ None \notin Titles /\ None \notin Range(Genre) \cup {Native}
    /\ Native \notin Range(Genre)
    /\ \A q \in DOMAIN Hits : Hits[q] \subseteq Titles /\ q # <<>> /\ Front(q) \in Queries
    /\ MaxConsoles \in Nat /\ RecentMax \in Nat \ {0}
    /\ \A n \in {SectionH, RowH, StripH, ListH, SearchH} : n \in Nat \ {0}
    /\ StripH <= ListH
    /\ Cached \subseteq Titles /\ Natives \subseteq Titles

VARIABLES
    games,        \* m_.games, as a sequence of titles
    named,        \* titles whose name (and genre) is known
    native,       \* native_
    recent,       \* m_.recent
    consoles, looking,       \* how many, m_.consoles_pending
    tab, genre, letter, query,
    rows, sel, top, focus,
    search, searchFrom, searchSec,
    worker,       \* CatalogRefresh: "catalog", "consoles", "done"
    fresh, freshConsoles,    \* its results, None when there is nothing to take
    pc,           \* "pump", "input", or "crashed" after a read past the list
    stopped,      \* the screen was left, or g_stop
    loose         \* history: why rows and cursor may disagree

workVars == <<worker, fresh, freshConsoles>>
dataVars == <<games, named, native, recent, consoles, looking>>
viewVars == <<tab, genre, letter, query>>
listVars == <<rows, sel, top, loose>>
searchVars == <<search, searchFrom, searchSec>>
vars == <<dataVars, viewVars, listVars, focus, searchVars, workVars, pc, stopped>>

-----------------------------------------------------------------------------
(* The model: what the rows are derived from. *)

KeyOf(t, names) == IF t \in names THEN NamedKey[t] ELSE RawKey[t]
LetterOf(t) == IF t \in named THEN NamedLetter[t] ELSE RawLetter[t]
InGenre(t, g) == IF g = Native THEN t \in native ELSE t \in named /\ Genre[t] = g

(* Model::sort(). *)
Sorted(catalog, names) ==
    Ordered(catalog, {p \in catalog \X catalog : KeyOf(p[1], names) < KeyOf(p[2], names)})

LetterTabs == Ascending({LetterOf(t) : t \in Range(games)})

(* Model::index_genres(). *)
Genres ==
    LET count(g) == Cardinality({t \in Range(games) : InGenre(t, g)})
        present == {g \in Range(Genre) : count(g) > 0}
        before == {p \in present \X present :
                      \/ count(p[1]) > count(p[2])
                      \/ count(p[1]) = count(p[2]) /\ GenreRank[p[1]] < GenreRank[p[2]]}
    IN  (IF count(Native) > 0 THEN <<Native>> ELSE <<>>) \o Ordered(present, before)

Row(kind, sec, i) == [kind |-> kind, sec |-> sec, i |-> i]
Section(sec) == <<Row("section", sec, 0)>>
Note(sec) == <<Row("note", sec, 0)>>
Entries(kind, sec, n) == [i \in 1 .. n |-> Row(kind, sec, i)]
GameRows(sec, indexes) == [i \in 1 .. Len(indexes) |-> Row("game", sec, indexes[i])]

Places(ids) ==
    LET listed == Picked(ids, {i \in DOMAIN ids : ids[i] \in Range(games)})
    IN  [k \in DOMAIN listed |-> CHOOSE n \in DOMAIN games : games[n] = listed[k]]

HomeRows(n, ids) ==
    Section("console")
    \o (IF n = 0 THEN Note("console") ELSE Entries("console", "console", n))
    \o (IF Places(ids) = <<>> THEN <<>>
        ELSE Section("recent") \o GameRows("recent", Places(ids)))
    \o Section("all") \o Note("all")

Listed(t) ==
    IF query # <<>> THEN t \in Hits[query]
    ELSE IF genre # None THEN InGenre(t, genre)
    ELSE tab # "all" \/ LetterOf(t) = letter

ListRows ==
    Section("all") \o GameRows("all", Ascending({i \in DOMAIN games : Listed(games[i])}))

(* Model::build_rows(), with n consoles and some recent titles. *)
RowsWith(n, ids) ==
    CASE query = <<>> /\ tab = "settings" -> <<>>
      [] query = <<>> /\ tab = "tools" -> Section("all") \o Entries("tool", "all", Len(Tools))
      [] query = <<>> /\ tab = "genres" /\ genre = None ->
           Section("all") \o Entries("genre", "all", Len(Genres))
           \o (IF Genres = <<>> THEN Note("all") ELSE <<>>)
      [] query = <<>> /\ tab = "home" -> HomeRows(n, ids)
      [] OTHER -> ListRows

BuiltRows == RowsWith(consoles, recent)

(* index_letters(): a letter that has no title any more gives way, and there *)
(* is none when the list is empty.                                          *)
LetterKept ==
    letter' = IF LetterTabs' = <<>> THEN None
              ELSE IF \E t \in Range(games)' : LetterOf(t)' = letter THEN letter
              ELSE LetterTabs'[1]

-----------------------------------------------------------------------------
(* The cursor and the part of the list on screen. *)

LettersShowing == ~search /\ tab = "all" /\ genre = None
GenreStripShowing == ~search /\ genre # None
HasStrip == (LettersShowing /\ LetterTabs # <<>>) \/ GenreStripShowing \/ tab = "settings"

Height == (IF search THEN SearchH ELSE ListH)
          - (IF LettersShowing \/ GenreStripShowing THEN StripH ELSE 0)

Openable(rs) == {i \in DOMAIN rs : rs[i].kind \in Selectable}
First(S) == IF S = {} THEN 0 ELSE Min(S)

(* Rows f to s fit the list.  What follows takes the rows it is about, since *)
(* a step is about those it has just built.  A cursor past the end reads the *)
(* vector's spare room, which counts as a plain row.                         *)
Fits(rs, height, f, s) ==
    LET low == Cardinality({i \in f .. s : i \in DOMAIN rs /\ rs[i].kind \in {"section", "note"}})
    IN  SectionH * low + RowH * (s - f + 1 - low) <= height

(* ensure_visible(), for a cursor at s and a list painted from f. *)
VisibleFrom(rs, height, f, s) ==
    IF s = 0 THEN 1
    ELSE LET at == IF s < f THEN s ELSE f
             with == IF at - 1 \in DOMAIN rs /\ rs[at - 1].kind = "section" THEN at - 1 ELSE at
         IN  Min({t \in with .. s : t = s \/ Fits(rs, height, t, s)})

TitleOf(rs, gs, i) ==
    IF i \in DOMAIN rs /\ rs[i].kind = "game" THEN gs[rs[i].i] ELSE None
Title(i) == TitleOf(rows, games, i)
SectionOf(i) == IF Title(i) = None THEN "all" ELSE rows[i].sec

(* rebuild()'s cursor: the same title, in the same section if it can be. *)
KeptCursor(rs, gs, id, sec) ==
    LET all == {i \in DOMAIN rs : id # None /\ TitleOf(rs, gs, i) = id}
        same == {i \in all : rs[i].sec = sec}
    IN  IF same # {} THEN Min(same)
        ELSE IF all # {} THEN Min(all)
        ELSE First(Openable(rs))

(* rebuild(), of a list painted from row f. *)
Rebuild(id, sec, f) ==
    /\ rows' = BuiltRows' /\ loose' = {}
    /\ sel' = KeptCursor(rows', games', id, sec)
    /\ top' = VisibleFrom(rows', Height', f, sel')

NewList == Rebuild(None, "all", 1)
Scroll == top' = VisibleFrom(rows, Height', top, sel) /\ UNCHANGED <<rows, sel, loose>>

Init ==
    /\ named = Cached /\ native = {} /\ recent = <<>>
    /\ \E c \in Catalogs \ {{}} : games = Sorted(c, named)   \* main() stops at an empty one
    /\ consoles = 0 /\ looking = TRUE
    /\ tab = "home" /\ genre = None /\ letter = LetterTabs[1] /\ query = <<>>
    /\ search = FALSE /\ searchFrom = None /\ searchSec = "all"
    /\ rows = BuiltRows /\ sel = KeptCursor(rows, games, None, "all")
    /\ top = VisibleFrom(rows, Height, 1, sel)
    /\ focus = "body" /\ loose = {}
    /\ worker \in {"catalog", "consoles"} /\ fresh = None /\ freshConsoles = None
    /\ pc = "pump" /\ stopped = FALSE

RowType == [kind : Selectable \cup {"section", "note"}, sec : {"console", "recent", "all"},
            i : Nat]

TypeOK ==
    /\ games \in Seq(Titles) /\ Range(games) \in Catalogs
    /\ named \subseteq Titles /\ native \subseteq Titles
    /\ recent \in Seq(Titles) /\ Len(recent) <= RecentMax
    /\ consoles \in 0 .. MaxConsoles /\ looking \in BOOLEAN
    /\ tab \in Range(Tabs) /\ genre \in Range(Genre) \cup {Native, None}
    /\ letter \in Letters \cup {None} /\ query \in Queries
    /\ rows \in Seq(RowType) /\ sel \in Nat /\ top \in Nat \ {0}
    /\ sel > Len(rows) => "consoles" \in loose
    /\ \A i \in DOMAIN rows :
           /\ rows[i].kind = "game" => rows[i].i \in DOMAIN games
           /\ rows[i].kind = "console" => rows[i].i \in 1 .. consoles
           /\ rows[i].kind = "genre" => rows[i].i \in DOMAIN Genres
    /\ focus \in {"tabs", "strip", "body"}
    /\ search \in BOOLEAN /\ searchFrom \in Titles \cup {None}
    /\ worker \in {"catalog", "consoles", "done"}
    /\ fresh \in Catalogs \cup {None} /\ freshConsoles \in 0 .. MaxConsoles \cup {None}
    /\ pc \in {"pump", "input", "crashed"} /\ stopped \in BOOLEAN
    /\ loose \subseteq {"consoles", "query"}

-----------------------------------------------------------------------------
(* CatalogRefresh's thread.  Either fetch may throw; the console lookup     *)
(* posts nothing for an account without remote play.                        *)

FetchedCatalogs == Catalogs \cup {None}
FoundConsoles == 0 .. MaxConsoles \cup {None}

CatalogFetched ==
    /\ worker = "catalog"
    /\ worker' = "consoles"
    /\ fresh' \in FetchedCatalogs
    /\ UNCHANGED freshConsoles

ConsolesFetched ==
    /\ worker = "consoles"
    /\ worker' = "done"
    /\ freshConsoles' \in FoundConsoles
    /\ UNCHANGED fresh

Running == ~stopped /\ pc # "crashed"

Work ==
    /\ Running
    /\ CatalogFetched \/ ConsolesFetched
    /\ UNCHANGED <<dataVars, viewVars, listVars, focus, searchVars, pc, stopped>>

-----------------------------------------------------------------------------
(* Pumping: names that have arrived, then pump_refresh(). *)

Resort(keep, sec) == LetterKept /\ Rebuild(keep, sec, top)

(* Mutant: the cursor's title is read from the list already sorted. *)
NamesArriveThenLook ==
    /\ \E ts \in SUBSET (Range(games) \ named) \ {{}} : named' = named \cup ts
    /\ games' = Sorted(Range(games), named')
    /\ UNCHANGED <<native, recent, consoles, looking, fresh, freshConsoles>>
    /\ Resort(TitleOf(rows, games', sel), SectionOf(sel))

(* names_.pump() names titles in place; resort() reads the cursor before it *)
(* sorts.                                                                   *)
NamesArrive ==
    /\ \E ts \in SUBSET (Range(games) \ named) \ {{}} : named' = named \cup ts
    /\ games' = Sorted(Range(games), named')
    /\ UNCHANGED <<native, recent, consoles, looking, fresh, freshConsoles>>
    /\ Resort(Title(sel), SectionOf(sel))

FoundSoFar == IF freshConsoles = None THEN consoles ELSE freshConsoles

(* The consoles' half of pump_refresh(): the rows are rebuilt under a cursor *)
(* that is left where it is.                                                *)
TakeConsoles ==
    /\ consoles' = FoundSoFar
    /\ looking' = (worker # "done")
    /\ freshConsoles' = None

RebuildInPlace ==
    /\ UNCHANGED <<sel, top, letter, games>>
    /\ IF consoles' # consoles \/ looking' # looking
       THEN rows' = BuiltRows' /\ loose' = IF rows' # rows THEN {"consoles"} ELSE loose
       ELSE UNCHANGED <<rows, loose>>

(* The catalogue's half.  resort() looks the cursor's title up through the  *)
(* rows of the old list (or those the consoles have just rebuilt) in the    *)
(* fresh one, which is not sorted yet, and does not ask whether it is long   *)
(* enough (selected()).                                                     *)
RowsRead(n, wait, ids) == IF n # consoles \/ wait # looking THEN RowsWith(n, ids) ELSE rows
IndexRead(rs) == IF sel \in DOMAIN rs /\ rs[sel].kind = "game" THEN rs[sel].i ELSE 0
PastEnd(rs, list) == IndexRead(rs) > Cardinality(list)

(* It may find any title of the fresh list.  Past the end is undefined: the  *)
(* memory there may hold a title's id, none, or nothing a string can be      *)
(* copied from (Crash).                                                     *)
TitlesRead(rs, list) ==
    IF IndexRead(rs) = 0 THEN {None} ELSE IF PastEnd(rs, list) THEN list \cup {None} ELSE list
SectionRead(rs) == IF IndexRead(rs) = 0 THEN "all" ELSE rs[sel].sec

TakeCatalog ==
    LET rs == RowsRead(consoles', looking', recent)
    IN  /\ games' = Sorted(fresh, named)
        /\ \E keep \in TitlesRead(rs, fresh) : Resort(keep, SectionRead(rs))

(* Lists of the same titles may still differ in how they are owned.         *)
Refresh ==
    /\ TakeConsoles
    /\ fresh' = None /\ UNCHANGED <<named, native, recent>>
    /\ \/ fresh \in {None, Range(games)} /\ RebuildInPlace
       \/ fresh # None /\ TakeCatalog

Crash ==
    /\ pc' = "crashed"
    /\ UNCHANGED <<dataVars, viewVars, listVars, focus, searchVars, workVars, stopped>>

RefreshCrashes ==
    /\ pc = "pump" /\ Running /\ fresh # None
    /\ PastEnd(RowsRead(FoundSoFar, worker # "done", recent), fresh)
    /\ Crash

Quiet == fresh = None /\ freshConsoles = None /\ looking = (worker # "done")

NothingArrives ==
    /\ Quiet
    /\ UNCHANGED <<dataVars, letter, listVars, fresh, freshConsoles>>

Pump ==
    /\ pc = "pump" /\ Running
    /\ pc' = "input"
    /\ UNCHANGED <<tab, genre, query, focus, searchVars, worker, stopped>>
    /\ NamesArrive \/ (~Quiet /\ Refresh) \/ NothingArrives

-----------------------------------------------------------------------------
(* Moving between the bands. *)

Turned(seq, x, dir) ==
    LET n == Len(seq)
        at == CHOOSE i \in 1 .. n : seq[i] = x
    IN  seq[((at - 1 + n + dir) % n) + 1]

OnList == UNCHANGED <<searchVars, dataVars, stopped>>

(* tab_step(). *)
TabStep(dir) ==
    /\ UNCHANGED letter
    /\ OnList
    /\ tab' = Turned(Tabs, tab, dir)
    /\ genre' = None /\ query' = <<>>
    /\ NewList
    /\ focus' = IF \/ focus = "strip" /\ ~HasStrip'
                   \/ focus = "body" /\ sel' = 0 /\ tab' # "settings"
                THEN "tabs" ELSE focus

(* focus_down(). *)
ToStrip ==
    /\ focus = "tabs" /\ HasStrip
    /\ focus' = "strip"
    /\ UNCHANGED <<viewVars, listVars>> /\ OnList

ToPage ==
    /\ ~(focus = "tabs" /\ HasStrip) /\ tab = "settings"
    /\ focus' = "body"
    /\ UNCHANGED <<viewVars, listVars>> /\ OnList

ToList ==
    /\ ~(focus = "tabs" /\ HasStrip) /\ tab # "settings"
    /\ sel' = IF sel = 0 THEN First(Openable(rows)) ELSE sel
    /\ IF sel' = 0 THEN UNCHANGED <<focus, top>>
       ELSE focus' = "body" /\ top' = VisibleFrom(rows, Height, top, sel')
    /\ UNCHANGED <<viewVars, rows, loose>> /\ OnList

FocusDown == ToStrip \/ ToPage \/ ToList

(* leave_genre(): the cursor lands on the genre just left, if it is listed. *)
LeaveGenre ==
    /\ UNCHANGED <<tab, letter, query>>
    /\ OnList
    /\ genre' = None
    /\ rows' = BuiltRows' /\ loose' = {}
    /\ LET left == {i \in DOMAIN rows' : rows'[i].kind = "genre" /\ Genres[rows'[i].i] = genre}
           first == First(Openable(rows'))
       IN  /\ sel' = IF left # {} THEN Min(left) ELSE first
           /\ top' = VisibleFrom(rows', Height', VisibleFrom(rows', Height', top, first), sel')

(* strip_step(). *)
StripLeavesGenre ==
    /\ GenreStripShowing
    /\ LeaveGenre
    /\ focus' = "body"

StripTurnsPage ==
    /\ ~GenreStripShowing /\ tab = "settings"
    /\ UNCHANGED <<viewVars, listVars, focus>> /\ OnList

(* Mutant: the letter turns and the list stays. *)
StripTurnsLetterOnly(dir) ==
    /\ ~GenreStripShowing /\ tab # "settings"
    /\ UNCHANGED <<tab, genre, query>>
    /\ UNCHANGED <<focus>> /\ OnList
    /\ letter' = Turned(LetterTabs, letter, dir)
    /\ UNCHANGED listVars

StripTurnsLetter(dir) ==
    /\ ~GenreStripShowing /\ tab # "settings"
    /\ UNCHANGED <<tab, genre, query>>
    /\ UNCHANGED <<focus>> /\ OnList
    /\ letter' = Turned(LetterTabs, letter, dir)
    /\ NewList

Nothing == UNCHANGED <<viewVars, listVars, focus>> /\ OnList

-----------------------------------------------------------------------------
(* handle_tabs() and handle_strip(). *)

TabsHandle(b) ==
    CASE b = "left" -> TabStep(-1)
      [] b = "right" -> TabStep(1)
      [] b \in {"down", "A"} -> FocusDown
      [] OTHER -> Nothing

FocusOn(band) ==
    /\ focus' = band
    /\ UNCHANGED <<viewVars, listVars>> /\ OnList

StripHandle(b) ==
    IF ~HasStrip THEN FocusOn("tabs")
    ELSE CASE b = "left" -> StripLeavesGenre \/ StripTurnsPage \/ StripTurnsLetter(-1)
           [] b = "right" -> \/ GenreStripShowing /\ Nothing
                             \/ StripTurnsPage \/ StripTurnsLetter(1)
           [] b = "up" -> FocusOn("tabs")
           [] b \in {"down", "A"} -> FocusDown
           [] OTHER -> Nothing

-----------------------------------------------------------------------------
(* handle_body(): the settings page first, then the list. *)

(* options_page_input(): Up from the page's first row leaves it; the page    *)
(* itself is in Options.                                                     *)
PageHandle(b) ==
    /\ focus' \in IF b = "up" THEN {"body", "strip"} ELSE {"body"}
    /\ UNCHANGED <<viewVars, listVars>> /\ OnList

(* selectable_row(): the next row on that can be opened, or where it was.   *)
NextRow(i, dir) ==
    LET ahead == {j \in Openable(rows) : i + dir \in DOMAIN rows /\ (j - i) * dir > 0}
    IN  IF ahead = {} THEN i ELSE IF dir > 0 THEN Min(ahead) ELSE Max(ahead)

(* step(): n selectable rows on, or as far as there are any. *)
Stepped(dir, n) ==
    LET at[k \in 0 .. n] == IF k = 0 THEN sel ELSE NextRow(at[k - 1], dir)
    IN  IF sel = 0 THEN sel ELSE at[n]

Page == Height \div RowH

MoveTo(i) ==
    /\ sel' = i
    /\ IF i = sel THEN UNCHANGED <<top, loose>>
       ELSE top' = VisibleFrom(rows, Height, top, i) /\ loose' = loose \ {"consoles"}
    /\ UNCHANGED <<rows, viewVars, focus>> /\ OnList

OpenSearch ==
    /\ UNCHANGED <<viewVars, focus, dataVars, stopped>>
    /\ search' = TRUE
    /\ searchFrom' = Title(sel)
    /\ searchSec' = IF Title(sel) # None THEN SectionOf(sel) ELSE searchSec
    /\ Scroll

(* START: straight to the rows of the settings page. *)
StartSettings ==
    /\ OnList
    /\ tab' = "settings" /\ UNCHANGED <<genre, letter, query>>
    /\ focus' = "body"
    /\ Rebuild(None, "all", top)

OnGenreRow == sel \in DOMAIN rows /\ rows[sel].kind = "genre"

EnterGenre ==
    /\ UNCHANGED <<tab, letter, query>>
    /\ UNCHANGED <<focus>> /\ OnList
    /\ genre' = Genres[rows[sel].i]
    /\ NewList

-----------------------------------------------------------------------------
(* launch() *)

LaunchTool ==
    /\ rows[sel].kind = "tool"
    /\ stopped' \in (IF Tools[rows[sel].i] \in {"logout", "reset", "reset and logout"}
                      THEN BOOLEAN ELSE {FALSE})
    /\ UNCHANGED <<viewVars, listVars, focus, searchVars, dataVars, workVars>>

LaunchConsole ==
    /\ rows[sel].kind = "console"
    /\ Nothing
    /\ UNCHANGED workVars

(* note_recent(). *)
RecentWith(t) ==
    LET ids == <<t>> \o Picked(recent, {i \in DOMAIN recent : recent[i] # t})
    IN  SubSeq(ids, 1, Min({Len(ids), RecentMax}))

(* A refresh in flight is waited for, since it uses the same credentials,    *)
(* and pumped.                                                              *)
Awaited == IF worker = "catalog" THEN FetchedCatalogs ELSE {fresh}

WaitForRefresh ==
    /\ worker' = "done" /\ fresh' = None /\ freshConsoles' = None
    /\ \E f \in Awaited : games' = IF f = None THEN games ELSE Sorted(f, named)
    /\ LetterKept
    /\ consoles' \in 0 .. MaxConsoles /\ looking' = FALSE

(* The engine runs, may note that the title encodes at the size asked for,  *)
(* and the cursor goes back to the title.                                   *)
LaunchGame ==
    /\ rows[sel].kind = "game"
    /\ recent' = RecentWith(Title(sel))
    /\ UNCHANGED <<tab, genre, query, named, focus, searchVars, stopped>>
    /\ IF worker = "done" THEN UNCHANGED <<workVars, games, letter, consoles, looking>>
       ELSE WaitForRefresh
    /\ native' \in {native, native \cup ({Title(sel)} \cap Natives), native \ {Title(sel)}}
    /\ \E f \in IF worker = "done" THEN {top} ELSE 1 .. Len(BuiltRows') :
           Rebuild(Title(sel), SectionOf(sel), f)

LaunchCrashes ==
    /\ pc = "input" /\ Running /\ ~search /\ focus = "body" /\ tab # "settings"
    /\ Title(sel) # None /\ worker # "done"
    /\ \E f \in Awaited \ {None}, n \in 0 .. MaxConsoles :
           PastEnd(RowsRead(n, FALSE, RecentWith(Title(sel))), f)
    /\ Crash

Launch ==
    \/ sel \in Openable(rows) /\ (LaunchTool \/ LaunchConsole \/ LaunchGame)
    \/ OnGenreRow /\ EnterGenre /\ UNCHANGED workVars
    \/ sel \notin Openable(rows) /\ Nothing /\ UNCHANGED workVars

ListHandle(b) ==
    LET kept == UNCHANGED workVars
        atTop == sel = 0 \/ sel - 1 \notin DOMAIN rows \/ \A i \in Openable(rows) : i >= sel
    IN  CASE b = "up" /\ atTop -> FocusOn(IF HasStrip THEN "strip" ELSE "tabs") /\ kept
          [] b = "up" /\ ~atTop -> MoveTo(Stepped(-1, 1)) /\ kept
          [] b = "down" -> MoveTo(Stepped(1, 1)) /\ kept
          [] b = "R2" -> MoveTo(Stepped(1, Page)) /\ kept
          [] b = "L2" -> MoveTo(Stepped(-1, Page)) /\ kept
          [] b = "right" /\ OnGenreRow -> EnterGenre /\ kept
          [] b = "left" /\ genre # None -> LeaveGenre /\ UNCHANGED focus /\ kept
          [] b = "Y" -> OpenSearch /\ kept
          [] b = "START" -> StartSettings /\ kept
          [] b = "A" -> Launch
          [] OTHER -> Nothing /\ kept

-----------------------------------------------------------------------------
(* run(): B unwinds one level at a time. *)

LeaveSettings ==
    /\ tab = "settings"
    /\ OnList
    /\ tab' = "home" /\ UNCHANGED <<genre, letter, query>>
    /\ focus' = "tabs"
    /\ Rebuild(None, "all", top)

LeaveSearch ==
    /\ query # <<>>
    /\ UNCHANGED <<focus>> /\ OnList
    /\ query' = <<>> /\ UNCHANGED <<tab, genre, letter>>
    /\ Rebuild(Title(sel), "all", top)

LeaveScreen ==
    /\ query = <<>>
    /\ stopped' = TRUE
    /\ UNCHANGED <<viewVars, listVars, focus, searchVars, dataVars>>

Back ==
    IF tab = "settings" THEN LeaveSettings
    ELSE IF genre # None THEN LeaveGenre /\ UNCHANGED focus
    ELSE LeaveSearch \/ LeaveScreen

OnScreen(b) ==
    CASE b = "B" -> Back /\ UNCHANGED workVars
      [] b = "R1" -> TabStep(1) /\ UNCHANGED workVars
      [] b = "L1" -> TabStep(-1) /\ UNCHANGED workVars
      [] b \notin {"B", "R1", "L1"} /\ focus = "tabs" -> TabsHandle(b) /\ UNCHANGED workVars
      [] b \notin {"B", "R1", "L1"} /\ focus = "strip" -> StripHandle(b) /\ UNCHANGED workVars
      [] OTHER -> IF tab = "settings" THEN PageHandle(b) /\ UNCHANGED workVars
                  ELSE ListHandle(b)

Buttons == {"up", "down", "left", "right", "A", "B", "X", "Y", "START", "L1", "R1", "L2", "R2"}

-----------------------------------------------------------------------------
(* handle_search(): A types, B deletes or closes, START and Y close.  Where   *)
(* the search was opened from is forgotten then: the next one sets it.        *)

TypedBy(presses) == IF "A" \in presses THEN {q \in Queries : q # <<>> /\ Front(q) = query}
                    ELSE {}

(* What the picker leaves of the list: a new result set; on closing, the     *)
(* list it came from, or the result that is lit.                             *)
SearchList(changes, closes) ==
    \/ changes /\ ~closes /\ Rebuild(None, "all", top)
    \/ closes /\ query' = <<>> /\ Rebuild(searchFrom, searchSec, top)
    \/ /\ closes /\ query' # <<>>
       /\ UNCHANGED <<rows, sel>> /\ top' = VisibleFrom(rows, Height', top, sel)
       /\ loose' = IF query' # query THEN loose \cup {"query"} ELSE loose
    \/ ~changes /\ ~closes /\ UNCHANGED listVars

Search(presses) ==
    \E typed \in IF TypedBy(presses) = {} THEN {query} ELSE TypedBy(presses) :
        LET closes == \/ {"START", "Y"} \cap presses # {}
                      \/ "B" \in presses /\ typed = <<>>
            changes == typed # query \/ "B" \in presses
        IN  /\ query' = IF "B" \in presses /\ typed # <<>> THEN Front(typed) ELSE typed
            /\ search' = ~closes
            /\ searchFrom' = (IF closes THEN None ELSE searchFrom)
            /\ searchSec' = (IF closes THEN "all" ELSE searchSec)
            /\ UNCHANGED <<tab, genre, letter, focus, dataVars, workVars, stopped>>
            /\ SearchList(changes, closes)

Input ==
    /\ pc = "input" /\ Running
    /\ pc' = "pump"
    /\ \/ \E b \in Buttons : ~search /\ OnScreen(b)
       \/ search /\ \E presses \in SUBSET {"A", "B", "START", "Y"} :
                        Cardinality(presses) \in 1 .. 2 /\ Search(presses)
       \/ Nothing /\ UNCHANGED workVars

Left == ~Running /\ UNCHANGED vars

Next == Work \/ Pump \/ RefreshCrashes \/ Input \/ LaunchCrashes \/ Left

Spec == Init /\ [][Next]_vars

-----------------------------------------------------------------------------
(* Properties. *)

(* The rows the cursor walks are those of the tab, genre, letter and query  *)
(* in force, whatever arrived or was launched meanwhile; but for a letter   *)
(* typed in the very turn that closes the search (library.cpp:2263).        *)
RowsShowModel == "query" \notin loose => rows = BuiltRows

(* The cursor is on something that can be opened, and is off the list only  *)
(* when there is nothing to open; but for consoles that arrived under it    *)
(* (library.cpp:967).                                                       *)
CursorOnEntry ==
    "consoles" \notin loose =>
        IF sel = 0 THEN Openable(rows) = {} ELSE sel \in Openable(rows)

(* The row under the cursor is on the screen, with strips and the search    *)
(* picker coming and going.                                                 *)
CursorVisible ==
    loose = {} /\ sel # 0 => top <= sel /\ (top = sel \/ Fits(rows, Height, top, sel))

Shown(t) == \E i \in DOMAIN rows : Title(i) = t

(* Names that arrive re-sort the list and leave the cursor on its title.    *)
NamesKeepSelection ==
    [][\A t \in Titles : named' # named /\ Title(sel) = t /\ Shown(t)' => Title(sel)' = t]_vars

(* "a search abandoned empty comes back here rather than to the top of the  *)
(* list" (library.cpp:2176), though the list may have changed meanwhile.    *)
SearchReturns ==
    [][\A t \in Titles : search /\ ~search' /\ query' = <<>> /\ searchFrom = t /\ Shown(t)'
        => Title(sel)' = t]_vars
=============================================================================
