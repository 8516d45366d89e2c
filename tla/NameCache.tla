----------------------------- MODULE NameCache -----------------------------
(***************************************************************************)
(* The names, art addresses and genres of the catalogue: NameResolver and  *)
(* names.json (src/src/app/library_data.cpp), the Store's answers          *)
(* (fetch_names, src/src/gnx/catalog.cpp) and the loading screen that      *)
(* waits for them (src/src/app/library.cpp).                               *)
(*                                                                         *)
(* Several launches in a row: the process may quit or be killed at any     *)
(* step and what survives is the file.  A day is a step of its own.        *)
(***************************************************************************)
EXTENDS Integers, Sequences, FiniteSets, SequencesExt, FiniteSetsExt

CONSTANTS
    Titles,       \* titles with a Store product
    Absent,
    BatchMax,     \* titles in one request (20)
    Budget,       \* kRefreshPerLaunch
    RefreshAge,   \* kRefreshAgeDays
    MissRetry     \* kMissRetryDays

MaxAge == IF RefreshAge > MissRetry THEN RefreshAge ELSE MissRetry

(* genre "none": the entry was written before genres were.                   *)
Entry == [miss : BOOLEAN, genre : {"none", "blank", "known"}, age : 0 .. MaxAge]

NamesAssumption ==
    /\ IsFiniteSet(Titles)
    /\ BatchMax \in Nat \ {0} /\ Budget \in Nat
    /\ RefreshAge \in Nat \ {0} /\ MissRetry \in Nat \ {0}
    /\ Absent \notin Entry

VARIABLES
    file,       \* names.json
    cache,      \* cache_
    stale,      \* stale_
    asked,      \* asked_
    jobs,       \* jobs_
    batch,      \* what the worker has in flight
    got, threw, \* the answer: who was named, and whether fetch_names threw
    wpc,        \* the worker: "idle", "checked" (its predicate was false and
                \* the mutex is still held), "blocked", "fetch", "record",
                \* "save", "done"
    done,       \* done_: titles of finished stubs that were named
    pending,    \* pending_
    owed,       \* queued under the lock and not added to pending_ yet
    quit,       \* quit_
    screen,     \* the main thread: "off", "asking", "waiting", "list"
    named, genred,   \* games on screen with a name, with a genre
    failed      \* history: titles whose last lookup threw

diskVars == <<file, failed>>
workVars == <<batch, got, threw, wpc>>
askVars == <<asked, jobs, pending, owed>>
cacheVars == <<cache, stale>>
mainVars == <<screen, named, genred>>
vars == <<diskVars, workVars, askVars, cacheVars, mainVars, done, quit>>

Entries == [Titles -> Entry \cup {Absent}]
Nothing == [t \in Titles |-> Absent]

TypeOK ==
    /\ file \in Entries /\ cache \in Entries
    /\ stale \subseteq Titles /\ asked \subseteq Titles
    /\ jobs \in Seq(Titles) /\ batch \in Seq(Titles) /\ Len(batch) <= BatchMax
    /\ got \subseteq Titles /\ threw \in BOOLEAN
    /\ wpc \in {"idle", "checked", "blocked", "fetch", "record", "save", "done"}
    /\ done \subseteq Titles
    /\ pending \in Int /\ owed \in Nat /\ quit \in BOOLEAN
    /\ screen \in {"off", "asking", "waiting", "list"}
    /\ named \subseteq Titles /\ genred \subseteq Titles
    /\ failed \subseteq Titles
    /\ stale \subseteq {t \in Titles : cache[t] # Absent}

(* An old installation: files of any age, of before genres and after.       *)
Old == {Absent} \cup [miss : {FALSE}, genre : {"none", "known"}, age : {0, MaxAge}]
              \cup [miss : {TRUE}, genre : {"blank"}, age : {MaxAge}]

Off ==
    /\ cache' = Nothing /\ stale' = {}
    /\ asked' = {} /\ jobs' = <<>> /\ pending' = 0 /\ owed' = 0
    /\ batch' = <<>> /\ got' = {} /\ threw' = FALSE /\ wpc' = "done"
    /\ done' = {} /\ quit' = FALSE
    /\ screen' = "off" /\ named' = {} /\ genred' = {}

Init ==
    /\ file \in [Titles -> Old] /\ failed = {}
    /\ cache = Nothing /\ stale = {}
    /\ asked = {} /\ jobs = <<>> /\ pending = 0 /\ owed = 0
    /\ batch = <<>> /\ got = {} /\ threw = FALSE /\ wpc = "done"
    /\ done = {} /\ quit = FALSE
    /\ screen = "off" /\ named = {} /\ genred = {}

-----------------------------------------------------------------------------
(* The main thread. *)

(* The constructor: load(), the worker, apply_cached().                      *)
Hits(entries) == {t \in Titles : entries[t] # Absent /\ ~entries[t].miss}

Launch ==
    /\ screen = "off"
    /\ screen' = "asking"
    /\ cache' = [t \in Titles |->
           IF t \in Hits(file) /\ file[t].genre = "none"
           THEN [file[t] EXCEPT !.genre = "blank"] ELSE file[t]]
    /\ stale' = {t \in Titles : file[t] # Absent /\ file[t].genre = "none"}
    /\ wpc' = "idle"
    /\ named' = Hits(file)
    /\ genred' = {t \in Hits(file) : file[t].genre = "known"}
    /\ UNCHANGED <<diskVars, askVars, batch, got, threw, done, quit>>

(* The worker holds the mutex between its predicate and its sleep.           *)
Unlocked == wpc # "checked"

Enqueue(wanted) ==
    /\ asked' = asked \cup wanted
    /\ jobs' = jobs \o SetToSeq(wanted)
    /\ owed' = Cardinality(wanted)

(* request(): everything without a name, or from before genres. *)
Wanted ==
    {t \in Titles \ asked :
        /\ ~(cache[t] # Absent /\ cache[t].miss /\ cache[t].age < MissRetry)
        /\ t \notin named \/ t \in stale}

Request ==
    /\ screen = "asking" /\ Unlocked
    /\ Enqueue(Wanted)
    /\ screen' = "waiting"
    /\ UNCHANGED <<diskVars, workVars, cacheVars, pending, done, quit, named, genred>>

(* pending_ grows after the unlock, and a sleeping worker is told.           *)
CountAndNotify ==
    /\ owed > 0
    /\ pending' = pending + owed /\ owed' = 0
    /\ wpc' = IF wpc = "blocked" THEN "idle" ELSE wpc
    /\ UNCHANGED <<diskVars, cacheVars, mainVars, asked, jobs, batch, got, threw, done, quit>>

(* wait_for_names() ends when nothing is pending or with B; then             *)
(* request_refresh(): the entries that have aged.                            *)
Aged == {t \in Titles \ asked : cache[t] # Absent /\ cache[t].age >= RefreshAge}

LoadingEnds ==
    /\ screen = "waiting" /\ owed = 0 /\ Unlocked
    /\ screen' = "list"
    /\ \E slice \in kSubset(IF Cardinality(Aged) < Budget THEN Cardinality(Aged) ELSE Budget, Aged) :
           Enqueue(slice)
    /\ UNCHANGED <<diskVars, workVars, cacheVars, pending, done, quit, named, genred>>

(* pump(): finished lookups into the games on screen. *)
Pump ==
    /\ screen \in {"waiting", "list"} /\ owed = 0 /\ Unlocked
    /\ done # {}
    /\ done' = {}
    /\ LET fresh == {t \in done : t \notin named \cap genred}
       IN  /\ named' = named \cup fresh
           /\ \E known \in SUBSET fresh : genred' = (genred \ fresh) \cup known
    /\ UNCHANGED <<diskVars, workVars, askVars, cacheVars, screen, quit>>

(* pump_refresh(): a new catalogue is named from the cache, then from the    *)
(* list it replaces, and what it brought asked for.                          *)
CatalogArrives ==
    /\ screen = "list" /\ owed = 0 /\ Unlocked
    /\ named' = Hits(cache) \cup named
    /\ genred' = {t \in Hits(cache) : cache[t].genre = "known"} \cup (genred \ Hits(cache))
    /\ Enqueue({t \in Wanted : t \notin named' \/ t \in stale})
    /\ UNCHANGED <<diskVars, workVars, cacheVars, pending, done, quit, screen>>

(* The destructor: quit_ without the mutex, notify, join.                    *)
Quit ==
    /\ screen \in {"waiting", "list"} /\ owed = 0 /\ ~quit
    /\ quit' = TRUE
    /\ wpc' = IF wpc = "blocked" THEN "idle" ELSE wpc
    /\ UNCHANGED <<diskVars, askVars, cacheVars, mainVars, batch, got, threw, done>>

Joined ==
    /\ quit /\ wpc = "done"
    /\ Off
    /\ UNCHANGED diskVars

Killed ==
    /\ screen # "off"
    /\ Off
    /\ UNCHANGED diskVars

-----------------------------------------------------------------------------
(* The worker. *)

(* The predicate is evaluated under the mutex.  *)
Check ==
    /\ wpc = "idle"
    /\ IF quit THEN wpc' = "done" /\ UNCHANGED <<jobs, batch>>
       ELSE IF jobs = <<>> THEN wpc' = "checked" /\ UNCHANGED <<jobs, batch>>
       ELSE LET n == IF Len(jobs) < BatchMax THEN Len(jobs) ELSE BatchMax
            IN  /\ batch' = SubSeq(jobs, 1, n)
                /\ jobs' = SubSeq(jobs, n + 1, Len(jobs))
                /\ wpc' = "fetch"
    /\ UNCHANGED <<diskVars, cacheVars, mainVars, asked, pending, owed, got, threw, done, quit>>

Sleep ==
    /\ wpc = "checked"
    /\ wpc' = "blocked"
    /\ UNCHANGED <<diskVars, cacheVars, mainVars, askVars, batch, got, threw, done, quit>>

(* fetch_names(): a refused request names nobody, a malformed answer or a    *)
(* dead network throws.                                                      *)
Fetch ==
    /\ wpc = "fetch"
    /\ wpc' = "record"
    /\ got' \in SUBSET ToSet(batch) /\ threw' \in BOOLEAN
    /\ UNCHANGED <<diskVars, cacheVars, mainVars, askVars, batch, done, quit>>

(* Every title of the batch gets an entry, a name or a miss.                 *)
Recorded(genres) ==
    [t \in Titles |->
        IF t \notin ToSet(batch) THEN cache[t]
        ELSE IF t \in got
        THEN [miss |-> FALSE, genre |-> IF t \in genres THEN "known" ELSE "blank", age |-> 0]
        ELSE [miss |-> TRUE, genre |-> "blank", age |-> 0]]

(* Mutant: a batch that threw is left as it is. *)
RecordUnlessThrown ==
    /\ wpc = "record"
    /\ \E genres \in SUBSET got : cache' = IF threw THEN cache ELSE Recorded(genres)
    /\ stale' = IF threw THEN stale ELSE stale \ ToSet(batch)
    /\ done' = IF threw THEN done ELSE done \cup got
    /\ pending' = IF threw THEN pending ELSE pending - Len(batch)
    /\ batch' = <<>> /\ got' = {} /\ threw' = FALSE
    /\ wpc' = "save"
    /\ UNCHANGED <<diskVars, mainVars, asked, jobs, owed, quit>>

Record ==
    /\ wpc = "record"
    /\ \E genres \in SUBSET got : cache' = Recorded(genres)
    /\ stale' = stale \ ToSet(batch)
    /\ done' = done \cup got
    /\ failed' = (failed \ ToSet(batch)) \cup (IF threw THEN ToSet(batch) \ got ELSE {})
    /\ pending' = pending - Len(batch)
    /\ batch' = <<>> /\ got' = {} /\ threw' = FALSE
    /\ wpc' = "save"
    /\ UNCHANGED <<file, mainVars, asked, jobs, owed, quit>>

(* save(): the rename publishes the snapshot, or a write that failed leaves  *)
(* the old file, or, failing at close, publishes one that does not parse.    *)
Save ==
    /\ wpc = "save"
    /\ wpc' = IF quit THEN "done" ELSE "idle"
    /\ file' \in {cache, file, Nothing}
    /\ UNCHANGED <<failed, cacheVars, mainVars, askVars, batch, got, threw, done, quit>>

Day ==
    /\ screen = "off"
    /\ file' = [t \in Titles |-> IF file[t] = Absent \/ file[t].age = MaxAge THEN file[t]
                                 ELSE [file[t] EXCEPT !.age = @ + 1]]
    /\ UNCHANGED <<failed, workVars, askVars, cacheVars, mainVars, done, quit>>

Next ==
    \/ Launch \/ Request \/ CountAndNotify \/ LoadingEnds \/ Pump \/ CatalogArrives
    \/ Quit \/ Joined \/ Killed
    \/ Check \/ Sleep \/ Fetch \/ Record \/ Save \/ Day

Spec == Init /\ [][Next]_vars

-----------------------------------------------------------------------------
(* Properties. *)

(* The loading screen counts what is queued and in flight, no more and no    *)
(* less, whatever the network answers and however the counter's update       *)
(* outside the lock races the worker: it neither waits forever nor ends      *)
(* early, and no title is looked up twice.                                   *)
LookupsAccounted ==
    /\ pending + owed = Len(jobs) + Len(batch)
    /\ \A i, j \in DOMAIN (jobs \o batch) : (jobs \o batch)[i] = (jobs \o batch)[j] => i = j

(* library_data.cpp:543-545: when a lookup throws, "the batch goes back      *)
(* unnamed and is not retried this session, so a dead network does not loop; *)
(* the next launch asks again."                                              *)
NextLaunchAsks == screen \in {"waiting", "list"} => failed \subseteq asked
=============================================================================
