------------------------------ MODULE ArtCache ------------------------------
(***************************************************************************)
(* The pictures beside the titles: Thumbs (src/src/app/thumbs.cpp).  The   *)
(* main thread asks for what it paints and takes what is finished; the     *)
(* worker reads a picture from the card or downloads it, and decodes it.   *)
(*                                                                         *)
(* A picture is one unit of memory, and a cached one is the number of      *)
(* repaints since it was last drawn.  The pictures on disk outlive the     *)
(* process.                                                                *)
(***************************************************************************)
EXTENDS Integers, Sequences, FiniteSets, SequencesExt, FiniteSetsExt

CONSTANTS
    Keys,       \* product ids
    Absent,     \* not in the cache
    Miss,       \* the Thumb of no size that stands for a failure
    MaxQueue,   \* kMaxQueue
    Cap,        \* the memory budget, in pictures
    Kept,       \* nine tenths of it
    MaxIdle     \* repaints are counted up to here

ArtAssumption ==
    /\ MaxQueue \in Nat \ {0} /\ Cap \in Nat /\ Kept \in 0 .. Cap
    /\ MaxIdle \in Nat \ {0}
    /\ IsFiniteSet(Keys) /\ Absent \notin Keys
    /\ Absent # Miss /\ Absent \notin 0 .. MaxIdle /\ Miss \notin 0 .. MaxIdle

VARIABLES
    disk,      \* art/<key>.jpg: "good", "bad" or "none"
    thumbs,    \* cache_: the repaints since last_use
    bytes,     \* bytes_
    jobs,      \* jobs_, the newest first
    wanted,    \* pending_
    busy,      \* the worker's job, Absent when it has none
    read,      \* what its file held; "net" once it was downloaded
    finished,  \* done_
    quit       \* quit_

mainVars == <<thumbs, bytes>>
workVars == <<busy, read>>
vars == <<disk, mainVars, jobs, wanted, workVars, finished, quit>>

(* What decode_image() tells apart in a file, and no file. *)
Pictures == {"good", "bad", "none"}

TypeOK ==
    /\ disk \in [Keys -> Pictures]
    /\ thumbs \in [Keys -> 0 .. MaxIdle \cup {Absent, Miss}]
    /\ bytes \in Nat
    /\ jobs \in Seq(Keys) /\ Len(jobs) <= MaxQueue
    /\ wanted \subseteq Keys
    /\ busy \in Keys \cup {Absent} /\ read \in Pictures
    /\ finished \in Seq([key : Keys, ok : BOOLEAN])
    /\ quit \in BOOLEAN

Start ==
    /\ thumbs = [k \in Keys |-> Absent] /\ bytes = 0
    /\ jobs = <<>> /\ wanted = {} /\ finished = <<>>
    /\ busy = Absent /\ read = "none" /\ quit = FALSE

Init == disk \in [Keys -> Pictures] /\ Start

-----------------------------------------------------------------------------
(* The main thread. *)

(* tick(), once per repaint. *)
Tick ==
    /\ ~quit
    /\ thumbs' = [k \in Keys |-> IF thumbs[k] \in 0 .. MaxIdle - 1 THEN thumbs[k] + 1
                                 ELSE thumbs[k]]
    /\ UNCHANGED <<disk, bytes, jobs, wanted, workVars, finished, quit>>

(* Mutant: the request dropped off the end stays pending. *)
QueuedForgets(k) ==
    LET all == <<k>> \o jobs
    IN  /\ jobs' = IF Len(all) > MaxQueue THEN Front(all) ELSE all
        /\ wanted' = wanted \cup {k}

(* The newest request goes first, and one too many drops the oldest.        *)
Queued(k) ==
    LET all == <<k>> \o jobs
    IN  IF Len(all) > MaxQueue
        THEN jobs' = Front(all) /\ wanted' = (wanted \cup {k}) \ {Last(all)}
        ELSE jobs' = all /\ wanted' = wanted \cup {k}

(* get() of a picture being painted. *)
Get(k) ==
    /\ ~quit
    /\ IF thumbs[k] # Absent
       THEN /\ thumbs' = [thumbs EXCEPT ![k] = IF @ = Miss THEN Miss ELSE 0]
            /\ UNCHANGED <<jobs, wanted>>
       ELSE /\ k \notin wanted
            /\ Queued(k)
            /\ UNCHANGED thumbs
    /\ UNCHANGED <<disk, bytes, workVars, finished, quit>>

(* evict(): the least recently drawn first, nothing drawn in this repaint.  *)
Held(cache) == {k \in Keys : cache[k] \in 0 .. MaxIdle}

Evictions(cache, size) ==
    LET old == {k \in Held(cache) : cache[k] > 0}
        n == IF size - Kept < Cardinality(old) THEN size - Kept ELSE Cardinality(old)
    IN  {gone \in kSubset(n, old) : \A k \in gone : \A l \in old \ gone : cache[k] >= cache[l]}

(* pump(). *)
Pump ==
    /\ ~quit /\ finished # <<>>
    /\ LET ok == {d.key : d \in {e \in ToSet(finished) : e.ok}}
           arrived == [k \in Keys |->
               IF k \in ok THEN 0
               ELSE IF k \in {d.key : d \in ToSet(finished)} THEN Miss ELSE thumbs[k]]
           size == bytes + Cardinality(ok)
       IN  IF size > Cap
           THEN \E gone \in Evictions(arrived, size) :
                    /\ thumbs' = [k \in Keys |-> IF k \in gone THEN Absent ELSE arrived[k]]
                    /\ bytes' = size - Cardinality(gone)
           ELSE thumbs' = arrived /\ bytes' = size
    /\ wanted' = wanted \ {d.key : d \in ToSet(finished)}
    /\ finished' = <<>>
    /\ UNCHANGED <<disk, jobs, workVars, quit>>

Quit ==
    /\ ~quit
    /\ quit' = TRUE
    /\ UNCHANGED <<disk, mainVars, jobs, wanted, workVars, finished>>

(* The process is gone, by the join or by a kill, and starts again.         *)
Relaunch ==
    /\ disk' = disk
    /\ thumbs' = [k \in Keys |-> Absent] /\ bytes' = 0
    /\ jobs' = <<>> /\ wanted' = {} /\ finished' = <<>>
    /\ busy' = Absent /\ read' = "none" /\ quit' = FALSE

-----------------------------------------------------------------------------
(* The worker. *)
Take ==
    /\ busy = Absent /\ jobs # <<>> /\ ~quit
    /\ busy' = Head(jobs) /\ jobs' = Tail(jobs)
    /\ read' = disk[Head(jobs)]
    /\ UNCHANGED <<disk, mainVars, wanted, finished, quit>>

Finish(ok) ==
    /\ finished' = Append(finished, [key |-> busy, ok |-> ok])
    /\ busy' = Absent /\ read' = "none"
    /\ UNCHANGED <<mainVars, jobs, wanted, quit>>

FromDisk ==
    /\ busy # Absent /\ read = "good"
    /\ Finish(TRUE)
    /\ disk' = disk

(* A file that does not decode is removed; it is downloaded when next asked  *)
(* for, which is not before the next launch.                                 *)
Undecodable ==
    /\ busy # Absent /\ read = "bad"
    /\ Finish(FALSE)
    /\ disk' = [disk EXCEPT ![busy] = "none"]

(* The download fails, or what came is no picture; or it is one, and         *)
(* write_file() keeps it, does not, or publishes a file cut short.           *)
Download ==
    /\ busy # Absent /\ read = "none"
    /\ \/ Finish(FALSE) /\ disk' = disk
       \/ /\ Finish(TRUE)
          /\ \E kept \in Pictures : disk' = [disk EXCEPT ![busy] = kept]

Next ==
    \/ Tick \/ (\E k \in Keys : Get(k)) \/ Pump \/ Quit \/ Relaunch
    \/ Take \/ FromDisk \/ Undecodable \/ Download

Spec == Init /\ [][Next]_vars

-----------------------------------------------------------------------------
(* Properties. *)

(* A picture asked for is queued, being fetched or finished, and in one of   *)
(* these places only: one dropped from a full queue can be asked for again,  *)
(* none is fetched twice, and the memory the pictures take is what bytes_    *)
(* says, so the budget is not evaded or drained by a miscount.               *)
ArtAccounted ==
    LET places == jobs \o (IF busy = Absent THEN <<>> ELSE <<busy>>)
                       \o [i \in DOMAIN finished |-> finished[i].key]
    IN  /\ wanted = ToSet(places)
        /\ IsInjective(places)
        /\ \A k \in wanted : thumbs[k] = Absent
        /\ bytes = Cardinality(Held(thumbs))
=============================================================================
