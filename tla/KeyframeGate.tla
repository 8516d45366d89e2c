---------------------------- MODULE KeyframeGate ----------------------------
(***************************************************************************)
(* What the jitter buffer promises the decoder, whatever the network does: *)
(* access units are fed in strictly ascending timestamp order, and once    *)
(* anything has been lost nothing is fed until an IDR rebuilds the         *)
(* reference chain (src/src/media/video_jitter.hpp:22-26).                 *)
(* VideoJitter implements this specification.                              *)
(***************************************************************************)
EXTENDS Sequences

CONSTANTS Stamps,        \* the timestamps of the stream
          None,          \* "no timestamp yet"
          Newer(_, _)    \* serial-number order on timestamps

VARIABLES last,  \* newest timestamp consumed, or None
          open,  \* FALSE while only an IDR may be fed
          fed    \* access units fed to the decoder since the last Restart

gateVars == <<last, open, fed>>

AccessUnit == [ts : Stamps, idr : BOOLEAN]

Fresh(t) == last # None => Newer(t, last)

Init ==
    /\ last = None
    /\ open = FALSE
    /\ fed = <<>>

(* The unit is newer than everything consumed; a closed gate passes only an IDR. *)
Feed(au) ==
    /\ Fresh(au.ts)
    /\ open \/ au.idr
    /\ fed' = Append(fed, au)
    /\ last' = au.ts
    /\ open' = TRUE

(* A frame is consumed without being fed: from here on only an IDR passes. *)
Lose(t) ==
    /\ Fresh(t)
    /\ last' = t
    /\ open' = FALSE
    /\ UNCHANGED fed

(* A fresh transport, or the engine giving up on the stream so far. *)
Restart ==
    /\ last' = None
    /\ open' = FALSE
    /\ fed' = <<>>

Next ==
    \/ \E au \in AccessUnit : Feed(au)
    \/ \E t \in Stamps : Lose(t)
    \/ Restart

Spec == Init /\ [][Next]_gateVars
=============================================================================
