--------------------------- MODULE MCVideoJitter ---------------------------
(* Streams for model-checking VideoJitter.  Timestamps count modulo 8 and  *)
(* start at 6, sequence numbers modulo 16 and start at 14, so both wrap     *)
(* inside every stream.                                                     *)
EXTENDS VideoJitter

MCTsMod == 8
MCSeqMod == 16

P(n, frame, head, marker, idr) ==
    [seq |-> (14 + n) % MCSeqMod, ts |-> (6 + frame) % MCTsMod,
     head |-> head, marker |-> marker, idr |-> idr, padding |-> FALSE]

Padding(n, frame) ==
    [seq |-> (14 + n) % MCSeqMod, ts |-> (6 + frame) % MCTsMod,
     head |-> FALSE, marker |-> FALSE, idr |-> FALSE, padding |-> TRUE]

(* An SPS/PPS packet and an IDR of two fragments behind it, so that the     *)
(* frame can be taken for whole without the first; a P-frame of two         *)
(* fragments, a bandwidth probe, a P-frame of one packet, an IDR of two.    *)
FragmentStream ==
    { P(0, 0, TRUE, FALSE, FALSE), P(1, 0, TRUE, FALSE, TRUE), P(2, 0, FALSE, TRUE, TRUE),
      P(3, 1, TRUE, FALSE, FALSE), P(4, 1, FALSE, TRUE, FALSE),
      Padding(5, 1),
      P(6, 2, TRUE, TRUE, FALSE),
      P(7, 3, TRUE, FALSE, TRUE),  P(8, 3, FALSE, TRUE, TRUE) }
=============================================================================
