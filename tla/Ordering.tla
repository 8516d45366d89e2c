------------------------------ MODULE Ordering ------------------------------
(* Sets as sequences and parts of sequences, in an order.                   *)
EXTENDS Integers, Sequences, FiniteSets

(* The members of a finite set, each before those it is paired with.        *)
Ordered(S, before) ==
    CHOOSE s \in [1 .. Cardinality(S) -> S] :
        \A i, j \in DOMAIN s : i < j => <<s[i], s[j]>> \in before

Ascending(S) == Ordered(S, {p \in S \X S : p[1] < p[2]})

(* What a sequence has at these places, in the sequence's order.            *)
Picked(s, places) == LET at == Ascending(places) IN [k \in DOMAIN at |-> s[at[k]]]
=============================================================================
