--------------------------- MODULE AudioPathProofs ---------------------------
(* Theorems about AudioPath, for every width of the sequence number, bound  *)
(* on the queues, gap, card and latency.                                    *)
EXTENDS AudioPath, WellFoundedInduction, FiniteSetTheorems, SequenceTheorems, TLAPS

-----------------------------------------------------------------------------
(* Induction and recursion over the naturals, in a form without an operator *)
(* for a parameter: what is proved is a set, what recurs is a function.     *)

LEMMA Induction ==
    ASSUME NEW T, 0 \in T, \A n \in Nat : n \in T => n + 1 \in T
    PROVE  Nat \subseteq T
<1> DEFINE R == OpToRel(<, Nat)
           U == Nat \ T
<1>1. IsWellFoundedOn(R, Nat)
  BY NatLessThanWellFounded
<1>2. \A i, j \in Nat : i < j => <<i, j>> \in R
  BY DEF OpToRel
<1>3. U \subseteq Nat
  OBVIOUS
<1>4. ASSUME U # {} PROVE FALSE
  <2> HIDE DEF R, U
  <2>1. PICK x \in U : \A y \in U : ~ (<<y, x>> \in R)
    BY <1>1, <1>3, <1>4, WFMin
  <2>2. x # 0 /\ x - 1 \in Nat /\ x - 1 < x /\ (x - 1) + 1 = x
    BY <2>1, <1>3 DEF U
  <2>3. x - 1 \in T
    BY <1>2, <1>3, <2>1, <2>2 DEF U
  <2> QED
    BY <2>1, <2>2, <2>3 DEF U
<1> QED
  BY <1>4

LEMMA LeastOf ==
    ASSUME NEW T, T \subseteq Nat, T # {}
    PROVE  \E x \in T : \A y \in T : x <= y
<1> DEFINE R == OpToRel(<, Nat)
<1>1. IsWellFoundedOn(R, Nat)
  BY NatLessThanWellFounded
<1>2. \A i, j \in Nat : i < j => <<i, j>> \in R
  BY DEF OpToRel
<1> HIDE DEF R
<1>3. PICK x \in T : \A y \in T : ~ (<<y, x>> \in R)
  BY <1>1, WFMin
<1>4. \A y \in T : x \in Nat /\ y \in Nat /\ ~ (y < x)
  BY <1>2, <1>3
<1> QED
  BY <1>4

(* Taking some number of steps from c, each of them within B, stays within  *)
(* B: a function that says so exists.                                       *)
LEMMA Recursion ==
    ASSUME NEW B, NEW c \in B, NEW N \in Nat, NEW step \in [1 .. N -> [B -> B]]
    PROVE  \E g \in [0 .. N -> B] :
               g[0] = c /\ \A n \in 1 .. N : g[n] = step[n][g[n - 1]]
<1> DEFINE Until(g, m) == g[0] = c /\ \A n \in 1 .. m : g[n] = step[n][g[n - 1]]
           T == {m \in Nat : m <= N => \E g \in [0 .. m -> B] : Until(g, m)}
<1>1. 0 \in T
  <2>1. [n \in 0 .. 0 |-> c] \in [0 .. 0 -> B]
    OBVIOUS
  <2>2. Until([n \in 0 .. 0 |-> c], 0)
    OBVIOUS
  <2> QED
    BY <2>1, <2>2
<1>2. ASSUME NEW m \in Nat, m \in T
      PROVE  m + 1 \in T
  <2> SUFFICES ASSUME m + 1 <= N
               PROVE  \E g \in [0 .. m + 1 -> B] : Until(g, m + 1)
    BY <1>2
  <2>1. PICK g \in [0 .. m -> B] : Until(g, m)
    BY <1>2
  <2> DEFINE new == step[m + 1][g[m]]
             h == [n \in 0 .. m + 1 |-> IF n = m + 1 THEN new ELSE g[n]]
  <2>2. new \in B
    BY <2>1
  <2>3. h \in [0 .. m + 1 -> B]
    BY <2>1, <2>2
  <2>4. h[0] = c
    BY <2>1
  <2>5. ASSUME NEW n \in 1 .. m + 1
        PROVE  h[n] = step[n][h[n - 1]]
    <3>1. CASE n = m + 1
      <4>1. n - 1 = m /\ m \in 0 .. m + 1 /\ m # m + 1 /\ n \in 0 .. m + 1
        BY <3>1
      <4>2. h[n] = new /\ h[n - 1] = g[m]
        BY <3>1, <4>1
      <4> QED
        BY <3>1, <4>2
    <3>2. CASE n # m + 1
      <4>1. n \in 1 .. m /\ n - 1 \in 0 .. m /\ n \in 0 .. m
        BY <3>2
      <4>2. h[n] = g[n] /\ h[n - 1] = g[n - 1]
        BY <4>1
      <4> QED
        BY <2>1, <4>1, <4>2
    <3> QED
      BY <3>1, <3>2
  <2> QED
    BY <2>3, <2>4, <2>5
<1> HIDE DEF T
<1>3. Nat \subseteq T
  BY <1>1, <1>2, Induction
<1>4. N \in T
  BY <1>3
<1> QED
  BY <1>4 DEF T

(* What a step of a sequence keeps holds all along it.                      *)
LEMMA StaysWithin ==
    ASSUME NEW B, NEW N \in Nat, NEW f, f[0] \in B,
           \A n \in 1 .. N : f[n - 1] \in B => f[n] \in B
    PROVE  \A n \in 0 .. N : f[n] \in B
<1> DEFINE T == {n \in Nat : n <= N => f[n] \in B}
<1>1. 0 \in T
  OBVIOUS
<1>2. ASSUME NEW n \in Nat, n \in T
      PROVE  n + 1 \in T
  <2> SUFFICES ASSUME n + 1 <= N PROVE f[n + 1] \in B
    OBVIOUS
  <2>1. n + 1 \in 1 .. N /\ (n + 1) - 1 = n /\ f[n] \in B
    BY <1>2
  <2> QED
    BY <2>1
<1> HIDE DEF T
<1>3. Nat \subseteq T
  BY <1>1, <1>2, Induction
<1> QED
  BY <1>3 DEF T

-----------------------------------------------------------------------------
(* Sequence numbers.                                                        *)

Numbers == 0 .. Serial - 1
Half == Serial \div 2

LEMMA HalfIs == AudioAssumption => Half \in Nat /\ 1 <= Half /\ 2 * Half <= Serial
  BY DEF AudioAssumption, Half

(* How far a number is ahead, without the remainder.                        *)
LEMMA DistanceIs ==
    ASSUME AudioAssumption, NEW a \in Numbers, NEW b \in Numbers
    PROVE  Distance(a, b) = IF a >= b THEN a - b ELSE a - b + Serial
  BY DEF AudioAssumption, Distance, Numbers

LEMMA NextNumber ==
    ASSUME AudioAssumption, NEW a \in Numbers
    PROVE  (a + 1) % Serial = IF a + 1 = Serial THEN 0 ELSE a + 1
  BY DEF AudioAssumption, Numbers

LEMMA BeforeIs ==
    ASSUME AudioAssumption, NEW a \in Numbers, NEW b \in Numbers
    PROVE  /\ Distance(a, b) \in 0 .. Serial - 1
           /\ Before(a, b) <=> Distance(a, b) >= Half
           /\ ~Before(a, a)
<1>1. Serial \in Nat /\ Half \in Nat /\ Half >= 1
  BY HalfIs DEF AudioAssumption
<1>2. Before(a, b) <=> Distance(a, b) >= Half
  BY DEF Before, Half
<1>3. Before(a, a) <=> Distance(a, a) >= Half
  BY DEF Before, Half
<1>4. Distance(a, a) = 0
  BY DistanceIs DEF Numbers
<1>5. Distance(a, b) \in 0 .. Serial - 1
  <2>1. a \in 0 .. Serial - 1 /\ b \in 0 .. Serial - 1
    BY DEF Numbers
  <2>2. CASE a >= b
    BY <1>1, <2>1, <2>2, DistanceIs
  <2>3. CASE ~ (a >= b)
    BY <1>1, <2>1, <2>3, DistanceIs
  <2> QED
    BY <2>2, <2>3
<1> QED
  BY <1>1, <1>2, <1>3, <1>4, <1>5

(* How far one number is ahead of another, both told from a third.          *)
LEMMA DistanceFrom ==
    ASSUME AudioAssumption, NEW a \in Numbers, NEW b \in Numbers, NEW c \in Numbers
    PROVE  Distance(a, b) = IF Distance(a, c) >= Distance(b, c)
                            THEN Distance(a, c) - Distance(b, c)
                            ELSE Distance(a, c) - Distance(b, c) + Serial
<1>1. /\ Serial \in Nat /\ a \in Nat /\ b \in Nat /\ c \in Nat
      /\ a < Serial /\ b < Serial /\ c < Serial
  BY DEF AudioAssumption, Numbers
<1>2. Distance(a, b) = IF a >= b THEN a - b ELSE a - b + Serial
  BY DistanceIs
<1>3. Distance(a, c) = IF a >= c THEN a - c ELSE a - c + Serial
  BY DistanceIs
<1>4. Distance(b, c) = IF b >= c THEN b - c ELSE b - c + Serial
  BY DistanceIs
<1>5. CASE a >= c /\ b >= c
  BY <1>1, <1>2, <1>3, <1>4, <1>5
<1>6. CASE a >= c /\ ~ (b >= c)
  BY <1>1, <1>2, <1>3, <1>4, <1>6
<1>7. CASE ~ (a >= c) /\ b >= c
  BY <1>1, <1>2, <1>3, <1>4, <1>7
<1>8. CASE ~ (a >= c) /\ ~ (b >= c)
  BY <1>1, <1>2, <1>3, <1>4, <1>8
<1> QED
  BY <1>5, <1>6, <1>7, <1>8

(* Different numbers are at different distances, and the next number is one *)
(* further, unless that is once round.                                      *)
LEMMA OneFurther ==
    ASSUME AudioAssumption, NEW a \in Numbers, NEW b \in Numbers, NEW c \in Numbers
    PROVE  /\ a # b => Distance(a, c) # Distance(b, c)
           /\ (a + 1) % Serial \in Numbers
           /\ Distance(a, c) + 1 < Serial => Distance((a + 1) % Serial, c) = Distance(a, c) + 1
<1>1. /\ Serial \in Nat /\ a \in Nat /\ b \in Nat /\ c \in Nat
      /\ a < Serial /\ b < Serial /\ c < Serial
  BY DEF AudioAssumption, Numbers
<1> DEFINE s == (a + 1) % Serial
<1>2. s = IF a + 1 = Serial THEN 0 ELSE a + 1
  BY NextNumber
<1>3. Distance(a, c) = IF a >= c THEN a - c ELSE a - c + Serial
  BY DistanceIs
<1>4. Distance(b, c) = IF b >= c THEN b - c ELSE b - c + Serial
  BY DistanceIs
<1>5. s \in Numbers
  BY <1>1, <1>2 DEF Numbers
<1>6. Distance(s, c) = IF s >= c THEN s - c ELSE s - c + Serial
  BY <1>5, DistanceIs
<1> HIDE DEF s
<1>7. a # b => Distance(a, c) # Distance(b, c)
  BY <1>1, <1>3, <1>4
<1>8. Distance(a, c) + 1 < Serial => Distance(s, c) = Distance(a, c) + 1
  <2>1. CASE a + 1 = Serial
    BY <1>1, <1>2, <1>3, <1>6, <2>1
  <2>2. CASE a + 1 # Serial
    BY <1>1, <1>2, <1>3, <1>6, <2>2
  <2> QED
    BY <2>1, <2>2
<1> QED
  BY <1>5, <1>7, <1>8 DEF s

-----------------------------------------------------------------------------
(* push().                                                                  *)

Distinct(q) == \A x, y \in q : x.seq = y.seq => x = y

Orders == [pending : SUBSET Packets, next : Numbers \cup {None}, of : 0 .. MaxEpoch]

(* The reorder buffer holds no number twice, and none it has gone past.     *)
Ahead(b) ==
    /\ IsFiniteSet(b.pending) /\ Distinct(b.pending)
    /\ b.next = None => b.pending = {}
    /\ \A p \in b.pending : ~Before(p.seq, b.next)

Orderly == {b \in Orders : Ahead(b)}

LEMMA PushStep ==
    ASSUME AudioAssumption, NEW b \in Orderly, NEW p \in Packets
    PROVE  /\ Push(b, p) \in Orderly
           /\ Push(b, p).next # None
           /\ Push(b, p).of = IF b.next = None THEN p.of ELSE b.of
<1> DEFINE first == IF b.next = None THEN [b EXCEPT !.next = p.seq, !.of = p.of] ELSE b
           more == [first EXCEPT !.pending = @ \cup {p}]
<1>1. /\ p.seq \in Numbers /\ p.of \in 0 .. MaxEpoch
      /\ None \notin Numbers
  BY DEF Packets, Numbers, AudioAssumption
<1>2. b \in Orders /\ Ahead(b)
  BY DEF Orderly
<1>3. /\ first \in Orders
      /\ first.pending = b.pending /\ first.next # None
      /\ first.of = IF b.next = None THEN p.of ELSE b.of
  BY <1>1, <1>2 DEF Orders
<1>4. Ahead(first)
  BY <1>2, <1>3 DEF Ahead
<1>5. CASE Before(p.seq, first.next) \/ \E q \in b.pending : q.seq = p.seq
  <2>1. Push(b, p) = first
    BY <1>5 DEF Push
  <2> QED
    BY <1>3, <1>4, <2>1 DEF Orderly
<1>6. CASE ~ (Before(p.seq, first.next) \/ \E q \in b.pending : q.seq = p.seq)
  <2>1. Push(b, p) = more
    BY <1>6 DEF Push
  <2> HIDE DEF first
  <2>2. /\ more \in Orders /\ more.pending = b.pending \cup {p}
        /\ more.next = first.next /\ more.of = first.of
    BY <1>3 DEF Orders
  <2>3. IsFiniteSet(b.pending \cup {p})
    BY <1>2, FS_AddElement DEF Ahead
  <2>4. Distinct(b.pending \cup {p})
    BY <1>2, <1>6 DEF Ahead, Distinct
  <2>5. \A q \in b.pending \cup {p} : ~Before(q.seq, first.next)
    BY <1>3, <1>4, <1>6 DEF Ahead
  <2>6. Ahead(more)
    BY <1>3, <2>2, <2>3, <2>4, <2>5 DEF Ahead
  <2> QED
    BY <1>3, <2>1, <2>2, <2>6 DEF Orderly
<1> QED
  BY <1>5, <1>6

Buffer == [pending |-> pending, next |-> next, of |-> of]

LEMMA PushedUpToIs ==
    ASSUME AudioAssumption, Buffer \in Orderly, batch \in Seq(Packets)
    PROVE  /\ PushedUpTo[0] = Buffer
           /\ \A n \in 1 .. Len(batch) :
                  PushedUpTo[n] = Push(PushedUpTo[n - 1], batch[n])
<1> DEFINE N == Len(batch)
           step == [n \in 1 .. N |-> [b \in Orderly |-> Push(b, batch[n])]]
           Means(f) == f = [n \in 0 .. N |-> IF n = 0 THEN Buffer ELSE Push(f[n - 1], batch[n])]
<1>1. N \in Nat /\ \A n \in 1 .. N : batch[n] \in Packets
  OBVIOUS
<1>2. step \in [1 .. N -> [Orderly -> Orderly]]
  BY <1>1, PushStep
<1>3. PICK g \in [0 .. N -> Orderly] :
          g[0] = Buffer /\ \A n \in 1 .. N : g[n] = step[n][g[n - 1]]
  <2>1. N \in Nat /\ Buffer \in Orderly
    BY <1>1
  <2> HIDE DEF step, N
  <2> QED
    BY ONLY <2>1, <1>2, Recursion
<1>4. \A n \in 1 .. N : g[n] = Push(g[n - 1], batch[n])
  <2> SUFFICES ASSUME NEW n \in 1 .. N
               PROVE  g[n] = Push(g[n - 1], batch[n])
    OBVIOUS
  <2>1. g[n - 1] \in Orderly
    BY <1>1
  <2> QED
    BY <1>3, <2>1
<1>5. Means(g)
  <2> DEFINE h == [n \in 0 .. N |-> IF n = 0 THEN Buffer ELSE Push(g[n - 1], batch[n])]
  <2>1. ASSUME NEW n \in 0 .. N
        PROVE  g[n] = h[n]
    <3>1. CASE n = 0
      BY <1>3, <3>1
    <3>2. CASE n # 0
      BY <1>1, <1>4, <3>2
    <3> QED
      BY <3>1, <3>2
  <2> QED
    BY <2>1
<1>6. PushedUpTo = CHOOSE f : Means(f)
  BY DEF PushedUpTo, Buffer
<1> HIDE DEF Means
<1>7. Means(PushedUpTo)
  BY <1>5, <1>6
<1> QED
  BY <1>1, <1>7 DEF Means

(* What is held after the pushes is in order.                               *)
LEMMA PushedIs ==
    ASSUME AudioAssumption, Buffer \in Orderly, batch \in Seq(Packets)
    PROVE  Pushed \in Orderly
<1> DEFINE N == Len(batch)
<1>1. N \in Nat /\ \A n \in 1 .. N : batch[n] \in Packets
  OBVIOUS
<1>2. /\ PushedUpTo[0] = Buffer
      /\ \A n \in 1 .. N : PushedUpTo[n] = Push(PushedUpTo[n - 1], batch[n])
  BY PushedUpToIs
<1>3. \A n \in 1 .. N : PushedUpTo[n - 1] \in Orderly => PushedUpTo[n] \in Orderly
  BY <1>1, <1>2, PushStep
<1>4. Pushed = PushedUpTo[N] /\ N \in 0 .. N
  BY <1>1 DEF Pushed
<1> HIDE DEF N
<1>5. \A n \in 0 .. N : PushedUpTo[n] \in Orderly
  BY <1>1, <1>2, <1>3, StaysWithin
<1> QED
  BY <1>4, <1>5

(* It waits for the source e if it did before, or waited for none yet, and  *)
(* if that is where everything taken came from.                             *)
LEMMA PushedOf ==
    ASSUME AudioAssumption, Buffer \in Orderly, batch \in Seq(Packets),
           NEW e, next # None => of = e, \A p \in ToSet(batch) : p.of = e
    PROVE  Pushed.next # None => Pushed.of = e
<1> DEFINE N == Len(batch)
           B == {b \in Orderly : b.next # None => b.of = e}
<1>1. /\ N \in Nat
      /\ \A n \in 1 .. N : batch[n] \in Packets /\ batch[n].of = e
  BY DEF ToSet
<1>2. /\ PushedUpTo[0] = Buffer
      /\ \A n \in 1 .. N : PushedUpTo[n] = Push(PushedUpTo[n - 1], batch[n])
  BY PushedUpToIs
<1>3. PushedUpTo[0] \in B
  BY <1>2 DEF Buffer
<1>4. ASSUME NEW n \in 1 .. N, PushedUpTo[n - 1] \in B
      PROVE  PushedUpTo[n] \in B
  <2> DEFINE b == PushedUpTo[n - 1]
  <2>1. b \in Orderly /\ (b.next # None => b.of = e)
    BY <1>4
  <2>2. batch[n] \in Packets /\ batch[n].of = e /\ PushedUpTo[n] = Push(b, batch[n])
    BY <1>1, <1>2
  <2> HIDE DEF b
  <2>3. Push(b, batch[n]) \in Orderly /\ Push(b, batch[n]).of = e
    BY <2>1, <2>2, PushStep
  <2> QED
    BY <2>2, <2>3
<1>5. Pushed = PushedUpTo[N] /\ N \in 0 .. N
  BY <1>1 DEF Pushed
<1> HIDE DEF B, N
<1>6. \A n \in 0 .. N : PushedUpTo[n] \in B
  BY <1>1, <1>3, <1>4, StaysWithin
<1> QED
  BY <1>5, <1>6 DEF B

-----------------------------------------------------------------------------
(* pop().                                                                   *)

(* The earliest of packets that are all less than half a round ahead exists.*)
LEMMA EarliestIs ==
    ASSUME AudioAssumption, NEW q \in SUBSET Packets, q # {}, NEW c \in Numbers,
           \A p \in q : Distance(p.seq, c) < Half
    PROVE  /\ Earliest(q) \in {p.seq : p \in q}
           /\ \A p \in q : ~Before(p.seq, Earliest(q))
<1> DEFINE T == {Distance(p.seq, c) : p \in q}
<1>1. \A p \in q : p.seq \in Numbers /\ Distance(p.seq, c) \in Nat
  <2> TAKE p \in q
  <2>1. p.seq \in Numbers
    BY DEF Packets, Numbers
  <2> QED
    BY <2>1, BeforeIs
<1>2. T \subseteq Nat /\ T # {}
  BY <1>1
<1> HIDE DEF T
<1>3. PICK x \in T : \A y \in T : x <= y
  BY <1>2, LeastOf
<1>4. PICK e \in q : Distance(e.seq, c) = x
  BY <1>3 DEF T
<1>5. ASSUME NEW p \in q
      PROVE  ~Before(p.seq, e.seq)
  <2>1. Distance(e.seq, c) <= Distance(p.seq, c)
    BY <1>3, <1>4 DEF T
  <2>2. Distance(p.seq, e.seq) = Distance(p.seq, c) - Distance(e.seq, c)
    BY <1>1, <2>1, DistanceFrom
  <2>3. Distance(p.seq, e.seq) < Half
    BY <1>1, <2>2, HalfIs
  <2> QED
    BY <1>1, <2>3, BeforeIs, HalfIs
<1>6. \E s \in {p.seq : p \in q} : \A p \in q : ~Before(p.seq, s)
  BY <1>5
<1> QED
  BY <1>6 DEF Earliest

Turns == [pending : SUBSET Packets, next : Numbers \cup {None},
          lost : Nat, filled : Nat, capped : BOOLEAN, made : Nat, popped : Nat]

(* A turn that began at number c: what it has made, decoded and concealed,  *)
(* is how far it has come, and what is left lies ahead, less than half a    *)
(* round from c.                                                            *)
InPlace(b, c) ==
    /\ IsFiniteSet(b.pending) /\ Distinct(b.pending)
    /\ b.filled = b.lost /\ b.made >= b.popped
    /\ c = None => b.pending = {} /\ b.next = None /\ b.popped = 0
    /\ c # None =>
         /\ b.next \in Numbers
         /\ b.popped + b.lost = Distance(b.next, c) /\ b.popped + b.lost <= Half
         /\ b.capped \/ b.made = b.popped + b.lost
         /\ \A p \in b.pending : /\ Distance(p.seq, c) >= b.popped + b.lost
                                 /\ Distance(p.seq, c) < Half

LEMMA PopStep ==
    ASSUME AudioAssumption, NEW c \in Numbers \cup {None},
           NEW b \in Turns, InPlace(b, c)
    PROVE  Pop(b) \in Turns /\ InPlace(Pop(b), c)
<1> DEFINE here == \E p \in b.pending : p.seq = b.next
           seq == IF here THEN b.next ELSE Earliest(b.pending)
           gap == Distance(seq, b.next)
           rest == {p \in b.pending : p.seq # seq}
           far == b.popped + b.lost
<1>1. CASE b.pending = {} \/ ~ (here \/ GivesUp(b.pending))
  <2>1. Pop(b) = b
    BY <1>1 DEF Pop
  <2> QED
    BY <2>1
<1>2. CASE ~ (b.pending = {} \/ ~ (here \/ GivesUp(b.pending)))
  <2>1. c \in Numbers
    BY <1>2 DEF InPlace
  <2>2. /\ b.next \in Numbers /\ far = Distance(b.next, c) /\ far <= Half
        /\ \A p \in b.pending : p.seq \in Numbers /\ Distance(p.seq, c) >= far
                              /\ Distance(p.seq, c) < Half
        /\ b.capped \/ b.made = far
    <3>1. c # None
      BY <2>1 DEF AudioAssumption, Numbers
    <3>2. \A p \in b.pending : p.seq \in Numbers
      BY DEF Turns, Packets, Numbers
    <3> QED
      BY <3>1, <3>2 DEF InPlace
  <2>3. /\ b.popped \in Nat /\ b.lost \in Nat /\ b.made \in Nat /\ b.capped \in BOOLEAN
        /\ b.filled = b.lost /\ far \in Nat /\ b.made >= b.popped
        /\ Serial \in Nat /\ Half \in Nat /\ 2 * Half <= Serial /\ 1 <= Half /\ FillCap \in Nat
    BY HalfIs DEF Turns, InPlace, AudioAssumption
  <2>4. \E p \in b.pending : p.seq = seq
    <3>1. CASE here
      BY <3>1
    <3>2. CASE ~here
      BY <1>2, <2>1, <2>2, <3>2, EarliestIs DEF Turns
    <3> QED
      BY <3>1, <3>2
  <2>5. \A p \in b.pending : Distance(p.seq, c) >= Distance(seq, c)
    <3>1. CASE here
      BY <2>2, <3>1
    <3>2. CASE ~here
      <4> SUFFICES ASSUME NEW p \in b.pending, Distance(p.seq, c) < Distance(seq, c)
                   PROVE  FALSE
        BY <2>1, <2>2, <2>4, BeforeIs
      <4>1. ~Before(p.seq, seq)
        BY <1>2, <2>1, <2>2, <3>2, EarliestIs DEF Turns
      <4>2. p.seq \in Numbers /\ seq \in Numbers
        BY <2>2, <2>4
      <4>3. Distance(p.seq, seq) = Distance(p.seq, c) - Distance(seq, c) + Serial
        BY <2>1, <4>2, DistanceFrom, BeforeIs
      <4> QED
        BY <2>1, <2>2, <2>3, <2>4, <4>1, <4>2, <4>3, BeforeIs
    <3> QED
      BY <3>1, <3>2
  <2>6. /\ seq \in Numbers /\ Distance(seq, c) \in Nat
        /\ far <= Distance(seq, c) /\ Distance(seq, c) < Half
    BY <2>1, <2>2, <2>4, BeforeIs
  <2> DEFINE succ == (seq + 1) % Serial
             lost == b.lost + gap
             capped == b.capped \/ lost - b.filled > FillCap
             made == b.made + 1 + Concealed(lost - b.filled)
             popped == b.popped + 1
             after == [b EXCEPT !.pending = rest, !.next = succ,
                                !.lost = lost, !.filled = lost, !.capped = capped,
                                !.made = made, !.popped = popped]
  <2>7. Pop(b) = after
    BY <1>2 DEF Pop
  <2> HIDE DEF seq, here, rest
  <2>8. gap = Distance(seq, c) - far
    BY <2>1, <2>2, <2>6, DistanceFrom
  <2>9. gap \in Nat /\ lost \in Nat /\ lost - b.filled = gap
    <3> HIDE DEF gap
    <3> QED
      BY <2>3, <2>6, <2>8
  <2> HIDE DEF gap
  <2>10. /\ Concealed(gap) \in Nat
         /\ ~ (gap > FillCap) => Concealed(gap) = gap
    BY <2>3, <2>9 DEF Concealed, Least
  <2>11. succ \in Numbers /\ Distance(succ, c) = Distance(seq, c) + 1
    BY <2>1, <2>3, <2>6, OneFurther
  <2>12. /\ lost = b.lost + gap /\ capped = (b.capped \/ gap > FillCap)
         /\ made = b.made + 1 + Concealed(gap) /\ popped = b.popped + 1
         /\ capped \in BOOLEAN /\ made \in Nat /\ popped \in Nat
    BY <2>3, <2>9, <2>10
  <2>13. rest \subseteq Packets /\ IsFiniteSet(rest) /\ Distinct(rest)
    <3>1. rest \subseteq b.pending
      BY DEF rest
    <3> QED
      BY <3>1, FS_Subset DEF Turns, InPlace, Distinct
  <2> HIDE DEF succ, lost, capped, made, popped
  <2>14. /\ after \in Turns
         /\ after.pending = rest /\ after.next = succ
         /\ after.lost = lost /\ after.filled = lost /\ after.capped = capped
         /\ after.made = made /\ after.popped = popped
    BY <2>9, <2>11, <2>12, <2>13 DEF Turns
  <2>15. \A p \in rest : /\ Distance(p.seq, c) >= Distance(seq, c) + 1
                         /\ Distance(p.seq, c) < Half
    <3> TAKE p \in rest
    <3>1. p \in b.pending /\ p.seq # seq
      BY DEF rest
    <3>2. p.seq \in Numbers /\ Distance(p.seq, c) \in Nat
      BY <2>1, <2>2, <3>1, BeforeIs
    <3>3. Distance(p.seq, c) # Distance(seq, c)
      BY <2>1, <2>6, <3>1, <3>2, OneFurther
    <3> QED
      BY <2>2, <2>5, <2>6, <3>1, <3>2, <3>3
  <2>16. popped + lost = Distance(seq, c) + 1
    BY <2>3, <2>6, <2>8, <2>9, <2>12
  <2>17. capped \/ made = popped + lost
    <3>1. CASE b.capped \/ gap > FillCap
      BY <2>12, <3>1
    <3>2. CASE ~ (b.capped \/ gap > FillCap)
      BY <2>2, <2>3, <2>6, <2>8, <2>9, <2>10, <2>12, <2>16, <3>2
    <3> QED
      BY <3>1, <3>2
  <2>18. made >= popped
    BY <2>3, <2>10, <2>12
  <2>19. c # None
    BY <2>1 DEF AudioAssumption, Numbers
  <2>20. popped + lost <= Half /\ popped + lost = Distance(succ, c)
    BY <2>3, <2>6, <2>11, <2>16
  <2>21. \A p \in rest : Distance(p.seq, c) >= popped + lost /\ Distance(p.seq, c) < Half
    BY <2>15, <2>16
  <2> HIDE DEF after
  <2>22. InPlace(after, c)
    BY <2>11, <2>13, <2>14, <2>17, <2>18, <2>19, <2>20, <2>21 DEF InPlace
  <2> QED
    BY <2>7, <2>14, <2>22
<1> QED
  BY <1>1, <1>2

LEMMA PoppedUpToIs ==
    ASSUME AudioAssumption, Pushed \in Orderly
    PROVE  /\ Cardinality(Pushed.pending) \in Nat
           /\ PoppedUpTo[0] = Popping
           /\ Popping \in Turns /\ InPlace(Popping, Pushed.next)
           /\ \A n \in 1 .. Cardinality(Pushed.pending) : PoppedUpTo[n] = Pop(PoppedUpTo[n - 1])
<1> DEFINE N == Cardinality(Pushed.pending)
           c == Pushed.next
           B == {b \in Turns : InPlace(b, c)}
           step == [n \in 1 .. N |-> [b \in B |-> Pop(b)]]
           Means(f) == f = [n \in 0 .. N |-> IF n = 0 THEN Popping ELSE Pop(f[n - 1])]
<1>1. /\ Pushed.pending \subseteq Packets /\ c \in Numbers \cup {None}
      /\ IsFiniteSet(Pushed.pending) /\ Distinct(Pushed.pending)
      /\ c = None => Pushed.pending = {}
      /\ \A p \in Pushed.pending : ~Before(p.seq, c)
  BY DEF Orderly, Orders, Ahead
<1>2. N \in Nat
  BY <1>1, FS_CardinalityType
<1>3. Popping \in Turns
  BY <1>1 DEF Turns, Popping
<1>4. InPlace(Popping, c)
  <2>1. /\ Popping.pending = Pushed.pending /\ Popping.next = c
        /\ Popping.lost = 0 /\ Popping.filled = 0 /\ Popping.capped = FALSE
        /\ Popping.made = 0 /\ Popping.popped = 0
    BY DEF Popping
  <2>2. ASSUME c # None
        PROVE  /\ c \in Numbers /\ Distance(c, c) = 0 /\ 0 <= Half
               /\ \A p \in Pushed.pending : Distance(p.seq, c) >= 0 /\ Distance(p.seq, c) < Half
    <3>1. c \in Numbers
      BY <1>1, <2>2
    <3>2. Distance(c, c) = 0 /\ Half \in Nat
      BY <3>1, DistanceIs, HalfIs DEF Numbers
    <3>3. ASSUME NEW p \in Pushed.pending
          PROVE  Distance(p.seq, c) >= 0 /\ Distance(p.seq, c) < Half
      <4>1. p.seq \in Numbers /\ ~Before(p.seq, c)
        BY <1>1 DEF Packets, Numbers
      <4>2. Distance(p.seq, c) \in 0 .. Serial - 1 /\ ~ (Distance(p.seq, c) >= Half)
        BY <3>1, <4>1, BeforeIs
      <4> QED
        BY <3>2, <4>2
    <3> QED
      BY <3>1, <3>2, <3>3
  <2> HIDE DEF c
  <2> QED
    BY <1>1, <2>1, <2>2 DEF InPlace
<1>5. step \in [1 .. N -> [B -> B]]
  BY <1>1, PopStep
<1>6. PICK g \in [0 .. N -> B] :
          g[0] = Popping /\ \A n \in 1 .. N : g[n] = step[n][g[n - 1]]
  <2>1. Popping \in B
    BY <1>3, <1>4
  <2> HIDE DEF step, N, B
  <2> QED
    BY ONLY <2>1, <1>2, <1>5, Recursion
<1>7. \A n \in 1 .. N : g[n] = Pop(g[n - 1])
  <2> SUFFICES ASSUME NEW n \in 1 .. N
               PROVE  g[n] = Pop(g[n - 1])
    OBVIOUS
  <2> HIDE DEF B
  <2>1. g[n - 1] \in B
    BY <1>2
  <2> QED
    BY <1>6, <2>1
<1>8. Means(g)
  <2> DEFINE h == [n \in 0 .. N |-> IF n = 0 THEN Popping ELSE Pop(g[n - 1])]
  <2>1. ASSUME NEW n \in 0 .. N
        PROVE  g[n] = h[n]
    <3>1. CASE n = 0
      BY <1>6, <3>1
    <3>2. CASE n # 0
      BY <1>2, <1>7, <3>2
    <3> QED
      BY <3>1, <3>2
  <2> HIDE DEF B
  <2> QED
    BY <2>1
<1>9. PoppedUpTo = CHOOSE f : Means(f)
  BY DEF PoppedUpTo
<1> HIDE DEF Means
<1>10. Means(PoppedUpTo)
  BY <1>8, <1>9
<1> QED
  BY <1>2, <1>3, <1>4, <1>10 DEF Means

LEMMA PoppedIs ==
    ASSUME AudioAssumption, Pushed \in Orderly
    PROVE  Popped \in Turns /\ InPlace(Popped, Pushed.next)
<1> DEFINE N == Cardinality(Pushed.pending)
           B == {b \in Turns : InPlace(b, Pushed.next)}
<1>1. N \in Nat /\ PoppedUpTo[0] \in B
  BY PoppedUpToIs
<1>2. ASSUME NEW n \in 1 .. N, PoppedUpTo[n - 1] \in B
      PROVE  PoppedUpTo[n] \in B
  <2>1. Pushed.next \in Numbers \cup {None}
    BY DEF Orderly, Orders
  <2>2. PoppedUpTo[n] = Pop(PoppedUpTo[n - 1])
    BY PoppedUpToIs
  <2> QED
    BY <1>2, <2>1, <2>2, PopStep
<1>3. Popped = PoppedUpTo[N] /\ N \in 0 .. N
  BY <1>1 DEF Popped
<1> HIDE DEF B, N
<1>4. \A n \in 0 .. N : PoppedUpTo[n] \in B
  BY <1>1, <1>2, StaysWithin
<1> QED
  BY <1>3, <1>4 DEF B

(* A turn leaves the buffer in order, and its sound in its place.           *)
LEMMA TurnIs ==
    ASSUME AudioAssumption, Pushed \in Orderly
    PROVE  /\ Skew(Popped) = 0
           /\ Popped.made - Popped.popped \in Nat /\ Popped.popped \in Nat
           /\ [pending |-> Popped.pending, next |-> Popped.next, of |-> Pushed.of] \in Orderly
           /\ Popped.next # None => Pushed.next # None
<1> DEFINE b == Popped
           c == Pushed.next
           o == [pending |-> b.pending, next |-> b.next, of |-> Pushed.of]
<1>1. b \in Turns /\ InPlace(b, c)
  BY PoppedIs
<1>2. c \in Numbers \cup {None} /\ Pushed.of \in 0 .. MaxEpoch /\ None \notin Numbers
  BY DEF Orderly, Orders, AudioAssumption, Numbers
<1> HIDE DEF b, c
<1>3. Skew(b) = 0
  <2>1. Skew(b) = IF b.popped = 0 \/ b.capped THEN 0 ELSE b.made - Distance(b.next, c)
    BY DEF Skew, c
  <2>2. CASE b.popped = 0 \/ b.capped
    BY <2>1, <2>2
  <2>3. CASE ~ (b.popped = 0 \/ b.capped)
    <3>1. b.made = Distance(b.next, c) /\ b.made \in Nat
      BY <1>1, <2>3 DEF InPlace, Turns
    <3> QED
      BY <2>1, <2>3, <3>1
  <2> QED
    BY <2>2, <2>3
<1>4. b.made - b.popped \in Nat /\ b.popped \in Nat
  BY <1>1 DEF InPlace, Turns
<1>5. c = None => b.next = None
  BY <1>1 DEF InPlace
<1>6. ASSUME NEW p \in b.pending
      PROVE  ~Before(p.seq, b.next)
  <2>1. c \in Numbers
    BY <1>1, <1>2, <1>6 DEF InPlace
  <2> DEFINE come == b.popped + b.lost
  <2>2. /\ b.next \in Numbers /\ p.seq \in Numbers
        /\ come = Distance(b.next, c) /\ Distance(p.seq, c) >= come
        /\ Distance(p.seq, c) < Half
    BY <1>1, <1>2, <1>6, <2>1 DEF InPlace, Turns, Packets, Numbers
  <2>3. come \in Nat /\ Distance(p.seq, c) \in Nat /\ Half \in Nat
    BY <1>1, <2>1, <2>2, BeforeIs, HalfIs DEF Turns
  <2> HIDE DEF come
  <2>4. Distance(p.seq, b.next) = Distance(p.seq, c) - come
    BY <2>1, <2>2, DistanceFrom
  <2> QED
    BY <2>2, <2>3, <2>4, BeforeIs
<1>7. o \in Orders /\ o.pending = b.pending /\ o.next = b.next
  BY <1>1, <1>2 DEF Orders, Turns
<1>8. IsFiniteSet(b.pending) /\ Distinct(b.pending) /\ (b.next = None => b.pending = {})
  BY <1>1, <1>2 DEF InPlace
<1>9. Ahead(o)
  BY <1>6, <1>7, <1>8 DEF Ahead
<1> QED
  BY <1>3, <1>4, <1>5, <1>7, <1>9 DEF b, c, Orderly

-----------------------------------------------------------------------------
(* feed().                                                                  *)

LEMMA Division ==
    ASSUME NEW x \in Nat, NEW d \in Nat \ {0}
    PROVE  x \div d \in Nat /\ x % d \in 0 .. d - 1 /\ x = d * (x \div d) + (x % d)
  OBVIOUS

LEMMA Product ==
    ASSUME NEW x \in Nat, NEW y \in Nat
    PROVE  x * y \in Nat /\ (y >= 1 => x * y >= x)
  OBVIOUS

LEMMA Multiple ==
    ASSUME NEW q \in Nat, NEW d \in Nat \ {0}
    PROVE  (d * q) % d = 0
<1> DEFINE x == d * q
           k == x \div d
           r == x % d
<1>1. x \in Nat
  BY Product
<1>2. k \in Nat /\ r \in 0 .. d - 1 /\ x = d * k + r
  BY <1>1, Division
<1>3. x = d * q
  OBVIOUS
<1> HIDE DEF x, k, r
<1>4. ASSUME q > k PROVE FALSE
  <2>1. q - k \in Nat /\ q - k >= 1
    BY <1>2, <1>4
  <2>2. d * (q - k) >= d
    BY <2>1, Product
  <2>3. d * (q - k) = d * q - d * k
    BY <1>2
  <2> QED
    BY <1>2, <1>3, <2>2, <2>3
<1>5. ASSUME q < k PROVE FALSE
  <2>1. k - q \in Nat /\ k - q >= 1
    BY <1>2, <1>5
  <2>2. d * (k - q) >= d
    BY <2>1, Product
  <2>3. d * (k - q) = d * k - d * q
    BY <1>2
  <2> QED
    BY <1>2, <1>3, <2>2, <2>3
<1>6. q = k
  BY <1>2, <1>4, <1>5
<1>7. r = 0
  <2>1. d * q \in Nat
    BY Product
  <2>2. d * q = d * q + r
    BY <1>2, <1>3, <1>6
  <2> QED
    BY <1>2, <2>1, <2>2
<1> QED
  BY <1>7 DEF r, x

Whole(sound) == \E q \in Nat : sound = Packet * q

(* The card has no more than is wanted of it, a running card has something, *)
(* and a card that takes the limit in one piece leaves whole packets over.  *)
CardKept ==
    /\ state = "xrun" => card = 0
    /\ state = "playing" => card > 0
    /\ card <= MaxLatency
    /\ CardSize >= MaxLatency => Whole(ring)

LEMMA WholeSum ==
    ASSUME AudioAssumption, NEW a, NEW n \in Nat, Whole(a)
    PROVE  Whole(a + Packet * n)
<1>1. PICK q \in Nat : a = Packet * q
  BY DEF Whole
<1>2. a + Packet * n = Packet * (q + n) /\ q + n \in Nat
  BY <1>1 DEF AudioAssumption
<1> QED
  BY <1>2 DEF Whole

LEMMA TrimmedIs ==
    ASSUME AudioAssumption, card \in Nat, card <= MaxLatency, NEW sound \in Nat
    PROVE  /\ Trimmed(sound) \in Nat
           /\ Trimmed(sound) + card < MaxLatency + Packet
           /\ Whole(sound) => Whole(Trimmed(sound)) /\ Trimmed(sound) + card <= MaxLatency
<1> DEFINE over == sound + card - TrimTo
           a == over \div Packet
           c == sound \div Packet
           left == Trimmed(sound)
<1>1. /\ Packet \in Nat \ {0} /\ TrimTo \in Nat /\ MaxLatency \in Nat
      /\ MaxLatency >= TrimTo + Packet
  BY DEF AudioAssumption
<1>2. CASE ~ (sound + card > MaxLatency)
  <2>1. left = sound
    BY <1>2 DEF Trimmed
  <2> QED
    BY <1>1, <1>2, <2>1
<1>3. CASE sound + card > MaxLatency
  <2>1. over \in Nat
    BY <1>1, <1>3
  <2>2. left = sound - Packet * Least(a, c)
    BY <1>3 DEF Trimmed
  <2> HIDE DEF left
  <2> DEFINE m == sound % Packet
             k == over % Packet
             t == over
  <2>3. a \in Nat /\ k \in 0 .. Packet - 1 /\ t = Packet * a + k
    BY <1>1, <2>1, Division
  <2>4. c \in Nat /\ m \in 0 .. Packet - 1 /\ sound = Packet * c + m
    BY <1>1, Division
  <2>5. m = sound % Packet /\ t = sound + card - TrimTo
    OBVIOUS
  <2> HIDE DEF a, c, m, k, t
  <2>6. CASE a <= c
    <3>1. left = sound - Packet * a
      BY <2>2, <2>6 DEF Least
    <3>2. Packet * a \in Nat /\ Packet * c \in Nat
      BY <1>1, <2>3, <2>4, Product
    <3>3. c - a \in Nat /\ Packet * (c - a) \in Nat /\ Packet * (c - a) = Packet * c - Packet * a
      BY <1>1, <2>3, <2>4, <2>6, Product
    <3>4. left \in Nat
      BY <1>1, <2>4, <3>1, <3>2, <3>3
    <3>5. left + card = TrimTo + k
      BY ONLY <1>1, <2>3, <2>5, <3>1, <3>2, card \in Nat, sound \in Nat
    <3>6. left + card <= MaxLatency
      BY <1>1, <2>3, <3>5
    <3>7. ASSUME Whole(sound) PROVE Whole(left)
      <4>1. m = 0
        BY <1>1, <2>5, <3>7, Multiple DEF Whole
      <4>2. left = Packet * (c - a)
        BY <1>1, <2>4, <2>5, <3>1, <3>2, <3>3, <4>1
      <4> QED
        BY <3>3, <4>2 DEF Whole
    <3> QED
      BY <1>1, <3>4, <3>6, <3>7 DEF left
  <2>7. CASE ~ (a <= c)
    <3>1. left = sound - Packet * c
      BY <2>2, <2>3, <2>4, <2>7 DEF Least
    <3>2. Packet * c \in Nat
      BY <1>1, <2>4, Product
    <3>3. left = m /\ m \in 0 .. Packet - 1
      BY <1>1, <2>4, <3>1, <3>2
    <3>4. ASSUME Whole(sound) PROVE left = 0
      BY <1>1, <2>5, <3>3, <3>4, Multiple DEF Whole
    <3>5. Whole(0)
      BY <1>1 DEF Whole
    <3> QED
      BY <1>1, <3>3, <3>4, <3>5 DEF left
  <2> QED
    BY <2>3, <2>4, <2>6, <2>7
<1> QED
  BY <1>2, <1>3

LEMMA StartIs == AudioAssumption => StartAt \in Nat /\ StartAt >= 1
<1> SUFFICES ASSUME AudioAssumption
             PROVE  StartAt \in Nat /\ StartAt >= 1
  OBVIOUS
<1>1. /\ 3 * Packet \in Nat /\ 3 * Packet >= 1
      /\ CardSize \div 2 \in Nat /\ CardSize \div 2 >= 1
  BY DEF AudioAssumption
<1>2. \E n \in {3 * Packet, CardSize \div 2} : n <= 3 * Packet /\ n <= CardSize \div 2
  BY <1>1
<1>3. StartAt \in {3 * Packet, CardSize \div 2}
  BY <1>2 DEF StartAt
<1> QED
  BY <1>1, <1>3

CardStates == {"prepared", "playing", "xrun"}

LEMMA FeedKeeps ==
    ASSUME AudioAssumption, CardKept, card \in 0 .. CardSize, state \in CardStates,
           NEW sound \in Nat, CardSize >= MaxLatency => Whole(sound), Feed(sound)
    PROVE  /\ ring' \in Nat /\ card' \in 0 .. CardSize /\ state' \in CardStates
           /\ CardKept' /\ LatencyBounded'
<1>0. /\ Packet \in Nat \ {0} /\ MaxLatency \in Nat /\ CardSize \in Nat
      /\ card \in Nat /\ card <= CardSize /\ card <= MaxLatency
  BY DEF AudioAssumption, CardKept
<1>1. CASE Lost(sound)
  BY <1>0, <1>1 DEF Lost, CardKept, LatencyBounded, Whole
<1>2. CASE Written(sound)
  <2> DEFINE left == Trimmed(sound)
             want == Least(left, CardSize - card)
  <2>1. /\ left \in Nat /\ left + card < MaxLatency + Packet
        /\ Whole(sound) => Whole(left) /\ left + card <= MaxLatency
    BY <1>0, TrimmedIs
  <2>2. PICK wrote \in {0, want} :
            /\ ring' = left - wrote
            /\ card' = card + wrote
            /\ state' = IF card' >= StartAt THEN "playing"
                        ELSE IF state = "xrun" THEN "prepared" ELSE state
    BY <1>2 DEF Written
  <2> HIDE DEF left
  <2>3. want \in Nat /\ want <= left /\ want <= CardSize - card
    BY <1>0, <2>1 DEF Least
  <2>4. wrote \in Nat /\ wrote <= left /\ wrote <= CardSize - card
    BY <2>1, <2>3, <1>0
  <2>5. ring' \in Nat /\ card' \in 0 .. CardSize /\ ring' + card' = left + card
    BY <1>0, <2>1, <2>2, <2>4
  <2>6. state' \in CardStates /\ state' # "xrun"
    BY <2>2 DEF CardStates
  <2>7. state' = "playing" => card' > 0
    <3>1. CASE card' >= StartAt
      BY <2>5, <3>1, StartIs
    <3>2. CASE ~ (card' >= StartAt)
      BY <1>0, <2>2, <2>4, <3>2 DEF CardKept
    <3> QED
      BY <3>1, <3>2
  <2>8. card' <= MaxLatency
    <3>1. CASE CardSize >= MaxLatency
      <4>1. left + card <= MaxLatency
        BY <2>1, <3>1
      <4>2. card + wrote <= MaxLatency
        BY <1>0, <2>1, <2>4, <4>1
      <4> QED
        BY <2>2, <4>2
    <3>2. CASE ~ (CardSize >= MaxLatency)
      BY <1>0, <2>5, <3>2
    <3> QED
      BY <3>1, <3>2
  <2>9. CardSize >= MaxLatency => Whole(ring')
    <3> SUFFICES ASSUME CardSize >= MaxLatency
                 PROVE  Whole(ring')
      OBVIOUS
    <3>1. Whole(left) /\ left + card <= MaxLatency
      BY <2>1
    <3>2. CASE wrote = 0
      BY <2>1, <2>2, <3>1, <3>2
    <3>3. CASE wrote = want
      <4>1. want = left
        BY <1>0, <2>1, <3>1 DEF Least
      <4>2. ring' = 0
        BY <2>1, <2>2, <3>3, <4>1
      <4> QED
        BY <1>0, <4>2 DEF Whole
    <3> QED
      BY <2>2, <3>2, <3>3
  <2>10. CardKept'
    BY <2>6, <2>7, <2>8, <2>9 DEF CardKept, Whole
  <2>11. LatencyBounded'
    BY <1>0, <2>1, <2>5 DEF LatencyBounded
  <2> QED
    BY <2>5, <2>6, <2>10, <2>11
<1> QED
  BY <1>1, <1>2 DEF Feed

-----------------------------------------------------------------------------
(* The inductive invariant.                                                 *)

AllOf(q) == \A i \in DOMAIN q : q[i].of = epoch

(* Between a resync that did not race with the audio thread's turn and the  *)
(* turn that sees it, what is queued behind that turn is the new source's;  *)
(* after it, everything is.                                                 *)
SourceKept ==
    /\ pc = "wait" => batch = <<>>
    /\ running /\ ~raced =>
         /\ resync /\ pc = "taken" => AllOf(inbox)
         /\ ~resync => AllOf(inbox) /\ AllOf(batch) /\ (next # None => of = epoch)

AudioInv ==
    /\ TypeOK /\ Buffer \in Orderly
    /\ SourceKept /\ CardKept
    /\ SoundInPlace /\ LatencyBounded

(* Mapping each packet to one that is older keeps a queue a queue.          *)
LEMMA AgedIs ==
    ASSUME AudioAssumption, NEW p \in Packets
    PROVE  Aged(p) \in Packets /\ Aged(p).seq = p.seq /\ Aged(p).of = p.of
  BY DEF AudioAssumption, Packets, Aged, Least

LEMMA OlderIs ==
    ASSUME AudioAssumption, NEW q \in Seq(Packets)
    PROVE  /\ Older(q) \in Seq(Packets) /\ Len(Older(q)) = Len(q)
           /\ DOMAIN Older(q) = DOMAIN q
           /\ \A i \in DOMAIN q : Older(q)[i].of = q[i].of
           /\ q = <<>> => Older(q) = <<>>
<1>1. Len(q) \in Nat /\ DOMAIN q = 1 .. Len(q) /\ \A i \in DOMAIN q : q[i] \in Packets
  OBVIOUS
<1>2. \A i \in DOMAIN q : Aged(q[i]) \in Packets /\ Aged(q[i]).of = q[i].of
  BY <1>1, AgedIs
<1>3. Older(q) = [i \in 1 .. Len(q) |-> Aged(q[i])]
  BY <1>1 DEF Older
<1>4. Older(q) \in Seq(Packets) /\ Len(Older(q)) = Len(q)
  BY <1>1, <1>2, <1>3
<1>5. q = <<>> => Older(q) = <<>>
  BY <1>4
<1> QED
  BY <1>1, <1>2, <1>3, <1>4, <1>5

LEMMA QueuedIs ==
    ASSUME AudioAssumption, NEW q \in Seq(Packets), Len(q) <= InboxCap, NEW p \in Packets
    PROVE  /\ Queued(q, p) \in Seq(Packets) /\ Len(Queued(q, p)) <= InboxCap
           /\ AllOf(q) /\ p.of = epoch => AllOf(Queued(q, p))
<1> DEFINE rest == IF Len(q) >= InboxCap THEN Tail(q) ELSE q
<1>1. InboxCap \in Nat /\ InboxCap >= 1 /\ Len(q) \in Nat
  BY DEF AudioAssumption
<1>2. rest \in Seq(Packets) /\ Len(rest) < InboxCap /\ (AllOf(q) => AllOf(rest))
  <2>1. CASE Len(q) >= InboxCap
    <3>1. q # <<>> /\ rest = Tail(q)
      BY <1>1, <2>1
    <3>2. Tail(q) \in Seq(Packets) /\ Len(Tail(q)) = Len(q) - 1
      BY <3>1
    <3>3. \A i \in DOMAIN Tail(q) : i + 1 \in DOMAIN q /\ Tail(q)[i] = q[i + 1]
      BY <3>1
    <3>4. AllOf(q) => AllOf(Tail(q))
      BY <3>3 DEF AllOf
    <3> HIDE DEF rest
    <3> QED
      BY <1>1, <3>1, <3>2, <3>4
  <2>2. CASE ~ (Len(q) >= InboxCap)
    BY <1>1, <2>2
  <2> QED
    BY <2>1, <2>2
<1>3. Queued(q, p) = Append(rest, p)
  BY DEF Queued
<1> HIDE DEF rest
<1>4. Append(rest, p) \in Seq(Packets) /\ Len(Append(rest, p)) = Len(rest) + 1
  BY <1>2
<1>5. AllOf(rest) /\ p.of = epoch => AllOf(Append(rest, p))
  <2>1. \A i \in DOMAIN Append(rest, p) :
            \/ i \in DOMAIN rest /\ Append(rest, p)[i] = rest[i]
            \/ Append(rest, p)[i] = p
    BY <1>2
  <2> QED
    BY <2>1 DEF AllOf
<1> QED
  BY <1>1, <1>2, <1>3, <1>4, <1>5

LEMMA EmptyIs ==
    /\ <<>> \in Seq(Packets) /\ Len(<<>>) = 0 /\ AllOf(<<>>)
    /\ AllOf(<<>>)'
  BY DEF AllOf

LEMMA BufferIs ==
    /\ Buffer.pending = pending /\ Buffer.next = next /\ Buffer.of = of
    /\ Buffer \in Orderly <=> Buffer \in Orders /\ Ahead(Buffer)
    /\ Buffer' = [pending |-> pending', next |-> next', of |-> of']
  BY DEF Buffer, Orderly

LEMMA EmptyBuffer ==
    ASSUME NEW e \in 0 .. MaxEpoch
    PROVE  [pending |-> {}, next |-> None, of |-> e] \in Orderly
  BY FS_EmptySet DEF Orderly, Orders, Ahead, Distinct

LEMMA InitAudio == AudioAssumption /\ Init => AudioInv
<1> SUFFICES ASSUME AudioAssumption, Init
             PROVE  AudioInv
  OBVIOUS
<1>1. TypeOK
  <2>1. inbox \in Seq(Packets) /\ Len(inbox) <= InboxCap
    BY EmptyIs DEF Init, AudioAssumption
  <2>2. batch \in Seq(Packets) /\ Len(batch) <= InboxCap
    BY EmptyIs DEF Init, AudioAssumption
  <2>3. source \in 0 .. Serial - 1 /\ past \in 0 .. Reorder /\ epoch \in 0 .. MaxEpoch
    BY DEF Init, AudioAssumption
  <2>4. /\ pending \subseteq Packets /\ next \in 0 .. Serial - 1 \cup {None}
        /\ of \in 0 .. MaxEpoch /\ \A x, y \in pending : x.seq = y.seq => x = y
    BY DEF Init, AudioAssumption
  <2>5. ring \in Nat /\ card \in 0 .. CardSize /\ skew \in Int
    BY DEF Init, AudioAssumption
  <2> QED
    BY <2>1, <2>2, <2>3, <2>4, <2>5 DEF Init, TypeOK
<1>2. Buffer \in Orderly
  BY EmptyBuffer DEF Init, Buffer, AudioAssumption
<1>3. SourceKept
  BY DEF Init, SourceKept
<1>4. CardKept
  BY DEF Init, CardKept, Whole, AudioAssumption
<1>5. SoundInPlace /\ LatencyBounded
  BY DEF Init, SoundInPlace, LatencyBounded, AudioAssumption
<1> QED
  BY <1>1, <1>2, <1>3, <1>4, <1>5 DEF AudioInv

(* The invariant by what an action changes together.                        *)
FlagsOK == /\ running \in BOOLEAN /\ resync \in BOOLEAN /\ raced \in BOOLEAN
           /\ pc \in {"wait", "taken"}
NetOK == source \in Numbers /\ past \in 0 .. Reorder /\ epoch \in 0 .. MaxEpoch
QueuesOK == /\ inbox \in Seq(Packets) /\ Len(inbox) <= InboxCap
            /\ batch \in Seq(Packets) /\ Len(batch) <= InboxCap
CardOK == ring \in Nat /\ card \in 0 .. CardSize /\ state \in CardStates

PartsOK ==
    /\ FlagsOK /\ NetOK /\ QueuesOK /\ CardOK
    /\ Buffer \in Orderly /\ SourceKept /\ CardKept
    /\ skew = 0 /\ LatencyBounded

LEMMA OrderlyTypes ==
    Buffer \in Orderly =>
        /\ pending \subseteq Packets /\ next \in 0 .. Serial - 1 \cup {None}
        /\ of \in 0 .. MaxEpoch
        /\ \A p, q \in pending : p.seq = q.seq => p = q
  BY DEF Buffer, Orderly, Orders, Ahead, Distinct, Numbers

LEMMA PartsAre == AudioInv <=> PartsOK
<1>1. AudioInv => PartsOK
  BY DEF AudioInv, PartsOK, TypeOK, FlagsOK, NetOK, QueuesOK, CardOK, CardStates, Numbers,
         SoundInPlace
<1>2. PartsOK => AudioInv
  <2> SUFFICES ASSUME PartsOK PROVE AudioInv
    OBVIOUS
  <2>1. TypeOK
    BY OrderlyTypes DEF PartsOK, TypeOK, FlagsOK, NetOK, QueuesOK, CardOK, CardStates, Numbers
  <2> QED
    BY <2>1 DEF AudioInv, PartsOK, SoundInPlace
<1> QED
  BY <1>1, <1>2

LEMMA PartsPrimed == AudioInv' <=> PartsOK'
<1>1. AudioInv' => PartsOK'
  BY DEF AudioInv, PartsOK, TypeOK, FlagsOK, NetOK, QueuesOK, CardOK, CardStates, Numbers,
         SoundInPlace
<1>2. PartsOK' => AudioInv'
  <2> SUFFICES ASSUME PartsOK' PROVE AudioInv'
    OBVIOUS
  <2>1. Buffer' \in Orderly
    BY DEF PartsOK, Orderly, Orders, Ahead, Distinct, Numbers, Packets, Before, Distance
  <2>2. /\ pending' \subseteq Packets /\ next' \in 0 .. Serial - 1 \cup {None}
        /\ of' \in 0 .. MaxEpoch
        /\ \A p, q \in pending' : p.seq = q.seq => p = q
    BY <2>1 DEF Buffer, Orderly, Orders, Ahead, Distinct, Numbers
  <2>3. TypeOK'
    BY <2>2 DEF PartsOK, TypeOK, FlagsOK, NetOK, QueuesOK, CardOK, CardStates, Numbers
  <2> QED
    BY <2>3 DEF AudioInv, PartsOK, SoundInPlace
<1> QED
  BY <1>1, <1>2

(* What does not move keeps its part.                                       *)
LEMMA SameParts ==
    /\ FlagsOK /\ UNCHANGED <<running, resync, raced, pc>> => FlagsOK'
    /\ NetOK /\ UNCHANGED netVars => NetOK'
    /\ QueuesOK /\ UNCHANGED <<inbox, batch>> => QueuesOK'
    /\ CardOK /\ CardKept /\ LatencyBounded /\ UNCHANGED cardVars =>
          CardOK' /\ CardKept' /\ LatencyBounded'
    /\ Buffer \in Orderly /\ UNCHANGED orderVars => (Buffer \in Orderly)'
<1>1. FlagsOK /\ UNCHANGED <<running, resync, raced, pc>> => FlagsOK'
  BY DEF FlagsOK
<1>2. NetOK /\ UNCHANGED netVars => NetOK'
  BY DEF NetOK, netVars
<1>3. QueuesOK /\ UNCHANGED <<inbox, batch>> => QueuesOK'
  BY DEF QueuesOK
<1>4. CardOK /\ CardKept /\ LatencyBounded /\ UNCHANGED cardVars =>
          CardOK' /\ CardKept' /\ LatencyBounded'
  BY DEF CardOK, CardKept, LatencyBounded, cardVars, Whole
<1>5. Buffer \in Orderly /\ UNCHANGED orderVars => (Buffer \in Orderly)'
  BY DEF Buffer, orderVars
<1> QED
  BY <1>1, <1>2, <1>3, <1>4, <1>5

LEMMA OpenKeeps == AudioAssumption /\ PartsOK /\ Open => PartsOK'
<1> SUFFICES ASSUME AudioAssumption, PartsOK, Open
             PROVE  PartsOK'
  OBVIOUS
<1> USE DEF Open
<1>1. FlagsOK'
  <2>1. \A a, b \in BOOLEAN : (a /\ b) \in BOOLEAN
    OBVIOUS
  <2>2. running' \in BOOLEAN
    BY <2>1 DEF OpenAlsa, OpenDecoder, OpenPcm
  <2> QED
    BY <2>2 DEF FlagsOK
<1>2. NetOK'
  BY SameParts DEF PartsOK
<1>3. QueuesOK'
  BY EmptyIs DEF QueuesOK, AudioAssumption
<1>4. (Buffer \in Orderly)'
  BY EmptyBuffer, BufferIs DEF PartsOK, NetOK
<1>5. SourceKept'
  BY DEF SourceKept, AllOf
<1>6. CardOK' /\ CardKept' /\ LatencyBounded'
  <2>1. Whole(0)
    BY DEF Whole, AudioAssumption
  <2> QED
    BY <2>1 DEF CardOK, CardKept, CardStates, LatencyBounded, AudioAssumption
<1> QED
  BY <1>1, <1>2, <1>3, <1>4, <1>5, <1>6 DEF PartsOK

LEMMA NetKeeps ==
    AudioAssumption /\ PartsOK /\ (Shutdown \/ Resume \/ Network) => PartsOK'
<1> SUFFICES ASSUME AudioAssumption, PartsOK, Shutdown \/ Resume \/ Network
             PROVE  PartsOK'
  OBVIOUS
<1>1. Serial \in Nat /\ Serial > 0 /\ Reorder \in Nat /\ MaxEpoch \in Nat
      /\ InboxCap \in Nat /\ Starts \subseteq Numbers
  BY DEF AudioAssumption, Numbers
<1>2. CASE Shutdown
  <2> USE <1>2 DEF Shutdown
  <2>1. FlagsOK'
    BY DEF PartsOK, FlagsOK
  <2>2. NetOK'
    BY <1>1 DEF PartsOK, NetOK
  <2>3. QueuesOK'
    BY <1>1, EmptyIs DEF PartsOK, QueuesOK
  <2>4. SourceKept'
    BY DEF PartsOK, SourceKept
  <2> QED
    BY <2>1, <2>2, <2>3, <2>4, SameParts DEF PartsOK
<1>3. CASE Resume
  <2> USE <1>3 DEF Resume
  <2>1. FlagsOK'
    BY DEF PartsOK, FlagsOK
  <2>2. NetOK'
    BY <1>1 DEF PartsOK, NetOK
  <2>3. SourceKept'
    <3>1. inbox = <<>> => AllOf(inbox)'
      BY EmptyIs DEF AllOf
    <3> QED
      BY <3>1 DEF PartsOK, SourceKept
  <2> QED
    BY <2>1, <2>2, <2>3, SameParts DEF PartsOK
<1>4. CASE Lose
  <2> USE <1>4 DEF Lose
  <2>1. FlagsOK'
    BY DEF PartsOK, FlagsOK
  <2>2. NetOK'
    BY <1>1 DEF PartsOK, NetOK, Numbers
  <2>3. SourceKept'
    BY DEF PartsOK, SourceKept, AllOf, orderVars
  <2> QED
    BY <2>1, <2>2, <2>3, SameParts DEF PartsOK
<1>5. ASSUME NEW back \in 0 .. Reorder, Submit(back)
      PROVE  PartsOK'
  <2> USE <1>5 DEF Submit
  <2> DEFINE p == [seq |-> (source - back) % Serial, age |-> 0, of |-> epoch]
  <2>1. FlagsOK'
    BY DEF PartsOK, FlagsOK
  <2>2. NetOK'
    BY <1>1 DEF PartsOK, NetOK, Numbers
  <2>3. p \in Packets /\ p.of = epoch
    <3>1. (source - back) % Serial \in 0 .. Serial - 1
      BY <1>1 DEF PartsOK, NetOK, Numbers
    <3> QED
      BY <3>1 DEF PartsOK, NetOK, Packets, AudioAssumption
  <2> HIDE DEF p
  <2>4. inbox' = IF running THEN Queued(inbox, p) ELSE inbox
    BY DEF p
  <2>5. QueuesOK'
    BY <2>3, <2>4, QueuedIs DEF PartsOK, QueuesOK
  <2>6. AllOf(inbox) => AllOf(inbox)'
    <3>1. AllOf(inbox) => AllOf(inbox')
      BY <2>3, <2>4, QueuedIs DEF PartsOK, QueuesOK
    <3> QED
      BY <3>1 DEF AllOf
  <2>7. SourceKept'
    BY <2>6 DEF PartsOK, SourceKept, AllOf, orderVars
  <2> QED
    BY <2>1, <2>2, <2>5, <2>7, SameParts DEF PartsOK
<1> QED
  BY <1>2, <1>3, <1>4, <1>5 DEF Network

LEMMA TakeKeeps == AudioAssumption /\ PartsOK /\ Take => PartsOK'
<1> SUFFICES ASSUME AudioAssumption, PartsOK, Take
             PROVE  PartsOK'
  OBVIOUS
<1> USE DEF Take
<1>1. FlagsOK'
  BY DEF PartsOK, FlagsOK
<1>2. QueuesOK'
  BY EmptyIs DEF PartsOK, QueuesOK, AudioAssumption
<1>3. SourceKept'
  <2>1. AllOf(inbox)'
    BY EmptyIs DEF AllOf
  <2>2. AllOf(inbox) => AllOf(batch)'
    BY DEF AllOf, netVars
  <2> QED
    BY <2>1, <2>2 DEF PartsOK, SourceKept, orderVars, netVars
<1> QED
  BY <1>1, <1>2, <1>3, SameParts DEF PartsOK

LEMMA StartOverKeeps == AudioAssumption /\ PartsOK /\ StartOver => PartsOK'
<1> SUFFICES ASSUME AudioAssumption, PartsOK, StartOver
             PROVE  PartsOK'
  OBVIOUS
<1> USE DEF StartOver
<1>1. FlagsOK'
  BY DEF PartsOK, FlagsOK
<1>2. QueuesOK'
  BY EmptyIs DEF PartsOK, QueuesOK, AudioAssumption
<1>3. (Buffer \in Orderly)'
  BY EmptyBuffer, BufferIs DEF PartsOK, NetOK
<1>4. SourceKept'
  <2>1. AllOf(inbox) => AllOf(inbox)'
    BY DEF AllOf, netVars
  <2>2. AllOf(batch)'
    BY EmptyIs DEF AllOf
  <2> QED
    BY <2>1, <2>2 DEF PartsOK, SourceKept, netVars
<1>5. CardOK' /\ CardKept' /\ LatencyBounded'
  <2>1. Whole(0)
    BY DEF Whole, AudioAssumption
  <2> QED
    BY <2>1 DEF CardOK, CardKept, CardStates, LatencyBounded, AudioAssumption
<1> QED
  BY <1>1, <1>2, <1>3, <1>4, <1>5, SameParts DEF PartsOK

LEMMA PlayKeeps == AudioAssumption /\ PartsOK /\ Play => PartsOK'
<1> SUFFICES ASSUME AudioAssumption, PartsOK, Play
             PROVE  PartsOK'
  OBVIOUS
<1> USE DEF Play
<1>1. Buffer \in Orderly /\ batch \in Seq(Packets)
  BY DEF PartsOK, QueuesOK
<1>2. Pushed \in Orderly
  BY <1>1, PushedIs
<1>3. /\ Skew(Popped) = 0
      /\ Popped.made - Popped.popped \in Nat /\ Popped.popped \in Nat
      /\ [pending |-> Popped.pending, next |-> Popped.next, of |-> Pushed.of] \in Orderly
      /\ Popped.next # None => Pushed.next # None
  BY <1>2, TurnIs
<1>4. FlagsOK'
  BY DEF PartsOK, FlagsOK
<1>5. QueuesOK'
  BY EmptyIs DEF PartsOK, QueuesOK, AudioAssumption
<1>6. (Buffer \in Orderly)'
  BY <1>3, BufferIs
<1>7. SourceKept'
  <2>1. pc' = "wait" /\ batch' = <<>> /\ ~resync' /\ epoch' = epoch
    BY DEF netVars
  <2>2. AllOf(batch)'
    BY <2>1, EmptyIs DEF AllOf
  <2>3. AllOf(inbox) => AllOf(inbox)'
    BY <2>1 DEF AllOf
  <2>4. ASSUME running, ~raced PROVE next' # None => of' = epoch
    <3>1. (next # None => of = epoch) /\ AllOf(batch)
      BY <2>4 DEF PartsOK, SourceKept
    <3>2. \A p \in ToSet(batch) : p.of = epoch
      BY <1>1, <3>1 DEF ToSet, AllOf
    <3>3. Pushed.next # None => Pushed.of = epoch
      BY <1>1, <3>1, <3>2, PushedOf
    <3> QED
      BY <1>3, <3>3
  <2>5. running' = running /\ raced' = raced
    OBVIOUS
  <2>6. running /\ ~raced => AllOf(inbox)
    BY DEF PartsOK, SourceKept
  <2> QED
    BY <2>1, <2>2, <2>3, <2>4, <2>5, <2>6 DEF SourceKept
<1>8. CardOK' /\ CardKept' /\ LatencyBounded'
  <2>1. PICK n \in Decoded(Popped.popped) :
            Feed(ring + Packet * (Popped.made - Popped.popped + n))
    OBVIOUS
  <2> DEFINE k == Popped.made - Popped.popped + n
             sound == ring + Packet * k
  <2>2. k \in Nat
    BY <1>3, <2>1 DEF Decoded
  <2> HIDE DEF k
  <2>3. sound \in Nat
    BY <2>2, Product DEF PartsOK, CardOK, AudioAssumption
  <2>4. CardSize >= MaxLatency => Whole(sound)
    BY <2>2, WholeSum DEF PartsOK, CardKept
  <2>5. Feed(sound)
    BY <2>1 DEF k
  <2> HIDE DEF sound
  <2> QED
    BY <2>3, <2>4, <2>5, FeedKeeps DEF PartsOK, CardOK
<1>9. skew' = 0
  BY <1>3
<1> QED
  BY <1>4, <1>5, <1>6, <1>7, <1>8, <1>9, SameParts DEF PartsOK

LEMMA TickKeeps == AudioAssumption /\ PartsOK /\ Tick => PartsOK'
<1> SUFFICES ASSUME AudioAssumption, PartsOK, Tick
             PROVE  PartsOK'
  OBVIOUS
<1> USE DEF Tick
<1>1. FlagsOK' /\ NetOK'
  BY SameParts DEF PartsOK
<1>2. QueuesOK'
  BY OlderIs DEF PartsOK, QueuesOK
<1>3. (Buffer \in Orderly)'
  <2> DEFINE grown == {Aged(p) : p \in pending}
             new == [pending |-> grown, next |-> next, of |-> of]
  <2>1. /\ Buffer \in Orders /\ Ahead(Buffer)
        /\ pending \subseteq Packets /\ next \in Numbers \cup {None} /\ of \in 0 .. MaxEpoch
    BY BufferIs DEF PartsOK, Orders, Buffer
  <2>2. \A p \in pending : Aged(p) \in Packets /\ Aged(p).seq = p.seq
    BY <2>1, AgedIs
  <2>3. grown \subseteq Packets
    BY <2>2
  <2>4. IsFiniteSet(grown)
    <3> DEFINE f == [p \in pending |-> Aged(p)]
    <3>1. f \in Surjection(pending, grown)
      BY DEF Surjection
    <3>2. IsFiniteSet(pending)
      BY <2>1, BufferIs DEF Ahead
    <3> HIDE DEF f, grown
    <3> QED
      BY <3>1, <3>2, FS_Surjection
  <2>5. Distinct(grown)
    BY <2>1, <2>2, BufferIs DEF Ahead, Distinct
  <2>6. next = None => grown = {}
    BY <2>1, BufferIs DEF Ahead
  <2>7. \A p \in grown : ~Before(p.seq, next)
    BY <2>1, <2>2, BufferIs DEF Ahead
  <2> HIDE DEF grown
  <2>8. new \in Orderly
    BY <2>1, <2>3, <2>4, <2>5, <2>6, <2>7 DEF Orderly, Orders, Ahead
  <2> QED
    BY <2>8, BufferIs DEF grown
<1>4. SourceKept'
  <2>1. AllOf(inbox) => AllOf(inbox)'
    BY OlderIs DEF PartsOK, QueuesOK, AllOf, netVars
  <2>2. AllOf(batch) => AllOf(batch)'
    BY OlderIs DEF PartsOK, QueuesOK, AllOf, netVars
  <2>3. batch = <<>> => batch' = <<>>
    BY OlderIs DEF PartsOK, QueuesOK
  <2> QED
    BY <2>1, <2>2, <2>3 DEF PartsOK, SourceKept, netVars
<1>5. CardOK' /\ CardKept' /\ LatencyBounded'
  <2>1. /\ card \in Nat /\ card <= CardSize /\ card <= MaxLatency /\ ring \in Nat
        /\ state = "playing" => card > 0
        /\ state = "xrun" => card = 0
        /\ state = "xrun" \/ ring + card < MaxLatency + Packet
        /\ CardSize \in Nat /\ MaxLatency \in Nat /\ Packet \in Nat
    BY DEF PartsOK, CardOK, CardKept, LatencyBounded, AudioAssumption
  <2>2. CASE state = "playing"
    <3>1. card' = card - 1 /\ ring' = ring
      BY <2>2
    <3>2. card' \in 0 .. CardSize /\ card' <= MaxLatency
          /\ ring' + card' < MaxLatency + Packet
      BY <2>1, <2>2, <3>1
    <3>3. state' = IF card' = 0 THEN "xrun" ELSE "playing"
      BY <2>2
    <3>4. card' > 0 \/ card' = 0
      BY <2>1, <2>2, <3>1
    <3> QED
      BY <3>1, <3>2, <3>3, <3>4 DEF PartsOK, CardOK, CardKept, CardStates, LatencyBounded, Whole
  <2>3. CASE state # "playing"
    BY <2>3 DEF PartsOK, CardOK, CardKept, CardStates, LatencyBounded, Whole
  <2> QED
    BY <2>2, <2>3
<1> QED
  BY <1>1, <1>2, <1>3, <1>4, <1>5 DEF PartsOK

LEMMA StepKeeps == AudioAssumption /\ AudioInv /\ [Next]_vars => AudioInv'
<1> SUFFICES ASSUME AudioAssumption, PartsOK, [Next]_vars
             PROVE  PartsOK'
  BY PartsAre, PartsPrimed
<1>1. CASE UNCHANGED vars
  <2>1. SourceKept'
    BY <1>1 DEF vars, netVars, orderVars, PartsOK, SourceKept, AllOf
  <2> QED
    BY <1>1, <2>1, SameParts DEF vars, PartsOK
<1> QED
  BY <1>1, OpenKeeps, NetKeeps, TakeKeeps, StartOverKeeps, PlayKeeps, TickKeeps DEF Next

-----------------------------------------------------------------------------
LEMMA Invariance ==
    ASSUME AudioAssumption
    PROVE  Spec => []AudioInv
  BY InitAudio, StepKeeps, PTL DEF Spec

(* Every variable keeps its type, for every source of packets, every loss,  *)
(* delay and repetition within reach, and every card (audio_jitter.cpp,     *)
(* audio_player.cpp).                                                       *)
THEOREM TypeCorrect ==
    ASSUME AudioAssumption
    PROVE  Spec => []TypeOK
  BY Invariance, PTL DEF AudioInv

(* One packet of sound for every number passed, and no more waiting for the *)
(* ear than the limit and a packet (thread_main(), feed()).                 *)
THEOREM SoundStays ==
    ASSUME AudioAssumption
    PROVE  Spec => [](SoundInPlace /\ LatencyBounded)
  BY Invariance, PTL DEF AudioInv

(* What a source leaves behind in queue and buffer does not make the next   *)
(* one inaudible (resync(), push()).                                        *)
THEOREM NewSourceHeard ==
    ASSUME AudioAssumption
    PROVE  Spec => []NewStreamHeard
<1>1. AudioInv => NewStreamHeard
  BY DEF AudioInv, SourceKept, NewStreamHeard
<1> QED
  BY <1>1, Invariance, PTL

(* The reorder buffer holds no number twice and none behind the next one it *)
(* waits for (push(), pop()).                                               *)
THEOREM BufferStaysOrderly ==
    ASSUME AudioAssumption
    PROVE  Spec => [](Buffer \in Orderly)
  BY Invariance, PTL DEF AudioInv
=============================================================================
