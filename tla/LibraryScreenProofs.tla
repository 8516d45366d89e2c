------------------------- MODULE LibraryScreenProofs -------------------------
(* Theorems about LibraryScreen, for every set of titles, their names, keys, *)
(* letters and genres, every catalogue the service may answer with and every *)
(* height of rows and list.                                                 *)
EXTENDS LibraryScreen, WellFoundedInduction, FiniteSetTheorems, SequenceTheorems, TLAPS

-----------------------------------------------------------------------------
(* Induction and recursion over the naturals, as in AudioPathProofs, whose   *)
(* component shares no name with this one.                                  *)

LEMMA Induction ==
    ASSUME NEW T, 0 \in T, \A n \in Nat : n \in T => n + 1 \in T
    PROVE  Nat \subseteq T
<1> DEFINE R == OpToRel(<, Nat)
           U == Nat \ T
<1>1. IsWellFoundedOn(R, Nat)
  BY NatLessThanWellFounded
<1>2. \A i, j \in Nat : i < j => <<i, j>> \in R
  BY DEF OpToRel
<1>3. U \subseteq Nat
  OBVIOUS
<1>4. ASSUME U # {} PROVE FALSE
  <2> HIDE DEF R, U
  <2>1. PICK x \in U : \A y \in U : ~ (<<y, x>> \in R)
    BY <1>1, <1>3, <1>4, WFMin
  <2>2. x # 0 /\ x - 1 \in Nat /\ x - 1 < x /\ (x - 1) + 1 = x
    BY <2>1, <1>3 DEF U
  <2>3. x - 1 \in T
    BY <1>2, <1>3, <2>1, <2>2 DEF U
  <2> QED
    BY <2>1, <2>2, <2>3 DEF U
<1> QED
  BY <1>4

(* Taking some number of steps from c, each of them within B, stays within  *)
(* B: a function that says so exists.                                       *)
LEMMA Recursion ==
    ASSUME NEW B, NEW c \in B, NEW N \in Nat, NEW step \in [1 .. N -> [B -> B]]
    PROVE  \E g \in [0 .. N -> B] :
               g[0] = c /\ \A n \in 1 .. N : g[n] = step[n][g[n - 1]]
<1> DEFINE Until(g, m) == g[0] = c /\ \A n \in 1 .. m : g[n] = step[n][g[n - 1]]
           T == {m \in Nat : m <= N => \E g \in [0 .. m -> B] : Until(g, m)}
<1>1. 0 \in T
  <2>1. [n \in 0 .. 0 |-> c] \in [0 .. 0 -> B]
    OBVIOUS
  <2>2. Until([n \in 0 .. 0 |-> c], 0)
    OBVIOUS
  <2> QED
    BY <2>1, <2>2
<1>2. ASSUME NEW m \in Nat, m \in T
      PROVE  m + 1 \in T
  <2> SUFFICES ASSUME m + 1 <= N
               PROVE  \E g \in [0 .. m + 1 -> B] : Until(g, m + 1)
    BY <1>2
  <2>1. PICK g \in [0 .. m -> B] : Until(g, m)
    BY <1>2
  <2> DEFINE new == step[m + 1][g[m]]
             h == [n \in 0 .. m + 1 |-> IF n = m + 1 THEN new ELSE g[n]]
  <2>2. new \in B
    BY <2>1
  <2>3. h \in [0 .. m + 1 -> B]
    BY <2>1, <2>2
  <2>4. h[0] = c
    BY <2>1
  <2>5. ASSUME NEW n \in 1 .. m + 1
        PROVE  h[n] = step[n][h[n - 1]]
    <3>1. CASE n = m + 1
      <4>1. n - 1 = m /\ m \in 0 .. m + 1 /\ m # m + 1 /\ n \in 0 .. m + 1
        BY <3>1
      <4>2. h[n] = new /\ h[n - 1] = g[m]
        BY <3>1, <4>1
      <4> QED
        BY <3>1, <4>2
    <3>2. CASE n # m + 1
      <4>1. n \in 1 .. m /\ n - 1 \in 0 .. m /\ n \in 0 .. m
        BY <3>2
      <4>2. h[n] = g[n] /\ h[n - 1] = g[n - 1]
        BY <4>1
      <4> QED
        BY <2>1, <4>1, <4>2
    <3> QED
      BY <3>1, <3>2
  <2> QED
    BY <2>3, <2>4, <2>5
<1> HIDE DEF T
<1>3. Nat \subseteq T
  BY <1>1, <1>2, Induction
<1>4. N \in T
  BY <1>3
<1> QED
  BY <1>4 DEF T

(* What a step of a sequence keeps holds all along it.                      *)
LEMMA StaysWithin ==
    ASSUME NEW B, NEW N \in Nat, NEW f, f[0] \in B,
           \A n \in 1 .. N : f[n - 1] \in B => f[n] \in B
    PROVE  \A n \in 0 .. N : f[n] \in B
<1> DEFINE T == {n \in Nat : n <= N => f[n] \in B}
<1>1. 0 \in T
  OBVIOUS
<1>2. ASSUME NEW n \in Nat, n \in T
      PROVE  n + 1 \in T
  <2> SUFFICES ASSUME n + 1 <= N PROVE f[n + 1] \in B
    OBVIOUS
  <2>1. n + 1 \in 1 .. N /\ (n + 1) - 1 = n /\ f[n] \in B
    BY <1>2
  <2> QED
    BY <2>1
<1> HIDE DEF T
<1>3. Nat \subseteq T
  BY <1>1, <1>2, Induction
<1> QED
  BY <1>3 DEF T

-----------------------------------------------------------------------------
(* Sets put in order.                                                       *)

Orders(before, S) ==
    /\ \A x, y \in S : x # y => <<x, y>> \in before \/ <<y, x>> \in before
    /\ \A x, y, z \in S : <<x, y>> \in before /\ <<y, z>> \in before => <<x, z>> \in before
    /\ \A x \in S : <<x, x>> \notin before

InOrder(s, n, before) == \A i, j \in 1 .. n : i < j => <<s[i], s[j]>> \in before

(* Some member comes last.                                                  *)
LEMMA LastOf ==
    ASSUME NEW S, IsFiniteSet(S), NEW before, Orders(before, S), NEW A \in SUBSET S, A # {}
    PROVE  \E m \in A : \A x \in A \ {m} : <<x, m>> \in before
<1> DEFINE HasLast(B) == \E m \in B : \A x \in B \ {m} : <<x, m>> \in before
           T == {n \in Nat : \A B \in SUBSET S : Cardinality(B) = n /\ B # {} => HasLast(B)}
<1>1. \A B \in SUBSET S : IsFiniteSet(B) /\ Cardinality(B) \in Nat
  BY FS_Subset, FS_CardinalityType
<1>2. 0 \in T
  BY <1>1, FS_EmptySet
<1>3. ASSUME NEW n \in Nat, n \in T
      PROVE  n + 1 \in T
  <2> SUFFICES ASSUME NEW B \in SUBSET S, Cardinality(B) = n + 1, B # {}
               PROVE  HasLast(B)
    OBVIOUS
  <2>1. PICK a \in B : TRUE
    OBVIOUS
  <2>2. Cardinality(B \ {a}) = n /\ B \ {a} \in SUBSET S
    BY <1>1, <2>1, FS_RemoveElement
  <2>3. CASE B \ {a} = {}
    BY <2>1, <2>3
  <2>4. CASE B \ {a} # {}
    <3>1. PICK m \in B \ {a} : \A x \in (B \ {a}) \ {m} : <<x, m>> \in before
      BY <1>3, <2>2, <2>4
    <3>2. m \in S /\ a \in S /\ m # a
      BY <3>1
    <3>3. CASE <<m, a>> \in before
      <4>1. \A x \in B \ {a} : <<x, a>> \in before
        BY <3>1, <3>2, <3>3 DEF Orders
      <4> QED
        BY <2>1, <4>1
    <3>4. CASE <<a, m>> \in before
      BY <3>1, <3>4
    <3> QED
      BY <3>2, <3>3, <3>4 DEF Orders
  <2> QED
    BY <2>3, <2>4
<1> HIDE DEF T
<1>4. Nat \subseteq T
  BY <1>2, <1>3, Induction
<1> QED
  BY <1>1, <1>4 DEF T

LEMMA OrderExists ==
    ASSUME NEW S, IsFiniteSet(S), NEW before, Orders(before, S)
    PROVE  \E s \in [1 .. Cardinality(S) -> S] : InOrder(s, Cardinality(S), before)
<1> DEFINE Lines(B, n) == \E s \in [1 .. n -> B] : InOrder(s, n, before)
           T == {n \in Nat : \A B \in SUBSET S : Cardinality(B) = n => Lines(B, n)}
<1>1. \A B \in SUBSET S : IsFiniteSet(B) /\ Cardinality(B) \in Nat
  BY FS_Subset, FS_CardinalityType
<1>2. 0 \in T
  <2>1. ASSUME NEW B PROVE Lines(B, 0)
    <3>1. [i \in 1 .. 0 |-> 0] \in [1 .. 0 -> B]
      OBVIOUS
    <3>2. InOrder([i \in 1 .. 0 |-> 0], 0, before)
      BY DEF InOrder
    <3> QED
      BY <3>1, <3>2
  <2> QED
    BY <2>1
<1>3. ASSUME NEW n \in Nat, n \in T
      PROVE  n + 1 \in T
  <2> SUFFICES ASSUME NEW B \in SUBSET S, Cardinality(B) = n + 1
               PROVE  Lines(B, n + 1)
    OBVIOUS
  <2>1. B # {}
    BY <1>1, FS_EmptySet
  <2>2. PICK m \in B : \A x \in B \ {m} : <<x, m>> \in before
    BY <2>1, LastOf
  <2>3. Cardinality(B \ {m}) = n /\ B \ {m} \in SUBSET S
    <3>1. Cardinality(B \ {m}) = Cardinality(B) - 1
      BY <1>1, <2>2, FS_RemoveElement
    <3> QED
      BY <3>1
  <2>4. PICK s \in [1 .. n -> B \ {m}] : InOrder(s, n, before)
    BY <1>3, <2>3
  <2> DEFINE t == [i \in 1 .. n + 1 |-> IF i = n + 1 THEN m ELSE s[i]]
  <2>5. \A i \in 1 .. n + 1 : i = n + 1 \/ i \in 1 .. n
    OBVIOUS
  <2>6. t \in [1 .. n + 1 -> B]
    BY <2>2, <2>4, <2>5
  <2>7. ASSUME NEW i \in 1 .. n + 1, NEW j \in 1 .. n + 1, i < j
        PROVE  <<t[i], t[j]>> \in before
    <3>1. i \in 1 .. n /\ i # n + 1 /\ t[i] = s[i] /\ s[i] \in B \ {m}
      BY <2>4, <2>5, <2>7
    <3>2. CASE j = n + 1
      BY <2>2, <3>1, <3>2
    <3>3. CASE j # n + 1
      <4>1. j \in 1 .. n /\ t[j] = s[j]
        BY <2>5, <3>3
      <4> QED
        BY <2>4, <2>7, <3>1, <4>1 DEF InOrder
    <3> QED
      BY <3>2, <3>3
  <2>8. InOrder(t, n + 1, before)
    BY <2>7 DEF InOrder
  <2> QED
    BY <2>6, <2>8
<1> HIDE DEF T
<1>4. Nat \subseteq T
  BY <1>2, <1>3, Induction
<1> QED
  BY <1>1, <1>4 DEF T

(* What Ordered() puts in order is the whole set, each member once.         *)
LEMMA OrderedIs ==
    ASSUME NEW S, IsFiniteSet(S), NEW before, Orders(before, S)
    PROVE  /\ Cardinality(S) \in Nat
           /\ Ordered(S, before) \in [1 .. Cardinality(S) -> S]
           /\ InOrder(Ordered(S, before), Cardinality(S), before)
           /\ Range(Ordered(S, before)) = S
<1> DEFINE n == Cardinality(S)
           s == Ordered(S, before)
<1>1. n \in Nat
  BY FS_CardinalityType
<1>2. s \in [1 .. n -> S] /\ InOrder(s, n, before)
  <2>1. PICK t \in [1 .. n -> S] : InOrder(t, n, before)
    BY OrderExists
  <2>2. DOMAIN t = 1 .. n /\ \A i, j \in DOMAIN t : i < j => <<t[i], t[j]>> \in before
    BY <2>1 DEF InOrder
  <2>3. s \in [1 .. n -> S] /\ \A i, j \in DOMAIN s : i < j => <<s[i], s[j]>> \in before
    BY <2>2 DEF Ordered
  <2> QED
    BY <2>3 DEF InOrder
<1>3. \A i, j \in 1 .. n : i # j => s[i] # s[j]
  <2> SUFFICES ASSUME NEW i \in 1 .. n, NEW j \in 1 .. n, i # j, s[i] = s[j]
               PROVE  FALSE
    OBVIOUS
  <2>1. s[i] \in S /\ (<<s[i], s[j]>> \in before \/ <<s[j], s[i]>> \in before)
    <3>1. i < j \/ j < i
      BY <1>1
    <3> HIDE DEF s
    <3> QED
      BY <1>2, <3>1 DEF InOrder
  <2> QED
    BY <2>1 DEF Orders
<1> HIDE DEF s
<1>4. s \in Injection(1 .. n, S)
  BY <1>2, <1>3 DEF Injection, IsInjective
<1>5. IsFiniteSet(1 .. n) /\ Cardinality(1 .. n) = n
  BY <1>1, FS_Interval
<1>6. s \in Surjection(1 .. n, S)
  BY <1>1, <1>4, <1>5, FS_Injection
<1>7. Range(s) = S
  BY <1>2, <1>6 DEF Surjection, Range
<1> QED
  BY <1>1, <1>2, <1>7 DEF s

LEMMA AscendingIs ==
    ASSUME NEW S \in SUBSET Int, IsFiniteSet(S)
    PROVE  /\ Cardinality(S) \in Nat
           /\ Ascending(S) \in [1 .. Cardinality(S) -> S]
           /\ \A i, j \in 1 .. Cardinality(S) : i < j => Ascending(S)[i] < Ascending(S)[j]
           /\ Range(Ascending(S)) = S
<1> DEFINE before == {p \in S \X S : p[1] < p[2]}
<1>1. \A x, y \in S : <<x, y>> \in before <=> x < y
  OBVIOUS
<1> HIDE DEF before
<1>2. Orders(before, S)
  BY <1>1 DEF Orders
<1>3. Ascending(S) = Ordered(S, before)
  BY DEF Ascending, before
<1>4. \A i \in 1 .. Cardinality(S) : Ascending(S)[i] \in S
  BY <1>2, <1>3, OrderedIs
<1> QED
  BY <1>1, <1>2, <1>3, <1>4, OrderedIs DEF InOrder

LEMMA MinIs ==
    ASSUME NEW S \in SUBSET Int, IsFiniteSet(S), S # {}
    PROVE  Min(S) \in S /\ \A x \in S : Min(S) <= x
<1> DEFINE s == Ascending(S)
           n == Cardinality(S)
<1>1. /\ n \in Nat /\ s \in [1 .. n -> S] /\ Range(s) = S
      /\ \A i, j \in 1 .. n : i < j => s[i] < s[j]
  BY AscendingIs
<1> HIDE DEF s, n
<1>2. 1 \in 1 .. n
  BY <1>1 DEF Range
<1>3. ASSUME NEW x \in S PROVE s[1] <= x
  <2>1. PICK i \in 1 .. n : s[i] = x
    BY <1>1 DEF Range
  <2>2. s[1] \in Int /\ x \in Int
    BY <1>1, <1>2
  <2>3. i = 1 \/ 1 < i
    BY <1>1
  <2> QED
    BY <1>1, <1>2, <2>1, <2>2, <2>3
<1>4. \E x \in S : \A y \in S : x <= y
  BY <1>1, <1>2, <1>3
<1> QED
  BY <1>4 DEF Min

LEMMA MaxIs ==
    ASSUME NEW S \in SUBSET Int, IsFiniteSet(S), S # {}
    PROVE  Max(S) \in S /\ \A x \in S : x <= Max(S)
<1> DEFINE s == Ascending(S)
           n == Cardinality(S)
<1>1. /\ n \in Nat /\ s \in [1 .. n -> S] /\ Range(s) = S
      /\ \A i, j \in 1 .. n : i < j => s[i] < s[j]
  BY AscendingIs
<1> HIDE DEF s, n
<1>2. n \in 1 .. n
  BY <1>1 DEF Range
<1>3. ASSUME NEW x \in S PROVE x <= s[n]
  <2>1. PICK i \in 1 .. n : s[i] = x
    BY <1>1 DEF Range
  <2>2. s[n] \in Int /\ x \in Int
    BY <1>1, <1>2
  <2>3. i = n \/ i < n
    BY <1>1
  <2> QED
    BY <1>1, <1>2, <2>1, <2>2, <2>3
<1>4. \E x \in S : \A y \in S : x >= y
  BY <1>1, <1>2, <1>3
<1> QED
  BY <1>4 DEF Max

(* What is picked from a sequence is what it has at some of the places.     *)
LEMMA PickedIs ==
    ASSUME NEW s, NEW places \in SUBSET Int, IsFiniteSet(places)
    PROVE  /\ Cardinality(places) \in Nat
           /\ DOMAIN Picked(s, places) = 1 .. Cardinality(places)
           /\ \A k \in DOMAIN Picked(s, places) : \E i \in places : Picked(s, places)[k] = s[i]
           /\ Picked(s, places) = [k \in 1 .. Cardinality(places) |-> Picked(s, places)[k]]
<1>1. DOMAIN Ascending(places) = 1 .. Cardinality(places) /\ Cardinality(places) \in Nat
  BY AscendingIs
<1>2. \A k \in 1 .. Cardinality(places) : Ascending(places)[k] \in places
  BY AscendingIs
<1> QED
  BY <1>1, <1>2 DEF Picked

-----------------------------------------------------------------------------
(* The cursor.                                                              *)

LEMMA PartOfRows ==
    ASSUME NEW X, NEW s \in Seq(X), NEW P \in SUBSET (DOMAIN s)
    PROVE  P \in SUBSET Int /\ IsFiniteSet(P)
<1>1. DOMAIN s = 1 .. Len(s) /\ Len(s) \in Nat
  OBVIOUS
<1>2. IsFiniteSet(1 .. Len(s))
  BY <1>1, FS_Interval
<1> QED
  BY <1>1, <1>2, FS_Subset

LEMMA FirstIs ==
    ASSUME NEW rs \in Seq(RowType)
    PROVE  IF Openable(rs) = {} THEN First(Openable(rs)) = 0
           ELSE First(Openable(rs)) \in Openable(rs)
<1>1. Openable(rs) \in SUBSET (DOMAIN rs)
  BY DEF Openable
<1>2. Openable(rs) \in SUBSET Int /\ IsFiniteSet(Openable(rs))
  BY <1>1, PartOfRows
<1>3. CASE Openable(rs) = {}
  BY <1>3 DEF First
<1>4. CASE Openable(rs) # {}
  BY <1>2, <1>4, MinIs DEF First
<1> QED
  BY <1>3, <1>4

Placed(i, rs) == IF i = 0 THEN Openable(rs) = {} ELSE i \in Openable(rs)

LEMMA KeptIs ==
    ASSUME NEW rs \in Seq(RowType), NEW gs, NEW id, NEW sec
    PROVE  LET i == KeptCursor(rs, gs, id, sec)
           IN  /\ Placed(i, rs)
               /\ id # None /\ (\E j \in DOMAIN rs : TitleOf(rs, gs, j) = id)
                    => TitleOf(rs, gs, i) = id
<1> DEFINE all == {i \in DOMAIN rs : id # None /\ TitleOf(rs, gs, i) = id}
           same == {i \in all : rs[i].sec = sec}
           k == KeptCursor(rs, gs, id, sec)
<1>1. k = IF same # {} THEN Min(same) ELSE IF all # {} THEN Min(all) ELSE First(Openable(rs))
  BY DEF KeptCursor
<1>2. all \in SUBSET (DOMAIN rs) /\ same \in SUBSET (DOMAIN rs) /\ same \subseteq all
  OBVIOUS
<1>3. \A i \in all : i \in Openable(rs) /\ TitleOf(rs, gs, i) = id /\ i # 0
  <2>1. DOMAIN rs = 1 .. Len(rs)
    OBVIOUS
  <2> QED
    BY <2>1 DEF TitleOf, Openable, Selectable
<1>4. \A S \in {all, same} : S # {} => Min(S) \in all
  BY <1>2, PartOfRows, MinIs
<1>5. id # None /\ (\E j \in DOMAIN rs : TitleOf(rs, gs, j) = id) => all # {}
  OBVIOUS
<1> HIDE DEF all, same, k
<1>6. CASE all # {}
  <2>1. k \in all
    BY <1>1, <1>4, <1>6
  <2>2. k # 0 /\ k \in Openable(rs) /\ TitleOf(rs, gs, k) = id
    BY <1>3, <2>1
  <2> QED
    BY <2>2 DEF k, Placed
<1>7. CASE all = {}
  <2>1. k = First(Openable(rs))
    BY <1>1, <1>2, <1>7
  <2>2. 0 \notin Openable(rs)
    <3>1. DOMAIN rs = 1 .. Len(rs)
      OBVIOUS
    <3> QED
      BY <3>1 DEF Openable
  <2>3. Placed(k, rs)
    BY <2>1, <2>2, FirstIs DEF Placed
  <2> QED
    BY <1>5, <1>7, <2>3 DEF k
<1> QED
  BY <1>6, <1>7 DEF k

Seen(f, s, rs, height) == f <= s /\ (f = s \/ Fits(rs, height, f, s))

LEMMA VisibleIs ==
    ASSUME NEW rs \in Seq(RowType), NEW height, NEW f \in Nat \ {0}, NEW s \in Nat
    PROVE  LET t == VisibleFrom(rs, height, f, s)
           IN  t \in Nat \ {0} /\ (s # 0 => Seen(t, s, rs, height))
<1> DEFINE at == IF s < f THEN s ELSE f
           with == IF at - 1 \in DOMAIN rs /\ rs[at - 1].kind = "section" THEN at - 1 ELSE at
           T == {t \in with .. s : t = s \/ Fits(rs, height, t, s)}
<1>1. CASE s = 0
  BY <1>1 DEF VisibleFrom
<1>2. CASE s # 0
  <2>1. VisibleFrom(rs, height, f, s) = Min(T)
    BY <1>2 DEF VisibleFrom
  <2>2. with \in Nat \ {0} /\ with <= s
    <3>1. at \in Nat \ {0} /\ at <= s
      BY <1>2
    <3>2. DOMAIN rs = 1 .. Len(rs)
      OBVIOUS
    <3> HIDE DEF at
    <3>3. CASE at - 1 \in DOMAIN rs /\ rs[at - 1].kind = "section"
      BY <3>1, <3>2, <3>3
    <3>4. CASE ~(at - 1 \in DOMAIN rs /\ rs[at - 1].kind = "section")
      BY <3>1, <3>4
    <3> QED
      BY <3>3, <3>4
  <2> HIDE DEF with
  <2>3. s \in T /\ T \in SUBSET (with .. s)
    BY <2>2
  <2>4. T \in SUBSET Int /\ IsFiniteSet(T)
    <3>1. with \in Int /\ s \in Int
      BY <2>2
    <3>2. IsFiniteSet(with .. s) /\ with .. s \in SUBSET Int
      BY <3>1, FS_Interval
    <3> HIDE DEF T
    <3> QED
      BY <2>3, <3>2, FS_Subset
  <2>5. Min(T) \in T
    BY <2>3, <2>4, MinIs
  <2> QED
    BY <1>2, <2>1, <2>2, <2>5 DEF Seen
<1> QED
  BY <1>1, <1>2

-----------------------------------------------------------------------------
(* The list.                                                                *)

LetterPresent == Range(games) # {} => \E t \in Range(games) : LetterOf(t) = letter

(* What the rows are derived from.                                          *)
ModelOK ==
    /\ games \in Seq(Titles) /\ Range(games) \in Catalogs
    /\ named \subseteq Titles /\ native \subseteq Titles
    /\ recent \in Seq(Titles) /\ Len(recent) <= RecentMax
    /\ consoles \in 0 .. MaxConsoles /\ looking \in BOOLEAN
    /\ tab \in Range(Tabs) /\ genre \in Range(Genre) \cup {Native, None}
    /\ letter \in Letters \cup {None} /\ query \in Queries
    /\ LetterPresent

GenreCount(g) == Cardinality({t \in Range(games) : InGenre(t, g)})
Present == {g \in Range(Genre) : GenreCount(g) > 0}
GenreBefore ==
    {p \in Present \X Present :
        \/ GenreCount(p[1]) > GenreCount(p[2])
        \/ GenreCount(p[1]) = GenreCount(p[2]) /\ GenreRank[p[1]] < GenreRank[p[2]]}

LEMMA GenresIs ==
    Genres = (IF GenreCount(Native) > 0 THEN <<Native>> ELSE <<>>) \o Ordered(Present, GenreBefore)
  BY DEF Genres, GenreCount, Present, GenreBefore

LEMMA SortedIs ==
    ASSUME LibraryAssumption, NEW c \in Catalogs, NEW names
    PROVE  Sorted(c, names) \in Seq(Titles) /\ Range(Sorted(c, names)) = c
<1> DEFINE before == {p \in c \X c : KeyOf(p[1], names) < KeyOf(p[2], names)}
<1>1. \A t \in c : t \in Titles
  BY DEF LibraryAssumption
<1>2. \A t \in c : KeyOf(t, names) \in Int
  BY <1>1 DEF LibraryAssumption, KeyOf
<1>3. \A t, u \in c : t # u => KeyOf(t, names) # KeyOf(u, names)
  BY <1>1 DEF LibraryAssumption, KeyOf
<1>4. \A t, u \in c : <<t, u>> \in before <=> KeyOf(t, names) < KeyOf(u, names)
  OBVIOUS
<1> HIDE DEF before
<1>5. Orders(before, c)
  BY <1>2, <1>3, <1>4 DEF Orders
<1>6. IsFiniteSet(c)
  BY DEF LibraryAssumption
<1>7. Sorted(c, names) = Ordered(c, before)
  BY DEF Sorted, before
<1>8. Sorted(c, names) \in [1 .. Cardinality(c) -> c] /\ Range(Sorted(c, names)) = c
      /\ Cardinality(c) \in Nat
  BY <1>5, <1>6, <1>7, OrderedIs
<1>9. Sorted(c, names) \in Seq(c)
  BY <1>8
<1> QED
  BY <1>1, <1>8, <1>9

LEMMA LetterIs == ASSUME LibraryAssumption, NEW t \in Titles PROVE LetterOf(t) \in Letters /\ LetterOf(t) \in Int
  BY DEF LibraryAssumption, LetterOf, Letters

LEMMA GamesAre ==
    ASSUME LibraryAssumption, games \in Seq(Titles), Range(games) \in Catalogs
    PROVE  /\ Range(games) \subseteq Titles /\ IsFiniteSet(Range(games))
           /\ DOMAIN games = 1 .. Len(games)
           /\ \A i \in DOMAIN games : games[i] \in Range(games)
<1>1. Range(games) \subseteq Titles /\ IsFiniteSet(Range(games))
  BY DEF LibraryAssumption
<1>2. DOMAIN games = 1 .. Len(games) /\ \A i \in DOMAIN games : games[i] \in Range(games)
  BY DEF Range
<1> QED
  BY <1>1, <1>2

(* The image of a finite set.                                               *)
LEMMA ImageFinite ==
    ASSUME NEW S, IsFiniteSet(S), NEW f
    PROVE  IsFiniteSet({f[x] : x \in S})
<1> DEFINE T == {f[x] : x \in S}
           h == [x \in S |-> f[x]]
<1>1. h \in Surjection(S, T)
  BY DEF Surjection
<1> QED
  BY <1>1, FS_Surjection

LEMMA LetterTabsAre ==
    ASSUME LibraryAssumption, games \in Seq(Titles), Range(games) \in Catalogs
    PROVE  /\ LetterTabs \in Seq({LetterOf(t) : t \in Range(games)})
           /\ Range(LetterTabs) = {LetterOf(t) : t \in Range(games)}
           /\ LetterTabs = <<>> <=> Range(games) = {}
<1> DEFINE S == {LetterOf(t) : t \in Range(games)}
           f == [t \in Range(games) |-> LetterOf(t)]
<1>1. Range(games) \subseteq Titles /\ IsFiniteSet(Range(games))
  BY GamesAre
<1>2. S \in SUBSET Int /\ (S = {} <=> Range(games) = {})
  BY <1>1, LetterIs
<1>3. S = {f[t] : t \in Range(games)}
  OBVIOUS
<1> HIDE DEF f
<1>4. IsFiniteSet(S)
  BY <1>1, <1>3, ImageFinite
<1> HIDE DEF S
<1>5. /\ LetterTabs \in [1 .. Cardinality(S) -> S] /\ Range(LetterTabs) = S
      /\ Cardinality(S) \in Nat
  BY <1>2, <1>4, AscendingIs DEF LetterTabs, S
<1>6. LetterTabs \in Seq(S)
  BY <1>5
<1>7. LetterTabs = <<>> <=> S = {}
  <2>1. LetterTabs = <<>> <=> DOMAIN LetterTabs = {}
    BY <1>6
  <2> QED
    BY <1>5, <2>1 DEF Range
<1> QED
  BY <1>2, <1>5, <1>6, <1>7 DEF S

LEMMA GenresAre ==
    ASSUME LibraryAssumption, games \in Seq(Titles), Range(games) \in Catalogs
    PROVE  Genres \in Seq(Range(Genre) \cup {Native})
<1>1. Range(games) \subseteq Titles /\ IsFiniteSet(Range(games))
  BY GamesAre
<1>2. \A g : GenreCount(g) \in Nat
  BY <1>1, FS_Subset, FS_CardinalityType DEF GenreCount
<1>3. \A g \in Present : \E t \in Range(games) : g = Genre[t]
  <2> SUFFICES ASSUME NEW g \in Range(Genre), GenreCount(g) > 0
               PROVE  \E t \in Range(games) : g = Genre[t]
    BY DEF Present
  <2>1. {t \in Range(games) : InGenre(t, g)} # {}
    <3> DEFINE A == {t \in Range(games) : InGenre(t, g)}
    <3>1. Cardinality(A) > 0
      BY DEF GenreCount
    <3> HIDE DEF A
    <3>2. Cardinality({}) = 0
      BY FS_EmptySet
    <3>3. ASSUME A = {} PROVE FALSE
      <4>1. Cardinality(A) = 0
        BY <3>2, <3>3
      <4> QED
        BY <3>1, <4>1
    <3> QED
      BY <3>3 DEF A
  <2>2. g # Native
    BY DEF LibraryAssumption
  <2> QED
    BY <2>1, <2>2 DEF InGenre
<1>4. Present \in SUBSET {Genre[t] : t \in Range(games)}
  BY <1>3
<1>5. IsFiniteSet(Present)
  <2>1. IsFiniteSet({Genre[t] : t \in Range(games)})
    BY <1>1, ImageFinite
  <2> QED
    BY <1>4, <2>1, FS_Subset
<1>6. \A g \in Present : GenreRank[g] \in Int
  BY <1>1, <1>3 DEF LibraryAssumption
<1>7. \A g, h \in Present : g # h => GenreRank[g] # GenreRank[h]
  BY <1>1, <1>3 DEF LibraryAssumption
<1>8. \A g, h \in Present : <<g, h>> \in GenreBefore <=>
          \/ GenreCount(g) > GenreCount(h)
          \/ GenreCount(g) = GenreCount(h) /\ GenreRank[g] < GenreRank[h]
  BY DEF GenreBefore
<1>9. Genres = (IF GenreCount(Native) > 0 THEN <<Native>> ELSE <<>>)
               \o Ordered(Present, GenreBefore)
  BY GenresIs
<1>10. Present \subseteq Range(Genre)
  BY DEF Present
<1>11. Orders(GenreBefore, Present)
  BY <1>2, <1>6, <1>7, <1>8 DEF Orders
<1>12. /\ Ordered(Present, GenreBefore) \in [1 .. Cardinality(Present) -> Present]
       /\ Cardinality(Present) \in Nat
  BY <1>5, <1>11, OrderedIs
<1>13. Ordered(Present, GenreBefore) \in Seq(Range(Genre) \cup {Native})
  BY <1>10, <1>12
<1>14. (IF GenreCount(Native) > 0 THEN <<Native>> ELSE <<>>) \in Seq(Range(Genre) \cup {Native})
  <2>1. <<>> \in Seq(Range(Genre) \cup {Native}) /\ <<Native>> \in Seq(Range(Genre) \cup {Native})
    OBVIOUS
  <2> QED
    BY <2>1
<1> QED
  BY <1>9, <1>13, <1>14

(* A row that shows something the model has.                                *)
FitRows ==
    {r \in RowType :
        /\ r.kind = "game" => r.i \in DOMAIN games
        /\ r.kind = "console" => r.i \in 1 .. consoles
        /\ r.kind = "genre" => r.i \in DOMAIN Genres}

LEMMA PlacesAre ==
    ASSUME LibraryAssumption, games \in Seq(Titles), NEW ids \in Seq(Titles)
    PROVE  Places(ids) \in Seq(DOMAIN games)
<1> DEFINE at == {i \in DOMAIN ids : ids[i] \in Range(games)}
           listed == Picked(ids, at)
           n == Cardinality(at)
<1>1. at \in SUBSET Int /\ IsFiniteSet(at)
  BY PartOfRows
<1>2. \A i \in at : ids[i] \in Range(games)
  OBVIOUS
<1> HIDE DEF at
<1>3. /\ n \in Nat /\ DOMAIN listed = 1 .. n
      /\ \A k \in DOMAIN listed : \E i \in at : listed[k] = ids[i]
  BY <1>1, PickedIs
<1>4. Places(ids) = [k \in DOMAIN listed |-> CHOOSE m \in DOMAIN games : games[m] = listed[k]]
  BY DEF Places, at
<1> HIDE DEF listed, n
<1>5. \A k \in DOMAIN listed : \E m \in DOMAIN games : games[m] = listed[k]
  BY <1>2, <1>3 DEF Range
<1>6. \A k \in 1 .. n : (CHOOSE m \in DOMAIN games : games[m] = listed[k]) \in DOMAIN games
  BY <1>3, <1>5
<1>7. Places(ids) \in [1 .. n -> DOMAIN games]
  BY <1>3, <1>4, <1>6
<1> QED
  BY <1>3, <1>7

LEMMA GameRowsFit ==
    ASSUME games \in Seq(Titles), NEW sec \in {"recent", "all"}, NEW indexes \in Seq(DOMAIN games)
    PROVE  GameRows(sec, indexes) \in Seq(FitRows)
<1>1. \A i \in 1 .. Len(indexes) : indexes[i] \in DOMAIN games /\ indexes[i] \in Nat
  BY DOMAIN games = 1 .. Len(games)
<1>2. \A i \in 1 .. Len(indexes) : Row("game", sec, indexes[i]) \in FitRows
  BY <1>1 DEF Row, FitRows, RowType, Selectable
<1> QED
  BY <1>2, Len(indexes) \in Nat DEF GameRows

LEMMA EntriesFit ==
    ASSUME NEW kind \in {"console", "genre", "tool"}, NEW sec \in {"console", "all"}, NEW n \in Nat,
           kind = "console" => n = consoles, kind = "genre" => DOMAIN Genres = 1 .. n
    PROVE  Entries(kind, sec, n) \in Seq(FitRows)
<1>1. \A i \in 1 .. n : Row(kind, sec, i) \in FitRows
  BY DEF Row, FitRows, RowType, Selectable
<1> QED
  BY <1>1 DEF Entries

LEMMA HeadingsFit ==
    ASSUME NEW sec \in {"console", "recent", "all"}
    PROVE  Section(sec) \in Seq(FitRows) /\ Note(sec) \in Seq(FitRows)
<1>1. Row("section", sec, 0) \in FitRows /\ Row("note", sec, 0) \in FitRows
  BY DEF Row, FitRows, RowType, Selectable
<1> QED
  BY <1>1 DEF Section, Note

LEMMA ListRowsFit == ASSUME games \in Seq(Titles) PROVE ListRows \in Seq(FitRows)
<1> DEFINE at == {i \in DOMAIN games : Listed(games[i])}
<1>1. at \in SUBSET Int /\ IsFiniteSet(at) /\ at \subseteq DOMAIN games
  BY PartOfRows
<1>2. ListRows = Section("all") \o GameRows("all", Ascending(at))
  BY DEF ListRows
<1> HIDE DEF at
<1>3. Ascending(at) \in [1 .. Cardinality(at) -> at] /\ Cardinality(at) \in Nat
  BY <1>1, AscendingIs
<1>4. Ascending(at) \in Seq(DOMAIN games)
  <2>1. Ascending(at) \in [1 .. Cardinality(at) -> DOMAIN games]
    BY <1>1, <1>3
  <2> HIDE DEF Ascending
  <2> QED
    BY <1>3, <2>1
<1>5. GameRows("all", Ascending(at)) \in Seq(FitRows)
  BY <1>4, GameRowsFit
<1> QED
  BY <1>2, <1>5, HeadingsFit

LEMMA HomeRowsFit ==
    ASSUME LibraryAssumption, games \in Seq(Titles), recent \in Seq(Titles), consoles \in Nat
    PROVE  HomeRows(consoles, recent) \in Seq(FitRows)
<1>1. Entries("console", "console", consoles) \in Seq(FitRows)
  BY EntriesFit
<1>2. GameRows("recent", Places(recent)) \in Seq(FitRows)
  BY PlacesAre, GameRowsFit
<1> DEFINE A == IF consoles = 0 THEN Note("console") ELSE Entries("console", "console", consoles)
           B == IF Places(recent) = <<>> THEN <<>>
                ELSE Section("recent") \o GameRows("recent", Places(recent))
<1>3. A \in Seq(FitRows)
  BY <1>1, HeadingsFit
<1>4. B \in Seq(FitRows)
  <2>1. Section("recent") \o GameRows("recent", Places(recent)) \in Seq(FitRows)
    BY <1>2, HeadingsFit
  <2> QED
    BY <2>1
<1>5. HomeRows(consoles, recent) = Section("console") \o A \o B \o Section("all") \o Note("all")
  BY DEF HomeRows
<1> HIDE DEF A, B
<1> QED
  BY <1>3, <1>4, <1>5, HeadingsFit

(* Whatever the screen shows, its rows are of things the model has.         *)
LEMMA RowsFit == LibraryAssumption /\ ModelOK => BuiltRows \in Seq(FitRows)
<1> SUFFICES ASSUME LibraryAssumption, ModelOK PROVE BuiltRows \in Seq(FitRows)
  OBVIOUS
<1>1. games \in Seq(Titles) /\ recent \in Seq(Titles) /\ consoles \in Nat
  BY DEF ModelOK
<1>2. ListRows \in Seq(FitRows) /\ HomeRows(consoles, recent) \in Seq(FitRows) /\ <<>> \in Seq(FitRows)
  BY <1>1, ListRowsFit, HomeRowsFit
<1>3. Section("all") \o Entries("tool", "all", Len(Tools)) \in Seq(FitRows)
  BY EntriesFit, HeadingsFit DEF Tools
<1>4. Section("all") \o Entries("genre", "all", Len(Genres))
      \o (IF Genres = <<>> THEN Note("all") ELSE <<>>) \in Seq(FitRows)
  <2>1. Len(Genres) \in Nat /\ DOMAIN Genres = 1 .. Len(Genres)
    BY GenresAre DEF ModelOK
  <2>2. Entries("genre", "all", Len(Genres)) \in Seq(FitRows)
    BY <2>1, EntriesFit
  <2>3. (IF Genres = <<>> THEN Note("all") ELSE <<>>) \in Seq(FitRows)
    BY <1>2, HeadingsFit
  <2> QED
    BY <2>2, <2>3, HeadingsFit
<1> QED
  BY <1>2, <1>3, <1>4 DEF BuiltRows, RowsWith

RowsVars == <<games, named, native, recent, consoles, tab, genre, letter, query>>

LEMMA FitSame ==
    ASSUME UNCHANGED <<games, named, native, consoles>>
    PROVE  FitRows' = FitRows /\ (\A t : LetterOf(t)' = LetterOf(t)) /\ Genres' = Genres
<1>1. games' = games /\ named' = named /\ native' = native /\ consoles' = consoles
  OBVIOUS
<1>2. \A t : LetterOf(t)' = LetterOf(t)
  BY <1>1 DEF LetterOf
<1>3. \A t, g : InGenre(t, g)' = InGenre(t, g)
  BY <1>1 DEF InGenre
<1>4. Genres' = Genres
  <2>1. \A g : {t \in Range(games)' : InGenre(t, g)'} = {t \in Range(games) : InGenre(t, g)}
    BY <1>1, <1>3
  <2>2. \A g : GenreCount(g)' = GenreCount(g)
    BY <2>1 DEF GenreCount
  <2>3. Present' = Present
    BY <2>2 DEF Present
  <2>4. GenreBefore' = GenreBefore
    BY <2>2, <2>3 DEF GenreBefore
  <2>5. Genres' = (IF GenreCount(Native)' > 0 THEN <<Native>> ELSE <<>>)
                  \o Ordered(Present', GenreBefore')
    BY DEF Genres, GenreCount, Present, GenreBefore
  <2> QED
    BY <2>2, <2>3, <2>4, <2>5, GenresIs
<1> QED
  BY <1>1, <1>2, <1>4 DEF FitRows

LEMMA RowsSame ==
    ASSUME UNCHANGED RowsVars
    PROVE  BuiltRows' = BuiltRows /\ FitRows' = FitRows /\ LetterPresent' = LetterPresent
<1>1. /\ games' = games /\ named' = named /\ native' = native /\ recent' = recent
      /\ consoles' = consoles /\ tab' = tab /\ genre' = genre /\ letter' = letter /\ query' = query
  BY DEF RowsVars
<1>2. FitRows' = FitRows /\ (\A t : LetterOf(t)' = LetterOf(t)) /\ Genres' = Genres
  BY <1>1, FitSame
<1>3. \A t, g : InGenre(t, g)' = InGenre(t, g)
  BY <1>1 DEF InGenre
<1>4. Places(recent)' = Places(recent)
  BY <1>1 DEF Places
<1>5. \A t : Listed(t)' = Listed(t)
  BY <1>1, <1>2, <1>3 DEF Listed
<1>6. ListRows' = ListRows
  <2>1. {i \in DOMAIN games : Listed(games[i])}' = {i \in DOMAIN games : Listed(games[i])}
    BY <1>1, <1>5
  <2> QED
    BY <2>1 DEF ListRows
<1>7. HomeRows(consoles, recent)' = HomeRows(consoles, recent)
  BY <1>1, <1>4 DEF HomeRows
<1>8. BuiltRows' = BuiltRows
  BY <1>1, <1>2, <1>6, <1>7 DEF BuiltRows, RowsWith
<1>9. LetterPresent' = LetterPresent
  BY <1>1, <1>2 DEF LetterPresent
<1> QED
  BY <1>2, <1>8, <1>9

LEMMA FitNext == ASSUME LibraryAssumption, ModelOK' PROVE (BuiltRows \in Seq(FitRows))'
<1>1. (ModelOK => BuiltRows \in Seq(FitRows))'
  BY RowsFit, PTL
<1> QED
  BY <1>1

-----------------------------------------------------------------------------
(* The invariant.                                                           *)

ListOK ==
    /\ rows \in Seq(FitRows) /\ sel \in Nat /\ top \in Nat \ {0}
    /\ loose \subseteq {"consoles", "query"}
    /\ RowsShowModel /\ CursorOnEntry /\ CursorVisible

ScreenOK ==
    /\ focus \in {"tabs", "strip", "body"} /\ stopped \in BOOLEAN
    /\ search \in BOOLEAN /\ searchFrom \in Titles \cup {None}

WorkOK ==
    /\ worker \in {"catalog", "consoles", "done"} /\ pc \in {"pump", "input", "crashed"}
    /\ fresh \in Catalogs \cup {None} /\ freshConsoles \in 0 .. MaxConsoles \cup {None}

PageOK == ModelOK /\ ListOK /\ ScreenOK
LibraryInv == PageOK /\ WorkOK

LEMMA FitRowsAre == \A rs : rs \in Seq(FitRows) => rs \in Seq(RowType)
  BY DEF FitRows

LEMMA RowsWhere == \A rs \in Seq(RowType) : DOMAIN rs = 1 .. Len(rs) /\ Len(rs) \in Nat
  OBVIOUS

LEMMA TypesFollow == LibraryInv => TypeOK
<1> SUFFICES ASSUME LibraryInv PROVE TypeOK
  OBVIOUS
<1>1. rows \in Seq(RowType) /\ DOMAIN rows = 1 .. Len(rows) /\ Len(rows) \in Nat
  BY FitRowsAre, RowsWhere DEF LibraryInv, PageOK, ListOK
<1>2. \A i \in DOMAIN rows :
        /\ rows[i].kind = "game" => rows[i].i \in DOMAIN games
        /\ rows[i].kind = "console" => rows[i].i \in 1 .. consoles
        /\ rows[i].kind = "genre" => rows[i].i \in DOMAIN Genres
  BY DEF LibraryInv, PageOK, ListOK, FitRows
<1>3. sel > Len(rows) => "consoles" \in loose
  BY <1>1 DEF LibraryInv, PageOK, ListOK, CursorOnEntry, Openable
<1> QED
  BY <1>1, <1>2, <1>3 DEF LibraryInv, PageOK, ModelOK, ListOK, ScreenOK, WorkOK, TypeOK

(* Wherever the cursor is put in rows that have just been built, the list is *)
(* scrolled to it.                                                          *)
LEMMA Landed ==
    ASSUME LibraryAssumption, ModelOK', rows' = BuiltRows', loose' = {},
           Placed(sel', rows'), NEW f \in Nat \ {0}, top' = VisibleFrom(rows', Height', f, sel')
    PROVE  ListOK'
<1>1. rows' \in Seq(FitRows)' /\ rows' \in Seq(RowType)
  BY FitNext DEF FitRows
<1>2. sel' \in Nat
  BY <1>1, RowsWhere DEF Placed, Openable
<1>3. top' \in Nat \ {0} /\ (sel' # 0 => Seen(top', sel', rows', Height'))
  BY <1>1, <1>2, VisibleIs
<1>4. CursorVisible'
  BY <1>3 DEF CursorVisible, Seen
<1>5. RowsShowModel' /\ CursorOnEntry'
  BY DEF RowsShowModel, CursorOnEntry, Placed
<1> QED
  BY <1>1, <1>2, <1>3, <1>4, <1>5 DEF ListOK

LEMMA Rebuilt ==
    ASSUME LibraryAssumption, ModelOK', NEW id, NEW sec, NEW f \in Nat \ {0}, Rebuild(id, sec, f)
    PROVE  ListOK'
<1>1. rows' \in Seq(RowType)
  BY FitNext DEF FitRows, Rebuild
<1>2. Placed(sel', rows')
  BY <1>1, KeptIs DEF Rebuild
<1> QED
  BY <1>2, Landed DEF Rebuild

(* A cursor moved over the same rows, and the list scrolled to it.          *)
LEMMA Moved ==
    ASSUME ListOK, UNCHANGED <<games, named, native, consoles, rows>>,
           loose' \subseteq {"consoles", "query"}, "query" \in loose => "query" \in loose',
           "query" \notin loose' => UNCHANGED RowsVars,
           sel' \in Nat, "consoles" \notin loose' => Placed(sel', rows),
           NEW f \in Nat \ {0}, top' = VisibleFrom(rows, Height', f, sel')
    PROVE  ListOK'
<1>1. rows' = rows /\ FitRows' = FitRows /\ rows \in Seq(RowType)
  BY FitSame, FitRowsAre DEF ListOK
<1>2. top' \in Nat \ {0} /\ (sel' # 0 => Seen(top', sel', rows', Height'))
  BY <1>1, VisibleIs
<1>3. CursorVisible'
  BY <1>2 DEF CursorVisible, Seen
<1>4. RowsShowModel'
  BY <1>1, RowsSame DEF RowsShowModel, ListOK
<1>5. CursorOnEntry'
  BY <1>1 DEF CursorOnEntry, Placed
<1> QED
  BY <1>1, <1>2, <1>3, <1>4, <1>5 DEF ListOK

(* Nothing the rows are derived from has changed, and the list is as it was. *)
LEMMA ListStays ==
    ASSUME ListOK, UNCHANGED RowsVars, UNCHANGED listVars, UNCHANGED search
    PROVE  ListOK'
<1>1. BuiltRows' = BuiltRows /\ FitRows' = FitRows
  BY RowsSame
<1>2. rows' = rows /\ sel' = sel /\ top' = top /\ loose' = loose
  BY DEF listVars
<1>3. Height' = Height
  BY DEF Height, LettersShowing, GenreStripShowing, RowsVars
<1>4. RowsShowModel' /\ CursorOnEntry' /\ CursorVisible'
  BY <1>1, <1>2, <1>3 DEF ListOK, RowsShowModel, CursorOnEntry, CursorVisible
<1> QED
  BY <1>1, <1>2, <1>4 DEF ListOK

LEMMA ModelStays ==
    ASSUME ModelOK, UNCHANGED <<dataVars, letter>>,
           tab' \in Range(Tabs), genre' \in Range(Genre) \cup {Native, None}, query' \in Queries
    PROVE  ModelOK'
<1>1. UNCHANGED <<games, named, native, consoles>> /\ letter' = letter
  BY DEF dataVars
<1>2. LetterPresent'
  BY <1>1, FitSame DEF ModelOK, LetterPresent
<1> QED
  BY <1>1, <1>2 DEF ModelOK, dataVars

LEMMA TitleIs ==
    ASSUME LibraryAssumption, ModelOK, ListOK
    PROVE  /\ Title(sel) \in Titles \cup {None}
           /\ sel \in DOMAIN rows /\ rows[sel].kind = "game" => Title(sel) \in Titles
<1>1. CASE sel \in DOMAIN rows /\ rows[sel].kind = "game"
  <2>1. rows[sel] \in FitRows
    BY <1>1 DEF ListOK
  <2>2. games[rows[sel].i] \in Range(games)
    BY <1>1, <2>1, GamesAre DEF FitRows, ModelOK
  <2> QED
    BY <1>1, <2>2, GamesAre DEF Title, TitleOf, ModelOK
<1>2. CASE ~(sel \in DOMAIN rows /\ rows[sel].kind = "game")
  BY <1>2 DEF Title, TitleOf
<1> QED
  BY <1>1, <1>2

-----------------------------------------------------------------------------
(* What the screen starts with.                                             *)

LEMMA ScreenInit == ASSUME LibraryAssumption, Init PROVE LibraryInv
<1>1. PICK c \in Catalogs \ {{}} : games = Sorted(c, named)
  BY DEF Init
<1>2. games \in Seq(Titles) /\ Range(games) = c
  BY <1>1, SortedIs
<1>3. letter \in {LetterOf(t) : t \in Range(games)}
  <2>1. LetterTabs \in Seq({LetterOf(t) : t \in Range(games)}) /\ LetterTabs # <<>>
    BY <1>2, LetterTabsAre
  <2>2. LetterTabs[1] \in {LetterOf(t) : t \in Range(games)}
    BY <2>1
  <2> QED
    BY <2>2 DEF Init
<1>4. LetterPresent /\ letter \in Letters \cup {None}
  BY <1>2, <1>3, GamesAre, LetterIs DEF LetterPresent
<1>5. ModelOK
  <2>1. named \subseteq Titles /\ consoles \in 0 .. MaxConsoles /\ Len(recent) <= RecentMax
        /\ recent \in Seq(Titles)
    BY DEF LibraryAssumption, Init
  <2>2. tab \in Range(Tabs) /\ query \in Queries
    BY DEF Init, Range, Tabs, Queries
  <2> QED
    BY <1>2, <1>4, <2>1, <2>2 DEF Init, ModelOK
<1>6. rows \in Seq(FitRows) /\ rows \in Seq(RowType)
  BY <1>5, RowsFit, FitRowsAre DEF Init
<1>7. Placed(sel, rows)
  BY <1>6, KeptIs DEF Init
<1>8. sel \in Nat
  BY <1>6, <1>7, RowsWhere DEF Placed, Openable
<1>9. top \in Nat \ {0} /\ (sel # 0 => Seen(top, sel, rows, Height))
  BY <1>6, <1>8, VisibleIs DEF Init
<1>10. ListOK
  BY <1>6, <1>7, <1>8, <1>9
     DEF ListOK, Init, RowsShowModel, CursorOnEntry, CursorVisible, Placed, Seen
<1>11. ScreenOK /\ WorkOK
  BY DEF Init, ScreenOK, WorkOK
<1> QED
  BY <1>5, <1>10, <1>11 DEF LibraryInv, PageOK

-----------------------------------------------------------------------------
(* What each step does to it.                                               *)

LEMMA PageStays ==
    ASSUME PageOK, UNCHANGED <<dataVars, viewVars, listVars, search>>, ScreenOK'
    PROVE  PageOK'
<1>1. UNCHANGED RowsVars /\ UNCHANGED listVars /\ UNCHANGED search
  BY DEF dataVars, viewVars, RowsVars
<1>2. ListOK'
  BY <1>1, ListStays DEF PageOK
<1>3. UNCHANGED <<dataVars, letter>> /\ tab' = tab /\ genre' = genre /\ query' = query
  BY DEF viewVars
<1>4. ModelOK'
  BY <1>3, ModelStays DEF PageOK, ModelOK
<1> QED
  BY <1>2, <1>4 DEF PageOK

(* A letter that has no title any more gives way to one that has, if any    *)
(* title is left.                                                           *)
LEMMA LetterStays ==
    ASSUME LibraryAssumption, LetterKept, letter \in Letters \cup {None},
           games' \in Seq(Titles), Range(games') \in Catalogs
    PROVE  LetterPresent' /\ letter' \in Letters \cup {None}
<1>1. /\ LetterTabs' \in Seq({LetterOf(t) : t \in Range(games)}')
      /\ LetterTabs' = <<>> <=> Range(games)' = {}
  <2>1. (games \in Seq(Titles) /\ Range(games) \in Catalogs =>
            /\ LetterTabs \in Seq({LetterOf(t) : t \in Range(games)})
            /\ LetterTabs = <<>> <=> Range(games) = {})'
    BY LetterTabsAre, PTL
  <2> QED
    BY <2>1
<1>2. Range(games') \subseteq Titles
  BY DEF LibraryAssumption
<1>3. \A t \in Titles : LetterOf(t)' \in Letters
  BY DEF LibraryAssumption, LetterOf, Letters
<1>4. CASE LetterTabs' = <<>>
  BY <1>1, <1>4 DEF LetterKept, LetterPresent
<1>5. CASE LetterTabs' # <<>> /\ \E t \in Range(games)' : LetterOf(t)' = letter
  BY <1>5 DEF LetterKept, LetterPresent
<1>6. CASE LetterTabs' # <<>> /\ ~ \E t \in Range(games)' : LetterOf(t)' = letter
  <2>1. letter' = LetterTabs'[1]
    BY <1>6 DEF LetterKept
  <2>2. letter' \in {LetterOf(t) : t \in Range(games)}'
    BY <1>1, <1>6, <2>1
  <2> QED
    BY <1>2, <1>3, <2>2 DEF LetterPresent
<1> QED
  BY <1>4, <1>5, <1>6

LEMMA NamesKeep ==
    ASSUME LibraryAssumption, PageOK, NamesArrive,
           UNCHANGED <<tab, genre, query, focus, searchVars, stopped>>
    PROVE  PageOK'
<1>1. Range(games) \in Catalogs /\ Range(games) \subseteq Titles
  BY DEF PageOK, ModelOK, LibraryAssumption
<1>2. named' \subseteq Titles
  BY <1>1 DEF NamesArrive, PageOK, ModelOK
<1>3. games' \in Seq(Titles) /\ Range(games') \in Catalogs
  BY <1>1, SortedIs DEF NamesArrive
<1>4. LetterPresent' /\ letter' \in Letters \cup {None}
  BY <1>3, LetterStays DEF NamesArrive, Resort, PageOK, ModelOK
<1>5. ModelOK'
  BY <1>2, <1>3, <1>4 DEF NamesArrive, PageOK, ModelOK
<1>6. ListOK'
  BY <1>5, Rebuilt DEF NamesArrive, Resort, PageOK, ListOK
<1> QED
  BY <1>5, <1>6 DEF PageOK, ScreenOK, searchVars

(* Consoles that change the list under the cursor leave it loose.           *)
LEMMA ConsolesKeep ==
    ASSUME LibraryAssumption, LibraryInv, TakeConsoles, RebuildInPlace,
           UNCHANGED <<named, native, recent, tab, genre, query, focus, searchVars, stopped>>
    PROVE  PageOK'
<1>1. consoles' \in 0 .. MaxConsoles /\ looking' \in BOOLEAN
  BY DEF TakeConsoles, FoundSoFar, LibraryInv, PageOK, ModelOK, WorkOK
<1>2. \A t : LetterOf(t)' = LetterOf(t)
  BY DEF LetterOf
<1>3. LetterPresent'
  BY <1>2 DEF RebuildInPlace, LetterPresent, LibraryInv, PageOK, ModelOK
<1>4. ModelOK'
  BY <1>1, <1>3 DEF RebuildInPlace, LibraryInv, PageOK, ModelOK
<1>5. CASE rows' = BuiltRows' /\ rows' # rows
  <2>1. rows' \in Seq(FitRows)' /\ loose' = {"consoles"}
    BY <1>4, <1>5, FitNext DEF RebuildInPlace
  <2> QED
    BY <1>4, <1>5, <2>1
       DEF RebuildInPlace, LibraryInv, PageOK, ListOK, ScreenOK, searchVars, RowsShowModel,
           CursorOnEntry, CursorVisible
<1>6. CASE rows' = BuiltRows' /\ rows' = rows
  <2>1. rows' \in Seq(FitRows)' /\ loose' = loose
    BY <1>4, <1>6, FitNext DEF RebuildInPlace
  <2>2. Height' = Height
    BY DEF Height, LettersShowing, GenreStripShowing, searchVars
  <2> QED
    BY <1>4, <1>6, <2>1, <2>2
       DEF RebuildInPlace, LibraryInv, PageOK, ListOK, ScreenOK, searchVars, RowsShowModel,
           CursorOnEntry, CursorVisible
<1>7. CASE UNCHANGED <<consoles, looking, rows, loose>>
  <2>1. UNCHANGED <<dataVars, viewVars, listVars, search>>
    BY <1>7 DEF dataVars, viewVars, listVars, searchVars, RebuildInPlace
  <2> QED
    BY <2>1, PageStays DEF LibraryInv, PageOK, ScreenOK, searchVars
<1> QED
  BY <1>5, <1>6, <1>7 DEF RebuildInPlace

LEMMA CatalogKeeps ==
    ASSUME LibraryAssumption, LibraryInv, TakeConsoles, TakeCatalog, fresh # None,
           UNCHANGED <<named, native, recent, tab, genre, query, focus, searchVars, stopped>>
    PROVE  PageOK'
<1>1. consoles' \in 0 .. MaxConsoles /\ looking' \in BOOLEAN
  BY DEF TakeConsoles, FoundSoFar, LibraryInv, PageOK, ModelOK, WorkOK
<1>2. fresh \in Catalogs
  BY DEF LibraryInv, WorkOK
<1>3. games' \in Seq(Titles) /\ Range(games') \in Catalogs
  BY <1>2, SortedIs DEF TakeCatalog
<1>4. PICK keep, sec : Resort(keep, sec)
  BY DEF TakeCatalog
<1>5. LetterPresent' /\ letter' \in Letters \cup {None}
  BY <1>3, <1>4, LetterStays DEF Resort, LibraryInv, PageOK, ModelOK
<1>6. ModelOK'
  BY <1>1, <1>3, <1>5 DEF LibraryInv, PageOK, ModelOK
<1>7. ListOK'
  BY <1>4, <1>6, Rebuilt DEF Resort, LibraryInv, PageOK, ListOK
<1> QED
  BY <1>6, <1>7 DEF LibraryInv, PageOK, ScreenOK, searchVars

LEMMA PumpKeeps == ASSUME LibraryAssumption, LibraryInv, Pump PROVE LibraryInv'
<1>1. /\ UNCHANGED <<tab, genre, query, focus, searchVars, stopped>>
      /\ pc' = "input" /\ worker' = worker
  BY DEF Pump
<1>2. CASE NamesArrive
  <2>1. PageOK'
    BY <1>1, <1>2, NamesKeep DEF LibraryInv
  <2> QED
    BY <1>1, <1>2, <2>1 DEF NamesArrive, LibraryInv, WorkOK
<1>3. CASE Refresh
  <2>1. /\ TakeConsoles /\ UNCHANGED <<named, native, recent>> /\ fresh' = None
        /\ freshConsoles' = None
    BY <1>3 DEF Refresh, TakeConsoles
  <2>2. CASE RebuildInPlace
    BY <1>1, <2>1, <2>2, ConsolesKeep DEF LibraryInv, WorkOK
  <2>3. CASE fresh # None /\ TakeCatalog
    BY <1>1, <2>1, <2>3, CatalogKeeps DEF LibraryInv, WorkOK
  <2> QED
    BY <1>3, <2>2, <2>3 DEF Refresh
<1>4. CASE NothingArrives
  <2>1. UNCHANGED <<dataVars, viewVars, listVars, search>>
    BY <1>1, <1>4 DEF NothingArrives, viewVars, searchVars
  <2>2. ScreenOK'
    BY <1>1 DEF LibraryInv, PageOK, ScreenOK, searchVars
  <2>3. PageOK'
    BY <2>1, <2>2, PageStays DEF LibraryInv
  <2> QED
    BY <1>1, <1>4, <2>3 DEF NothingArrives, LibraryInv, WorkOK
<1> QED
  BY <1>2, <1>3, <1>4 DEF Pump

LEMMA WorkKeeps == ASSUME LibraryAssumption, LibraryInv, Work PROVE LibraryInv'
<1>1. UNCHANGED <<dataVars, viewVars, listVars, search>> /\ ScreenOK'
  BY DEF Work, searchVars, LibraryInv, PageOK, ScreenOK
<1>2. PageOK'
  BY <1>1, PageStays DEF LibraryInv
<1>3. WorkOK'
  <2>1. MaxConsoles \in Nat
    BY DEF LibraryAssumption
  <2> QED
    BY <2>1 DEF Work, CatalogFetched, ConsolesFetched, FetchedCatalogs, FoundConsoles,
                LibraryInv, WorkOK
<1> QED
  BY <1>2, <1>3 DEF LibraryInv

-----------------------------------------------------------------------------
(* Buttons.                                                                 *)

LEMMA NothingKeeps ==
    ASSUME PageOK, UNCHANGED <<viewVars, listVars>>, OnList, focus' \in {"tabs", "strip", "body"}
    PROVE  PageOK'
<1>1. UNCHANGED <<dataVars, viewVars, listVars, search>> /\ ScreenOK'
  BY DEF OnList, searchVars, PageOK, ScreenOK
<1> QED
  BY <1>1, PageStays

(* A new tab, genre, letter or query, and a list built for it.              *)
LEMMA NewPageKeeps ==
    ASSUME LibraryAssumption, PageOK, OnList, letter' = letter,
           tab' \in Range(Tabs), genre' \in Range(Genre) \cup {Native, None}, query' \in Queries,
           focus' \in {"tabs", "strip", "body"},
           NEW id, NEW sec, NEW f \in Nat \ {0}, Rebuild(id, sec, f)
    PROVE  PageOK'
<1>1. ModelOK'
  BY ModelStays DEF PageOK, OnList
<1>2. ListOK'
  BY <1>1, Rebuilt
<1> QED
  BY <1>1, <1>2 DEF OnList, searchVars, PageOK, ScreenOK

LEMMA TurnedIs ==
    ASSUME NEW n \in Nat \ {0}, NEW seq, DOMAIN seq = 1 .. n, Len(seq) = n,
           NEW x, \E i \in 1 .. n : seq[i] = x, NEW dir \in {-1, 1}
    PROVE  \E i \in 1 .. n : Turned(seq, x, dir) = seq[i]
<1> DEFINE at == CHOOSE i \in 1 .. n : seq[i] = x
<1>1. at \in 1 .. n
  OBVIOUS
<1>2. Turned(seq, x, dir) = seq[((at - 1 + n + dir) % n) + 1]
  BY DEF Turned
<1> HIDE DEF at
<1>3. at - 1 + n + dir \in Nat
  BY <1>1
<1>4. (at - 1 + n + dir) % n \in 0 .. n - 1
  BY <1>3
<1> QED
  BY <1>2, <1>4

LEMMA TabKeeps ==
    ASSUME LibraryAssumption, PageOK, NEW dir \in {-1, 1}, TabStep(dir)
    PROVE  PageOK'
<1>1. PICK n \in Nat \ {0} : n = 5
  OBVIOUS
<1>2. Len(Tabs) = n /\ DOMAIN Tabs = 1 .. n
  BY <1>1 DEF Tabs
<1>3. tab' \in Range(Tabs)
  <2>1. \E i \in 1 .. n : Tabs[i] = tab
    BY <1>2 DEF PageOK, ModelOK, Range
  <2>2. \E i \in 1 .. n : Turned(Tabs, tab, dir) = Tabs[i]
    BY <1>2, <2>1, TurnedIs
  <2> QED
    BY <1>2, <2>2 DEF TabStep, Range
<1>4. query' \in Queries /\ genre' \in Range(Genre) \cup {Native, None}
  BY DEF TabStep, Queries
<1>5. focus' \in {"tabs", "strip", "body"}
  BY DEF TabStep, PageOK, ScreenOK
<1> QED
  BY <1>3, <1>4, <1>5, NewPageKeeps DEF TabStep, NewList

LEMMA ToListKeeps == ASSUME LibraryAssumption, PageOK, ToList PROVE PageOK'
<1>1. UNCHANGED <<dataVars, letter>> /\ tab' = tab /\ genre' = genre /\ query' = query
  BY DEF ToList, OnList, viewVars
<1>2. ModelOK'
  BY <1>1, ModelStays DEF PageOK, ModelOK
<1>3. ScreenOK'
  BY DEF ToList, OnList, searchVars, PageOK, ScreenOK
<1>4. CASE sel' = 0
  <2>1. sel' = sel /\ UNCHANGED listVars
    BY <1>4 DEF ToList, listVars
  <2>2. UNCHANGED <<dataVars, viewVars, listVars, search>>
    BY <2>1 DEF ToList, OnList, searchVars
  <2> QED
    BY <1>3, <2>2, PageStays
<1>5. CASE sel' # 0
  <2>1. rows \in Seq(RowType)
    BY FitRowsAre DEF PageOK, ListOK
  <2>2. sel' \in Nat
    BY <2>1, FirstIs, RowsWhere DEF ToList, PageOK, ListOK, Openable
  <2>3. "consoles" \notin loose => Placed(sel', rows)
    BY <1>5, <2>1, FirstIs DEF ToList, PageOK, ListOK, CursorOnEntry, Placed
  <2>4. top' = VisibleFrom(rows, Height', top, sel')
    BY <1>5 DEF ToList, Height, LettersShowing, GenreStripShowing, viewVars, OnList, searchVars
  <2>5. UNCHANGED RowsVars /\ rows' = rows /\ loose' = loose
    BY <1>1 DEF RowsVars, dataVars, ToList
  <2>6. ListOK'
    BY <2>2, <2>3, <2>4, <2>5, Moved DEF RowsVars, PageOK, ListOK
  <2> QED
    BY <1>2, <1>3, <2>6 DEF PageOK
<1> QED
  BY <1>4, <1>5

LEMMA DownKeeps == ASSUME LibraryAssumption, PageOK, FocusDown PROVE PageOK'
  BY ToListKeeps, NothingKeeps DEF FocusDown, ToStrip, ToPage

LEMMA LeaveGenreKeeps ==
    ASSUME LibraryAssumption, PageOK, LeaveGenre, focus' \in {"tabs", "strip", "body"}
    PROVE  PageOK'
<1>1. UNCHANGED <<dataVars, letter>> /\ tab' = tab /\ genre' = None /\ query' = query
  BY DEF LeaveGenre, OnList
<1>2. ModelOK'
  BY <1>1, ModelStays DEF PageOK, ModelOK
<1>3. rows' \in Seq(RowType)
  BY <1>2, FitNext DEF LeaveGenre, FitRows
<1> DEFINE left == {i \in DOMAIN rows' : rows'[i].kind = "genre" /\ Genres[rows'[i].i] = genre}
           first == First(Openable(rows'))
           f == VisibleFrom(rows', Height', top, first)
<1>4. left \in SUBSET (DOMAIN rows') /\ left \subseteq Openable(rows')
  BY DEF Openable, Selectable
<1>5. IF Openable(rows') = {} THEN first = 0 ELSE first \in Openable(rows')
  BY <1>3, FirstIs
<1>6. sel' = IF left # {} THEN Min(left) ELSE first
  BY DEF LeaveGenre
<1>7. top' = VisibleFrom(rows', Height', f, sel')
  BY DEF LeaveGenre
<1> HIDE DEF left, first
<1>8. left # {} => Min(left) \in left
  BY <1>3, <1>4, PartOfRows, MinIs
<1>9. first \in Nat /\ (first = 0 <=> Openable(rows') = {})
  BY <1>3, <1>5, RowsWhere DEF Openable
<1>10. Placed(sel', rows')
  <2>1. 0 \notin Openable(rows')
    BY <1>3, RowsWhere DEF Openable
  <2> QED
    BY <1>4, <1>5, <1>6, <1>8, <2>1 DEF Placed
<1>11. f \in Nat \ {0}
  BY <1>3, <1>9, VisibleIs DEF PageOK, ListOK
<1> HIDE DEF f
<1>12. ListOK'
  BY <1>2, <1>7, <1>10, <1>11, Landed DEF LeaveGenre
<1> QED
  BY <1>2, <1>12 DEF LeaveGenre, OnList, searchVars, PageOK, ScreenOK

LEMMA LetterTurns ==
    ASSUME LibraryAssumption, PageOK, NEW dir \in {-1, 1}, HasStrip, StripTurnsLetter(dir)
    PROVE  PageOK'
<1> DEFINE S == {LetterOf(t) : t \in Range(games)}
<1>1. LetterTabs \in Seq(S) /\ LetterTabs # <<>> /\ Range(LetterTabs) = S
      /\ Range(games) # {}
  BY LetterTabsAre DEF HasStrip, StripTurnsLetter, PageOK, ModelOK
<1>2. letter \in S
  BY <1>1 DEF PageOK, ModelOK, LetterPresent
<1> HIDE DEF S
<1>3. Len(LetterTabs) \in Nat \ {0} /\ DOMAIN LetterTabs = 1 .. Len(LetterTabs)
  BY <1>1
<1>4. \E i \in 1 .. Len(LetterTabs) : LetterTabs[i] = letter
  BY <1>1, <1>2, <1>3 DEF Range
<1>5. letter' \in S
  BY <1>1, <1>3, <1>4, TurnedIs DEF StripTurnsLetter, Range
<1>6. UNCHANGED <<dataVars, tab, genre, query, focus, searchVars, stopped>>
  BY DEF StripTurnsLetter, OnList
<1>7. LetterPresent' /\ letter' \in Letters \cup {None}
  <2>1. \A t : LetterOf(t)' = LetterOf(t)
    BY <1>6 DEF LetterOf, dataVars
  <2>2. Range(games) \subseteq Titles /\ games' = games
    BY <1>6, GamesAre DEF dataVars, PageOK, ModelOK
  <2> QED
    BY <1>5, <2>1, <2>2, LetterIs DEF S, LetterPresent
<1>8. ModelOK'
  BY <1>6, <1>7 DEF dataVars, PageOK, ModelOK
<1>9. ListOK'
  BY <1>8, Rebuilt DEF StripTurnsLetter, NewList
<1> QED
  BY <1>6, <1>8, <1>9 DEF searchVars, PageOK, ScreenOK

LEMMA StripKeeps == ASSUME LibraryAssumption, PageOK, NEW b, StripHandle(b) PROVE PageOK'
<1>1. CASE StripLeavesGenre
  BY <1>1, LeaveGenreKeeps DEF StripLeavesGenre
<1>2. CASE StripTurnsPage \/ Nothing
  BY <1>2, NothingKeeps DEF StripTurnsPage, Nothing, PageOK, ScreenOK
<1>3. CASE HasStrip /\ \E dir \in {-1, 1} : StripTurnsLetter(dir)
  BY <1>3, LetterTurns
<1>4. CASE FocusOn("tabs")
  BY <1>4, NothingKeeps DEF FocusOn
<1>5. CASE FocusDown
  BY <1>5, DownKeeps
<1> QED
  BY <1>1, <1>2, <1>3, <1>4, <1>5 DEF StripHandle

LEMMA TabsKeep == ASSUME LibraryAssumption, PageOK, NEW b, TabsHandle(b) PROVE PageOK'
<1>1. CASE Nothing
  BY <1>1, NothingKeeps DEF Nothing, PageOK, ScreenOK
<1>2. CASE \E dir \in {-1, 1} : TabStep(dir)
  BY <1>2, TabKeeps
<1> QED
  BY <1>1, <1>2, DownKeeps DEF TabsHandle

(* Stepping ends on a row that can be opened, or where it began.            *)
LEMMA NextRowIs ==
    ASSUME rows \in Seq(RowType), NEW i \in Openable(rows) \cup {sel}, NEW dir \in {-1, 1}
    PROVE  NextRow(i, dir) \in Openable(rows) \cup {sel}
<1> DEFINE ahead == {j \in Openable(rows) : i + dir \in DOMAIN rows /\ (j - i) * dir > 0}
<1>1. ahead \in SUBSET (DOMAIN rows) /\ ahead \subseteq Openable(rows)
  BY DEF Openable
<1>2. ahead \in SUBSET Int /\ IsFiniteSet(ahead)
  BY <1>1, PartOfRows
<1>3. NextRow(i, dir) = IF ahead = {} THEN i ELSE IF dir > 0 THEN Min(ahead) ELSE Max(ahead)
  BY DEF NextRow
<1> HIDE DEF ahead
<1>4. ahead # {} => Min(ahead) \in ahead /\ Max(ahead) \in ahead
  BY <1>2, MinIs, MaxIs
<1> QED
  BY <1>1, <1>3, <1>4

LEMMA SteppedIs ==
    ASSUME rows \in Seq(RowType), NEW n \in Nat, NEW dir \in {-1, 1}
    PROVE  Stepped(dir, n) \in Openable(rows) \cup {sel}
<1> DEFINE B == Openable(rows) \cup {sel}
           step == [k \in 1 .. n |-> [i \in B |-> NextRow(i, dir)]]
           Runs(g) == g = [k \in 0 .. n |-> IF k = 0 THEN sel ELSE NextRow(g[k - 1], dir)]
           at == CHOOSE g : Runs(g)
<1>1. \A i \in B : NextRow(i, dir) \in B
  BY NextRowIs
<1>2. step \in [1 .. n -> [B -> B]] /\ sel \in B
  BY <1>1
<1>3. \A k \in 1 .. n : \A i \in B : step[k][i] = NextRow(i, dir)
  OBVIOUS
<1>4. Stepped(dir, n) = IF sel = 0 THEN sel ELSE at[n]
  BY DEF Stepped
<1> HIDE DEF B, step
<1>5. PICK g \in [0 .. n -> B] : g[0] = sel /\ \A k \in 1 .. n : g[k] = step[k][g[k - 1]]
  BY <1>2, Recursion
<1>6. Runs(g)
  <2>1. \A k \in 1 .. n : k \in 0 .. n /\ k - 1 \in 0 .. n
    OBVIOUS
  <2>2. \A k \in 1 .. n : g[k] = NextRow(g[k - 1], dir)
    BY <1>3, <1>5, <2>1
  <2>3. \A k \in 0 .. n : g[k] = IF k = 0 THEN sel ELSE NextRow(g[k - 1], dir)
    <3>1. \A k \in 0 .. n : k = 0 \/ k \in 1 .. n
      OBVIOUS
    <3> QED
      BY <1>5, <2>2, <3>1
  <2> QED
    BY <1>5, <2>3
<1>7. Runs(at)
  BY <1>6
<1> HIDE DEF at
<1>8. at[0] = sel /\ \A k \in 1 .. n : at[k] = NextRow(at[k - 1], dir)
  <2>1. \A k \in 1 .. n : k \in 0 .. n /\ k # 0
    OBVIOUS
  <2>2. 0 \in 0 .. n
    OBVIOUS
  <2> QED
    BY <1>7, <2>1, <2>2
<1>9. \A k \in 0 .. n : at[k] \in B
  <2>1. \A k \in 1 .. n : at[k - 1] \in B => at[k] \in B
    BY <1>1, <1>8 DEF B
  <2> QED
    BY <1>2, <1>8, <2>1, StaysWithin
<1> QED
  BY <1>2, <1>4, <1>9 DEF B

LEMMA MoveKeeps ==
    ASSUME LibraryAssumption, PageOK, NEW n \in Nat, NEW dir \in {-1, 1},
           MoveTo(Stepped(dir, n))
    PROVE  PageOK'
<1> DEFINE i == Stepped(dir, n)
<1>1. rows \in Seq(RowType)
  BY FitRowsAre DEF PageOK, ListOK
<1>2. i \in Openable(rows) \cup {sel}
  BY <1>1, SteppedIs
<1>3. MoveTo(i)
  OBVIOUS
<1> HIDE DEF i
<1>4. UNCHANGED <<dataVars, viewVars, search, rows>> /\ ScreenOK'
  BY <1>3 DEF MoveTo, OnList, searchVars, PageOK, ScreenOK
<1>5. CASE i = sel
  BY <1>3, <1>4, <1>5, PageStays DEF MoveTo, listVars
<1>6. CASE i # sel
  <2>1. i \in Openable(rows) /\ i \in Nat /\ i # 0
    BY <1>1, <1>2, <1>6, RowsWhere DEF Openable
  <2>2. sel' = i /\ loose' = loose \ {"consoles"}
        /\ top' = VisibleFrom(rows, Height, top, i)
    BY <1>3, <1>6 DEF MoveTo
  <2>3. Height' = Height
    BY <1>4 DEF Height, LettersShowing, GenreStripShowing, viewVars
  <2>4. UNCHANGED RowsVars
    BY <1>4 DEF RowsVars, dataVars, viewVars
  <2>5. Placed(sel', rows)
    BY <2>1, <2>2 DEF Placed
  <2>6. ListOK'
    BY <1>4, <2>1, <2>2, <2>3, <2>4, <2>5, Moved DEF dataVars, PageOK, ListOK
  <2>7. ModelOK'
    BY <1>4, ModelStays DEF viewVars, PageOK, ModelOK
  <2> QED
    BY <1>4, <2>6, <2>7 DEF PageOK
<1> QED
  BY <1>5, <1>6

LEMMA SearchOpens == ASSUME LibraryAssumption, PageOK, OpenSearch PROVE PageOK'
<1>1. UNCHANGED <<dataVars, viewVars, rows, sel, loose>> /\ top' = VisibleFrom(rows, Height', top, sel)
  BY DEF OpenSearch, Scroll
<1>2. UNCHANGED RowsVars
  BY <1>1 DEF RowsVars, dataVars, viewVars
<1>3. ListOK'
  <2>1. "consoles" \notin loose => Placed(sel, rows)
    BY DEF PageOK, ListOK, CursorOnEntry, Placed
  <2> QED
    BY <1>1, <1>2, <2>1, Moved DEF dataVars, PageOK, ListOK
<1>4. ModelOK'
  BY <1>1, ModelStays DEF viewVars, PageOK, ModelOK
<1>5. ScreenOK'
  BY TitleIs DEF OpenSearch, PageOK, ScreenOK
<1> QED
  BY <1>3, <1>4, <1>5 DEF PageOK

LEMMA EnterGenreKeeps ==
    ASSUME LibraryAssumption, PageOK, OnGenreRow, EnterGenre
    PROVE  PageOK'
<1>1. rows[sel] \in FitRows /\ rows[sel].kind = "genre"
  BY DEF OnGenreRow, PageOK, ListOK
<1>2. Genres[rows[sel].i] \in Range(Genre) \cup {Native}
  BY <1>1, GenresAre DEF FitRows, PageOK, ModelOK
<1> QED
  BY <1>2, NewPageKeeps DEF EnterGenre, NewList, PageOK, ModelOK, ScreenOK

(* The title just launched goes to the front of the recent ones.            *)
LEMMA RecentIs ==
    ASSUME LibraryAssumption, ModelOK, NEW t \in Titles
    PROVE  RecentWith(t) \in Seq(Titles) /\ Len(RecentWith(t)) <= RecentMax
<1> DEFINE at == {i \in DOMAIN recent : recent[i] # t}
           rest == Picked(recent, at)
           ids == <<t>> \o rest
           n == Min({Len(ids), RecentMax})
<1>1. recent \in Seq(Titles) /\ RecentMax \in Nat
  BY DEF ModelOK, LibraryAssumption
<1>2. at \in SUBSET Int /\ IsFiniteSet(at) /\ at \subseteq DOMAIN recent
  BY <1>1, PartOfRows
<1>3. RecentWith(t) = SubSeq(ids, 1, n)
  BY DEF RecentWith
<1> HIDE DEF at
<1>4. rest \in Seq(Titles)
  <2>1. /\ Cardinality(at) \in Nat /\ DOMAIN rest = 1 .. Cardinality(at)
        /\ \A k \in DOMAIN rest : \E i \in at : rest[k] = recent[i]
        /\ rest = [k \in 1 .. Cardinality(at) |-> rest[k]]
    BY <1>2, PickedIs
  <2> HIDE DEF rest
  <2>2. \A k \in 1 .. Cardinality(at) : rest[k] \in Titles
    BY <1>1, <1>2, <2>1
  <2> QED
    BY <2>1, <2>2
<1> HIDE DEF rest
<1>5. ids \in Seq(Titles) /\ Len(ids) \in Nat
  BY <1>4
<1>6. n \in Nat /\ n <= Len(ids) /\ n <= RecentMax
  <2>1. {Len(ids), RecentMax} \in SUBSET Int /\ IsFiniteSet({Len(ids), RecentMax})
    <3>1. IsFiniteSet({Len(ids)} \cup {RecentMax})
      BY FS_Singleton, FS_AddElement
    <3>2. {Len(ids)} \cup {RecentMax} = {Len(ids), RecentMax}
      OBVIOUS
    <3>3. Len(ids) \in Int /\ RecentMax \in Int
      BY <1>1, <1>5
    <3> QED
      BY <3>1, <3>2, <3>3
  <2> QED
    BY <1>1, <1>5, <2>1, MinIs
<1> HIDE DEF ids, n
<1> QED
  BY <1>3, <1>5, <1>6

LEMMA GameLaunches ==
    ASSUME LibraryAssumption, LibraryInv, sel \in Openable(rows), LaunchGame
    PROVE  PageOK' /\ (worker' = worker \/ worker' = "done")
           /\ fresh' \in {fresh, None} /\ freshConsoles' \in {freshConsoles, None}
<1>1. Title(sel) \in Titles
  BY TitleIs DEF LaunchGame, Openable, LibraryInv, PageOK
<1>2. recent' \in Seq(Titles) /\ Len(recent') <= RecentMax
  BY <1>1, RecentIs DEF LaunchGame, LibraryInv, PageOK
<1>3. native' \subseteq Titles
  <2>1. native \subseteq Titles
    BY DEF LibraryInv, PageOK, ModelOK
  <2> QED
    BY <1>1, <2>1 DEF LaunchGame
<1>4. UNCHANGED <<tab, genre, query, named, focus, searchVars, stopped>>
  BY DEF LaunchGame
<1>5. CASE worker = "done"
  <2>1. UNCHANGED <<workVars, games, letter, consoles, looking>>
    BY <1>5 DEF LaunchGame
  <2>2. PICK f \in {top} : Rebuild(Title(sel), SectionOf(sel), f)
    BY <1>5 DEF LaunchGame
  <2>3. \A t : LetterOf(t)' = LetterOf(t)
    BY <1>4 DEF LetterOf
  <2>4. LetterPresent'
    BY <2>1, <2>3 DEF LetterPresent, LibraryInv, PageOK, ModelOK
  <2>5. ModelOK'
    BY <1>2, <1>3, <1>4, <2>1, <2>4 DEF LibraryInv, PageOK, ModelOK
  <2>6. ListOK'
    BY <2>2, <2>5, Rebuilt DEF LibraryInv, PageOK, ListOK
  <2> QED
    BY <1>4, <2>1, <2>5, <2>6 DEF workVars, searchVars, LibraryInv, PageOK, ScreenOK
<1>6. CASE worker # "done"
  <2>1. WaitForRefresh
    BY <1>6 DEF LaunchGame
  <2>2. PICK f \in 1 .. Len(BuiltRows') : Rebuild(Title(sel), SectionOf(sel), f)
    BY <1>6 DEF LaunchGame
  <2>3. games' \in Seq(Titles) /\ Range(games') \in Catalogs
    <3>1. PICK c \in Catalogs \cup {None} : games' = IF c = None THEN games ELSE Sorted(c, named)
      BY <2>1 DEF WaitForRefresh, Awaited, FetchedCatalogs, LibraryInv, WorkOK
    <3> QED
      BY <3>1, SortedIs DEF LibraryInv, PageOK, ModelOK
  <2>4. LetterPresent' /\ letter' \in Letters \cup {None}
    BY <2>1, <2>3, LetterStays DEF WaitForRefresh, LibraryInv, PageOK, ModelOK
  <2>5. consoles' \in 0 .. MaxConsoles /\ looking' \in BOOLEAN
    BY <2>1 DEF WaitForRefresh
  <2>6. ModelOK'
    BY <1>2, <1>3, <1>4, <2>3, <2>4, <2>5 DEF LibraryInv, PageOK, ModelOK
  <2>7. f \in Nat \ {0}
    <3>1. (BuiltRows \in Seq(FitRows))'
      BY <2>6, FitNext
    <3> QED
      BY <2>2, <3>1
  <2>8. ListOK'
    BY <2>2, <2>6, <2>7, Rebuilt
  <2> QED
    BY <1>4, <2>1, <2>6, <2>8 DEF WaitForRefresh, searchVars, LibraryInv, PageOK, ScreenOK
<1> QED
  BY <1>5, <1>6

WorkMayEnd ==
    /\ worker' \in {worker, "done"} /\ fresh' \in {fresh, None}
    /\ freshConsoles' \in {freshConsoles, None}

LEMMA LaunchKeeps == ASSUME LibraryAssumption, LibraryInv, Launch PROVE PageOK' /\ WorkMayEnd
<1> USE DEF LibraryInv
<1>1. CASE sel \in Openable(rows) /\ LaunchTool
  <2>1. UNCHANGED <<dataVars, viewVars, listVars, search>> /\ UNCHANGED workVars
    BY <1>1 DEF LaunchTool, searchVars
  <2>2. ScreenOK'
    BY <1>1 DEF LaunchTool, searchVars, PageOK, ScreenOK
  <2> QED
    BY <2>1, <2>2, PageStays DEF workVars, WorkMayEnd
<1>2. CASE sel \in Openable(rows) /\ LaunchConsole
  BY <1>2, NothingKeeps DEF LaunchConsole, Nothing, PageOK, ScreenOK, workVars, WorkMayEnd
<1>3. CASE sel \in Openable(rows) /\ LaunchGame
  BY <1>3, GameLaunches DEF WorkMayEnd
<1>4. CASE OnGenreRow /\ EnterGenre /\ UNCHANGED workVars
  BY <1>4, EnterGenreKeeps DEF workVars, WorkMayEnd
<1>5. CASE sel \notin Openable(rows) /\ Nothing /\ UNCHANGED workVars
  BY <1>5, NothingKeeps DEF Nothing, PageOK, ScreenOK, workVars, WorkMayEnd
<1> QED
  BY <1>1, <1>2, <1>3, <1>4, <1>5 DEF Launch

LEMMA PageIsNat == ASSUME LibraryAssumption, ~search PROVE Page \in Nat
<1>1. /\ ListH \in Nat /\ StripH \in Nat /\ StripH <= ListH /\ RowH \in Nat \ {0}
  BY DEF LibraryAssumption
<1>2. Height \in Nat
  BY <1>1 DEF Height
<1> QED
  BY <1>1, <1>2 DEF Page

LEMMA ListKeeps ==
    ASSUME LibraryAssumption, LibraryInv, ~search, NEW b, ListHandle(b)
    PROVE  PageOK' /\ WorkMayEnd
<1> USE DEF LibraryInv
<1>1. CASE UNCHANGED workVars /\ (FocusOn("strip") \/ FocusOn("tabs"))
  BY <1>1, NothingKeeps DEF FocusOn, workVars, WorkMayEnd
<1>2. CASE UNCHANGED workVars /\ \E dir \in {-1, 1}, n \in Nat : MoveTo(Stepped(dir, n))
  BY <1>2, MoveKeeps DEF workVars, WorkMayEnd
<1>3. CASE UNCHANGED workVars /\ OnGenreRow /\ EnterGenre
  BY <1>3, EnterGenreKeeps DEF workVars, WorkMayEnd
<1>4. CASE UNCHANGED workVars /\ LeaveGenre /\ UNCHANGED focus
  BY <1>4, LeaveGenreKeeps DEF PageOK, ScreenOK, workVars, WorkMayEnd
<1>5. CASE UNCHANGED workVars /\ OpenSearch
  BY <1>5, SearchOpens DEF workVars, WorkMayEnd
<1>6. CASE UNCHANGED workVars /\ StartSettings
  <2>1. "settings" \in Range(Tabs)
    BY DEF Tabs, Range
  <2> QED
    BY <1>6, <2>1, NewPageKeeps DEF StartSettings, PageOK, ModelOK, ListOK, workVars, WorkMayEnd
<1>7. CASE Launch
  BY <1>7, LaunchKeeps
<1>8. CASE UNCHANGED workVars /\ Nothing
  BY <1>8, NothingKeeps DEF Nothing, PageOK, ScreenOK, workVars, WorkMayEnd
<1> QED
  BY <1>1, <1>2, <1>3, <1>4, <1>5, <1>6, <1>7, <1>8, PageIsNat DEF ListHandle

LEMMA BackKeeps == ASSUME LibraryAssumption, PageOK, Back PROVE PageOK'
<1>1. CASE LeaveSettings
  <2>1. "home" \in Range(Tabs)
    BY DEF Tabs, Range
  <2> QED
    BY <1>1, <2>1, NewPageKeeps DEF LeaveSettings, PageOK, ModelOK, ListOK
<1>2. CASE LeaveGenre /\ UNCHANGED focus
  BY <1>2, LeaveGenreKeeps DEF PageOK, ScreenOK
<1>3. CASE LeaveSearch
  BY <1>3, NewPageKeeps DEF LeaveSearch, Queries, PageOK, ModelOK, ListOK, ScreenOK
<1>4. CASE LeaveScreen
  <2>1. UNCHANGED <<dataVars, viewVars, listVars, search>> /\ ScreenOK'
    BY <1>4 DEF LeaveScreen, searchVars, PageOK, ScreenOK
  <2> QED
    BY <2>1, PageStays
<1> QED
  BY <1>1, <1>2, <1>3, <1>4 DEF Back

LEMMA ButtonKeeps ==
    ASSUME LibraryAssumption, LibraryInv, ~search, NEW b, OnScreen(b)
    PROVE  PageOK' /\ WorkMayEnd
<1> USE DEF LibraryInv
<1>1. CASE Back /\ UNCHANGED workVars
  BY <1>1, BackKeeps DEF workVars, WorkMayEnd
<1>2. CASE UNCHANGED workVars /\ \E dir \in {-1, 1} : TabStep(dir)
  BY <1>2, TabKeeps DEF workVars, WorkMayEnd
<1>3. CASE UNCHANGED workVars /\ TabsHandle(b)
  BY <1>3, TabsKeep DEF workVars, WorkMayEnd
<1>4. CASE UNCHANGED workVars /\ StripHandle(b)
  BY <1>4, StripKeeps DEF workVars, WorkMayEnd
<1>5. CASE UNCHANGED workVars /\ PageHandle(b)
  BY <1>5, NothingKeeps DEF PageHandle, workVars, WorkMayEnd
<1>6. CASE ListHandle(b)
  BY <1>6, ListKeeps
<1> QED
  BY <1>1, <1>2, <1>3, <1>4, <1>5, <1>6 DEF OnScreen

(* What the picker leaves of the list, whatever two buttons made of the      *)
(* query.                                                                   *)
LEMMA SearchKeeps ==
    ASSUME LibraryAssumption, PageOK, search, NEW presses, Search(presses)
    PROVE  PageOK' /\ UNCHANGED workVars
<1>1. PICK typed \in IF TypedBy(presses) = {} THEN {query} ELSE TypedBy(presses) :
        LET closes == \/ {"START", "Y"} \cap presses # {}
                      \/ "B" \in presses /\ typed = <<>>
            changes == typed # query \/ "B" \in presses
        IN  /\ query' = IF "B" \in presses /\ typed # <<>> THEN Front(typed) ELSE typed
            /\ search' = ~closes
            /\ searchFrom' = (IF closes THEN None ELSE searchFrom)
            /\ searchSec' = (IF closes THEN "all" ELSE searchSec)
            /\ UNCHANGED <<tab, genre, letter, focus, dataVars, workVars, stopped>>
            /\ SearchList(changes, closes)
  BY DEF Search
<1> DEFINE closes == \/ {"START", "Y"} \cap presses # {}
                     \/ "B" \in presses /\ typed = <<>>
           changes == typed # query \/ "B" \in presses
<1>2. UNCHANGED <<tab, genre, letter, focus, dataVars, workVars, stopped>>
  BY <1>1
<1>3. search' = ~closes /\ SearchList(changes, closes)
  BY <1>1
<1>4. typed \in Queries
  BY DEF TypedBy, PageOK, ModelOK
<1>5. query' \in Queries
  <2>1. typed # <<>> => Front(typed) \in Queries
    BY <1>4 DEF LibraryAssumption, Queries
  <2> QED
    BY <1>1, <1>4, <2>1
<1>6. ~changes => query' = query
  BY <1>1
<1>7. searchFrom' \in {searchFrom, None} /\ search' \in BOOLEAN
  BY <1>1
<1> HIDE DEF closes, changes
<1>8. ModelOK'
  BY <1>2, <1>5, ModelStays DEF PageOK, ModelOK
<1>9. ScreenOK'
  BY <1>2, <1>7 DEF PageOK, ScreenOK
<1>10. ASSUME \E id, sec : Rebuild(id, sec, top) PROVE ListOK'
  BY <1>8, <1>10, Rebuilt DEF PageOK, ListOK
<1>11. ASSUME UNCHANGED <<rows, sel>>, top' = VisibleFrom(rows, Height', top, sel),
              loose' = IF query' # query THEN loose \cup {"query"} ELSE loose
       PROVE  ListOK'
  <2>1. "consoles" \notin loose' => Placed(sel, rows)
    BY <1>11 DEF PageOK, ListOK, CursorOnEntry, Placed
  <2>2. "query" \notin loose' => UNCHANGED RowsVars
    BY <1>2, <1>11 DEF RowsVars, dataVars
  <2>3. loose' \subseteq {"consoles", "query"} /\ ("query" \in loose => "query" \in loose')
    BY <1>11 DEF PageOK, ListOK
  <2> QED
    BY <1>2, <1>11, <2>1, <2>2, <2>3, Moved DEF dataVars, PageOK, ListOK
<1>12. ASSUME ~changes, ~closes, UNCHANGED listVars PROVE ListOK'
  <2>1. UNCHANGED RowsVars /\ search' = search
    BY <1>2, <1>3, <1>6, <1>12 DEF RowsVars, dataVars
  <2> QED
    BY <1>12, <2>1, ListStays DEF PageOK
<1>13. ListOK'
  BY <1>3, <1>10, <1>11, <1>12 DEF SearchList
<1> QED
  BY <1>2, <1>8, <1>9, <1>13 DEF PageOK

LEMMA InputKeeps == ASSUME LibraryAssumption, LibraryInv, Input PROVE LibraryInv'
<1>1. PageOK' /\ WorkMayEnd
  <2>1. CASE \E b \in Buttons : ~search /\ OnScreen(b)
    BY <2>1, ButtonKeeps
  <2>2. CASE search /\ \E presses : Search(presses)
    BY <2>2, SearchKeeps DEF LibraryInv, workVars, WorkMayEnd
  <2>3. CASE Nothing /\ UNCHANGED workVars
    BY <2>3, NothingKeeps DEF Nothing, LibraryInv, PageOK, ScreenOK, workVars, WorkMayEnd
  <2> QED
    BY <2>1, <2>2, <2>3 DEF Input
<1>2. WorkOK'
  BY <1>1 DEF WorkMayEnd, Input, LibraryInv, WorkOK
<1> QED
  BY <1>1, <1>2 DEF LibraryInv

LEMMA CrashKeeps == ASSUME LibraryInv, Crash PROVE LibraryInv'
<1>1. UNCHANGED <<dataVars, viewVars, listVars, search>> /\ ScreenOK' /\ WorkOK'
  BY DEF Crash, searchVars, workVars, LibraryInv, PageOK, ScreenOK, WorkOK
<1> QED
  BY <1>1, PageStays DEF LibraryInv

LEMMA StutterKeeps == ASSUME LibraryInv, UNCHANGED vars PROVE LibraryInv'
<1>1. UNCHANGED <<dataVars, viewVars, listVars, search>> /\ ScreenOK' /\ WorkOK'
  BY DEF vars, searchVars, workVars, LibraryInv, PageOK, ScreenOK, WorkOK
<1> QED
  BY <1>1, PageStays DEF LibraryInv

LEMMA ScreenNext == ASSUME LibraryAssumption, LibraryInv, [Next]_vars PROVE LibraryInv'
  BY WorkKeeps, PumpKeeps, InputKeeps, CrashKeeps, StutterKeeps
     DEF Next, RefreshCrashes, LaunchCrashes, Left

LEMMA InvHolds == ASSUME LibraryAssumption PROVE Spec => []LibraryInv
<1>1. Init => LibraryInv
  BY ScreenInit
<1>2. LibraryInv /\ [Next]_vars => LibraryInv'
  BY ScreenNext
<1> QED
  BY <1>1, <1>2, PTL DEF Spec

(* No button names a title.                                                 *)
LEMMA InputNames == ASSUME Input PROVE named' = named
<1>1. OnList \/ UNCHANGED dataVars => named' = named
  BY DEF OnList, dataVars
<1>2. \A b : TabsHandle(b) => named' = named
  BY <1>1 DEF TabsHandle, TabStep, FocusDown, ToStrip, ToPage, ToList, Nothing
<1>3. \A b : StripHandle(b) => named' = named
  BY <1>1 DEF StripHandle, FocusOn, StripLeavesGenre, LeaveGenre, StripTurnsPage,
              StripTurnsLetter, FocusDown, ToStrip, ToPage, ToList, Nothing
<1>4. Launch => named' = named
  BY <1>1 DEF Launch, LaunchTool, LaunchConsole, LaunchGame, EnterGenre, Nothing
<1>5. \A b : ListHandle(b) => named' = named
  BY <1>1, <1>4 DEF ListHandle, FocusOn, MoveTo, EnterGenre, LeaveGenre, OpenSearch,
                    StartSettings, Nothing
<1>6. \A b : OnScreen(b) => named' = named
  BY <1>1, <1>2, <1>3, <1>5 DEF OnScreen, TabStep, PageHandle, Back, LeaveSettings, LeaveGenre,
                                LeaveSearch, LeaveScreen
<1>7. \A presses : Search(presses) => named' = named
  BY <1>1 DEF Search
<1> QED
  BY <1>1, <1>6, <1>7 DEF Input, Nothing

-----------------------------------------------------------------------------
(* Theorems.                                                                *)

(* Every variable of the library screen keeps its type, whatever the service *)
(* answers, an empty list included, and whatever is pressed, until the       *)
(* process dies of a read past the fresh list (LibraryScreen::run(),         *)
(* selected()).                                                             *)
THEOREM TypeCorrect == ASSUME LibraryAssumption PROVE Spec => []TypeOK
  BY InvHolds, TypesFollow, PTL

(* The rows are those of the tab, genre, letter and query, the cursor is on  *)
(* an entry, and its row is on the screen (rebuild(), ensure_visible()),     *)
(* whichever lists of titles arrive under the cursor, a shorter or an empty  *)
(* one included, wherever the read past such a list does not end the         *)
(* process (selected()).                                                    *)
THEOREM CursorStaysSound ==
    ASSUME LibraryAssumption
    PROVE  Spec => [](RowsShowModel /\ CursorOnEntry /\ CursorVisible)
<1>1. LibraryInv => RowsShowModel /\ CursorOnEntry /\ CursorVisible
  BY DEF LibraryInv, PageOK, ListOK
<1> QED
  BY <1>1, InvHolds, PTL

(* The step of NamesKeepSelection: names that arrive leave the cursor on its *)
(* title.                                                                   *)
LEMMA SelectionStep ==
    ASSUME LibraryAssumption, LibraryInv, [Next]_vars, NEW t \in Titles,
           named' # named, Title(sel) = t, Shown(t)'
    PROVE  Title(sel)' = t
<1>1. NamesArrive
  <2>1. Work \/ Input \/ Crash \/ UNCHANGED vars => named' = named
    <3>1. ASSUME Work PROVE named' = named
      BY <3>1 DEF Work, dataVars
    <3>2. ASSUME UNCHANGED vars PROVE named' = named
      BY <3>2 DEF vars, dataVars
    <3>3. ASSUME Input PROVE named' = named
      BY <3>3, InputNames
    <3>4. ASSUME Crash PROVE named' = named
      BY <3>4 DEF Crash, dataVars
    <3> QED
      BY <3>1, <3>2, <3>3, <3>4
  <2> QED
    BY <2>1 DEF Next, Left, RefreshCrashes, LaunchCrashes, Pump, Refresh, NothingArrives, dataVars
<1>2. rows' = BuiltRows' /\ sel' = KeptCursor(rows', games', t, SectionOf(sel))
  BY <1>1 DEF NamesArrive, Resort, Rebuild
<1>3. rows' \in Seq(RowType)
  <2>1. LibraryInv'
    BY ScreenNext
  <2> QED
    BY <2>1 DEF LibraryInv, PageOK, ListOK, FitRows
<1>4. t # None /\ \E j \in DOMAIN rows' : TitleOf(rows', games', j) = t
  BY DEF LibraryAssumption, Shown, Title
<1>5. TitleOf(rows', games', sel') = t
  BY <1>2, <1>3, <1>4, KeptIs
<1> QED
  BY <1>5 DEF Title

(* Names that arrive re-sort the list and leave the cursor on its title, if  *)
(* the list shows it still (resort()).                                      *)
THEOREM NamesLeaveCursor == ASSUME LibraryAssumption PROVE Spec => NamesKeepSelection
<1>1. LibraryInv /\ [Next]_vars =>
        [\A t \in Titles : named' # named /\ Title(sel) = t /\ Shown(t)' => Title(sel)' = t]_vars
  BY SelectionStep
<1> QED
  BY <1>1, InvHolds, PTL DEF Spec, NamesKeepSelection

(* The step of SearchReturns.                                               *)
LEMMA ReturnStep ==
    ASSUME LibraryAssumption, LibraryInv, [Next]_vars, NEW t \in Titles,
           search, ~search', query' = <<>>, searchFrom = t, Shown(t)'
    PROVE  Title(sel)' = t
<1>1. \E presses : Search(presses)
  BY DEF Next, Left, RefreshCrashes, LaunchCrashes, Crash, Work, Pump, Input, Nothing, OnList,
         searchVars, vars
<1>2. \E sec : Rebuild(t, sec, top)
  BY <1>1 DEF Search, SearchList
<1>3. PICK sec : sel' = KeptCursor(rows', games', t, sec)
  BY <1>2 DEF Rebuild
<1>4. rows' \in Seq(RowType)
  <2>1. LibraryInv'
    BY ScreenNext
  <2> QED
    BY <2>1 DEF LibraryInv, PageOK, ListOK, FitRows
<1>5. t # None /\ \E j \in DOMAIN rows' : TitleOf(rows', games', j) = t
  BY DEF LibraryAssumption, Shown, Title
<1>6. TitleOf(rows', games', sel') = t
  BY <1>3, <1>4, <1>5, KeptIs
<1> QED
  BY <1>6 DEF Title

(* A search given up empty returns to the title it was opened from, if the   *)
(* list shows it still (handle_search()).                                   *)
THEOREM EmptySearchReturns == ASSUME LibraryAssumption PROVE Spec => SearchReturns
<1>1. LibraryInv /\ [Next]_vars =>
        [\A t \in Titles : search /\ ~search' /\ query' = <<>> /\ searchFrom = t /\ Shown(t)'
            => Title(sel)' = t]_vars
  BY ReturnStep
<1> QED
  BY <1>1, InvHolds, PTL DEF Spec, SearchReturns

=============================================================================
