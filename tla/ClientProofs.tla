---------------------------- MODULE ClientProofs ----------------------------
(* Theorems about the client around the video: who uses the account, the    *)
(* names and the pictures it keeps, the options and their file, the pad,    *)
(* and, of the composition MCClient, what the theorems of its parts say.    *)
EXTENDS MCClient, SequenceTheorems, FiniteSetTheorems, TLAPS

-----------------------------------------------------------------------------
(* The account.                                                             *)

(* Where the main thread is inside XboxAuth, and where the refresh thread   *)
(* does not run.                                                            *)
TurnsTaken ==
    /\ chain["main"] # "idle" => main \in {"code", "profile", "stream"}
    /\ main \in {"off", "code", "expired", "profile", "stream"} => ThreadDone

AccountInv == TypeOK /\ TurnsTaken /\ KeptSignedIn

LEMMA InitHolds == Init => AccountInv
<1> SUFFICES ASSUME Init PROVE AccountInv
  OBVIOUS
<1>1. 0 \in 0 .. Expires /\ 0 \in 0 .. Interval /\ 0 \in 0 .. 2
  BY SignInAssumption
<1>2. saved \in BOOLEAN
  BY DEF Init
<1>3. TypeOK
  BY <1>1, <1>2 DEF Init, TypeOK, Places
<1>4. TurnsTaken
  BY DEF Init, TurnsTaken, ThreadDone, Threads
<1>5. KeptSignedIn
  BY DEF Init, KeptSignedIn
<1> QED
  BY <1>3, <1>4, <1>5 DEF AccountInv

(* A step inside XboxAuth keeps types, turns and the stored token.          *)
LEMMA AuthHolds == ASSUME AccountInv, Auth PROVE AccountInv'
<1>1. PICK h \in Threads : Chain(h)
  BY DEF Auth
<1>2. UNCHANGED <<main, chains, codeVars, loggedOut>>
  BY DEF Auth
<1>3. chain[h] # "idle" /\ chain' \in [Threads -> {"idle", "ask", "write", "rename", "rest"}]
  BY <1>1 DEF Chain, Answered, Fails, Logout, Write, Renamed, Rest, At, AccountInv, TypeOK
<1>4. \A g \in Threads \ {h} : chain'[g] = chain[g]
  BY <1>1 DEF Chain, Answered, Fails, Logout, Write, Renamed, Rest, At, AccountInv, TypeOK
<1>5. TypeOK'
  BY <1>1, <1>2, <1>3
     DEF Chain, Answered, Fails, Logout, Write, Renamed, Rest, AccountInv, TypeOK, codeVars
<1>6. TurnsTaken'
  <2>1. CASE h = "main"
    BY <1>2, <1>3, <1>4, <2>1 DEF AccountInv, TurnsTaken, ThreadDone, Threads
  <2>2. CASE h = "refresh"
    BY <1>2, <1>3, <1>4, <2>2 DEF AccountInv, TurnsTaken, ThreadDone, Threads
  <2> QED
    BY <2>1, <2>2 DEF Threads
<1>7. KeptSignedIn'
  BY <1>1 DEF Chain, Answered, Fails, Logout, Write, Renamed, Rest, AccountInv, KeptSignedIn
<1> QED
  BY <1>5, <1>6, <1>7 DEF AccountInv

(* A process that is gone leaves nobody inside XboxAuth.                    *)
LEMMA GoneHolds == ASSUME AccountInv, Gone, UNCHANGED <<file, saved, loggedOut>> PROVE AccountInv'
<1>1. 0 \in 0 .. Expires /\ 0 \in 0 .. Interval /\ 0 \in 0 .. 2
  BY SignInAssumption
<1>2. TypeOK'
  BY <1>1 DEF Gone, AccountInv, TypeOK, Places
<1>3. TurnsTaken'
  BY DEF Gone, TurnsTaken, ThreadDone, Threads
<1>4. KeptSignedIn'
  BY DEF AccountInv, KeptSignedIn
<1> QED
  BY <1>2, <1>3, <1>4 DEF AccountInv

(* The sign-in screen.                                                      *)
LEMMA CodeHolds ==
    ASSUME AccountInv,
           Launch \/ CodeTick \/ Pending \/ CodeExpired \/ Authorized \/ SignedIn \/ NewCode
    PROVE  AccountInv'
<1> USE SignInAssumption DEF AccountInv, TypeOK, TurnsTaken, KeptSignedIn, Places, Threads,
        ThreadDone, threadVars, codeVars
<1>1. CASE Launch
  BY <1>1 DEF Launch
<1>2. CASE CodeTick
  BY <1>2 DEF CodeTick
<1>3. CASE Pending
  BY <1>3 DEF Pending
<1>4. CASE CodeExpired
  BY <1>4 DEF CodeExpired
<1>5. CASE Authorized
  BY <1>5 DEF Authorized
<1>6. CASE SignedIn
  BY <1>6 DEF SignedIn
<1>7. CASE NewCode
  BY <1>7 DEF NewCode
<1> QED
  BY <1>1, <1>2, <1>3, <1>4, <1>5, <1>6, <1>7

(* The library and the stream.                                              *)
LEMMA LibraryHolds ==
    ASSUME AccountInv,
           \/ ProfileChain \/ OpenLibrary \/ RefreshChain
           \/ LaunchGame \/ StreamStarts \/ LaunchConsole \/ StreamChain \/ StreamEnds
           \/ Confirm \/ Wipe \/ Leave
    PROVE  AccountInv'
<1> USE DEF AccountInv, TypeOK, TurnsTaken, KeptSignedIn, Places, Threads,
        ThreadDone, threadVars, codeVars
<1>1. CASE ProfileChain
  BY <1>1 DEF ProfileChain, Ask
<1>2. CASE OpenLibrary
  BY <1>2 DEF OpenLibrary
<1>3. CASE RefreshChain
  <2>1. chains' \in 0 .. 2
    BY <1>3 DEF RefreshChain
  <2> QED
    BY <1>3, <2>1 DEF RefreshChain, Ask
<1>4. CASE LaunchGame
  BY <1>4 DEF LaunchGame
<1>5. CASE StreamStarts
  BY <1>5 DEF StreamStarts
<1>6. CASE LaunchConsole
  BY <1>6 DEF LaunchConsole
<1>7. CASE StreamChain
  BY <1>7 DEF StreamChain, Ask
<1>8. CASE StreamEnds
  BY <1>8 DEF StreamEnds
<1>9. CASE Confirm
  BY <1>9 DEF Confirm
<1>10. CASE Wipe
  BY <1>10 DEF Wipe
<1>11. CASE Leave
  BY <1>11 DEF Leave
<1> QED
  BY <1>1, <1>2, <1>3, <1>4, <1>5, <1>6, <1>7, <1>8, <1>9, <1>10, <1>11

LEMMA NextHolds == AccountInv /\ [Next]_vars => AccountInv'
<1> SUFFICES ASSUME AccountInv, [Next]_vars PROVE AccountInv'
  OBVIOUS
<1>1. CASE Auth
  BY <1>1, AuthHolds
<1>2. CASE Killed \/ NotSignedIn \/ Left
  BY <1>2, GoneHolds DEF Killed, NotSignedIn, Left
<1>3. CASE Launch \/ CodeTick \/ Pending \/ CodeExpired \/ Authorized \/ SignedIn \/ NewCode
  BY <1>3, CodeHolds
<1>4. CASE \/ ProfileChain \/ OpenLibrary \/ RefreshChain
           \/ LaunchGame \/ StreamStarts \/ LaunchConsole \/ StreamChain \/ StreamEnds
           \/ Confirm \/ Wipe \/ Leave
  BY <1>4, LibraryHolds
<1>5. CASE UNCHANGED vars
  BY <1>5 DEF AccountInv, TypeOK, TurnsTaken, KeptSignedIn, ThreadDone, vars,
              threadVars, codeVars
<1> QED
  BY <1>1, <1>2, <1>3, <1>4, <1>5 DEF Next, Screens

LEMMA AccountInvHolds == Spec => []AccountInv
  BY InitHolds, NextHolds, PTL DEF Spec

(* Places, chains and the clocks of the device code keep their types        *)
(* (sign_in() of ui.cpp, main()).                                           *)
THEOREM TypeCorrect == Spec => []TypeOK
  BY AccountInvHolds, PTL DEF AccountInv

(* One XboxAuth serves both threads without a lock: the main thread asks    *)
(* only after the library's refresh has been joined or before it starts.    *)
THEOREM OneThreadAtATime == Spec => []AuthNotShared
<1>1. AccountInv => AuthNotShared
  BY DEF AccountInv, TurnsTaken, ThreadDone, AuthNotShared
<1> QED
  BY <1>1, AccountInvHolds, PTL

(* save_refresh_token() and logout(): a stored token is in the file, whole, *)
(* until somebody asks to forget it, whatever fails and whenever the        *)
(* process is killed.                                                       *)
THEOREM SignInIsKept == Spec => []KeptSignedIn
  BY AccountInvHolds, PTL DEF AccountInv

-----------------------------------------------------------------------------
(* Counting is one thing in every module.                                   *)

LEMMA SameFinite ==
    ASSUME NEW T
    PROVE  /\ Art!IsFiniteSet(T) <=> IsFiniteSet(T)
           /\ Names!IsFiniteSet(T) <=> IsFiniteSet(T)
  BY DEF Art!IsFiniteSet, IsFiniteSet, Names!IsFiniteSet

LEMMA SameCounts ==
    ASSUME NEW T
    PROVE  /\ Art!Cardinality(T) = Cardinality(T)
           /\ Menu!Cardinality(T) = Cardinality(T)
           /\ Pad!Cardinality(T) = Cardinality(T)
           /\ Names!Cardinality(T) = Cardinality(T)
  BY DEF Art!Cardinality, Cardinality, Menu!Cardinality, Pad!Cardinality,
         Names!Cardinality

-----------------------------------------------------------------------------
(* Sequences without repetition.                                            *)

(* No element of one occurs in the other.                                   *)
Apart(p, q) == \A i \in DOMAIN p, j \in DOMAIN q : p[i] # q[j]

Within(q, A) == \A i \in DOMAIN q : q[i] \in A

LEMMA SequenceIsFunction ==
    ASSUME NEW A, NEW q \in Seq(A)
    PROVE  Len(q) \in Nat /\ DOMAIN q = 1 .. Len(q) /\ Within(q, A)
  BY DEF Within

LEMMA JoinedDistinct ==
    ASSUME NEW A, NEW p \in Seq(A), NEW q \in Seq(A)
    PROVE  IsInjective(p \o q) <=> IsInjective(p) /\ IsInjective(q) /\ Apart(p, q)
<1> DEFINE m == Len(p)
           n == Len(q)
           r == p \o q
<1>1. /\ m \in Nat /\ n \in Nat
      /\ DOMAIN p = 1 .. m /\ DOMAIN q = 1 .. n /\ DOMAIN r = 1 .. m + n
      /\ \A i \in 1 .. m : r[i] = p[i]
      /\ \A j \in 1 .. n : r[m + j] = q[j]
  OBVIOUS
<1> HIDE DEF m, n, r
<1>2. ASSUME IsInjective(r)
      PROVE  IsInjective(p) /\ IsInjective(q) /\ Apart(p, q)
  <2>1. \A i \in 1 .. m : i \in DOMAIN r
    BY <1>1
  <2>2. \A j \in 1 .. n : m + j \in DOMAIN r
    BY <1>1
  <2>3. IsInjective(p)
    BY <1>1, <1>2, <2>1 DEF IsInjective
  <2>4. IsInjective(q)
    <3> SUFFICES ASSUME NEW i \in 1 .. n, NEW j \in 1 .. n, q[i] = q[j]
                 PROVE  i = j
      BY <1>1 DEF IsInjective
    <3>1. m + i = m + j
      BY <1>1, <1>2, <2>2 DEF IsInjective
    <3> QED
      BY <1>1, <3>1
  <2>5. Apart(p, q)
    <3> SUFFICES ASSUME NEW i \in 1 .. m, NEW j \in 1 .. n, p[i] = q[j]
                 PROVE  FALSE
      BY <1>1 DEF Apart
    <3>1. i = m + j
      BY <1>1, <1>2, <2>1, <2>2 DEF IsInjective
    <3> QED
      BY <1>1, <3>1
  <2> QED
    BY <2>3, <2>4, <2>5
<1>3. ASSUME IsInjective(p), IsInjective(q), Apart(p, q)
      PROVE  IsInjective(r)
  <2> SUFFICES ASSUME NEW i \in 1 .. m + n, NEW j \in 1 .. m + n, r[i] = r[j]
               PROVE  i = j
    BY <1>1 DEF IsInjective
  <2>1. CASE i <= m /\ j <= m
    BY <1>1, <1>3, <2>1 DEF IsInjective
  <2>2. CASE i > m /\ j > m
    <3>1. i - m \in 1 .. n /\ j - m \in 1 .. n /\ m + (i - m) = i /\ m + (j - m) = j
      BY <1>1, <2>2
    <3>2. q[i - m] = q[j - m]
      BY <1>1, <3>1
    <3>3. i - m = j - m
      BY <1>1, <1>3, <3>1, <3>2 DEF IsInjective
    <3> QED
      BY <1>1, <3>3
  <2>3. CASE i <= m /\ j > m
    <3>1. i \in 1 .. m /\ j - m \in 1 .. n /\ m + (j - m) = j
      BY <1>1, <2>3
    <3>2. p[i] = q[j - m]
      BY <1>1, <3>1
    <3> QED
      BY <1>1, <1>3, <3>1, <3>2 DEF Apart
  <2>4. CASE i > m /\ j <= m
    <3>1. j \in 1 .. m /\ i - m \in 1 .. n /\ m + (i - m) = i
      BY <1>1, <2>4
    <3>2. p[j] = q[i - m]
      BY <1>1, <3>1
    <3> QED
      BY <1>1, <1>3, <3>1, <3>2 DEF Apart
  <2> QED
    BY <1>1, <2>1, <2>2, <2>3, <2>4
<1> QED
  BY <1>2, <1>3 DEF r

(* A finite set as a sequence, whichever SetToSeq() chooses.                *)
LEMMA SetToSeqIsDistinct ==
    ASSUME NEW A, IsFiniteSet(A)
    PROVE  /\ Names!SetToSeq(A) \in Seq(A) /\ IsInjective(Names!SetToSeq(A))
           /\ Len(Names!SetToSeq(A)) = Cardinality(A) /\ Cardinality(A) \in Nat
<1> DEFINE n == Cardinality(A)
<1>1. n \in Nat /\ ExistsBijection(1 .. n, A)
  BY FS_CardinalityType
<1>2. \E f \in [1 .. n -> A] : IsInjective(f)
  BY <1>1 DEF ExistsBijection, Bijection, Injection
<1>3. Names!SetToSeq(A) \in [1 .. n -> A] /\ IsInjective(Names!SetToSeq(A))
  BY <1>2, SameCounts DEF Names!SetToSeq, Names!IsInjective, IsInjective
<1> HIDE DEF n
<1>4. Names!SetToSeq(A) \in Seq(A) /\ Len(Names!SetToSeq(A)) = n
  BY <1>1, <1>3
<1> QED
  BY <1>1, <1>3, <1>4 DEF n

(* The first n elements and the rest.                                       *)
LEMMA CutInTwo ==
    ASSUME NEW A, NEW q \in Seq(A), IsInjective(q), NEW n \in 0 .. Len(q)
    PROVE  LET p == SubSeq(q, 1, n)
               r == SubSeq(q, n + 1, Len(q))
           IN  /\ p \in Seq(A) /\ r \in Seq(A)
               /\ Len(p) = n /\ Len(r) = Len(q) - n
               /\ IsInjective(p) /\ IsInjective(r) /\ Apart(r, p)
               /\ \A T : Within(q, T) => Within(p, T) /\ Within(r, T)
<1> DEFINE k == Len(q)
           p == SubSeq(q, 1, n)
           r == SubSeq(q, n + 1, k)
<1>1. /\ k \in Nat /\ n \in Nat /\ n <= k /\ DOMAIN q = 1 .. k
      /\ \A i \in 1 .. k : q[i] \in A
  BY SequenceIsFunction DEF Within
<1> HIDE DEF k
<1>2. /\ p \in Seq(A) /\ Len(p) = n /\ \A i \in 1 .. n : p[i] = q[i]
  <2>1. \A i \in 1 .. n : q[i] \in A
    BY <1>1
  <2>2. /\ p \in Seq(A) /\ Len(p) = IF 1 <= n THEN n - 1 + 1 ELSE 0
        /\ \A i \in 1 .. n - 1 + 1 : p[i] = q[1 + i - 1]
    BY <1>1, <2>1, SubSeqProperties
  <2> QED
    BY <1>1, <2>2
<1>3. /\ r \in Seq(A) /\ Len(r) = k - n /\ \A i \in 1 .. k - n : r[i] = q[n + i]
  <2>1. \A i \in n + 1 .. k : q[i] \in A
    BY <1>1
  <2>2. /\ r \in Seq(A) /\ Len(r) = IF n + 1 <= k THEN k - (n + 1) + 1 ELSE 0
        /\ \A i \in 1 .. k - (n + 1) + 1 : r[i] = q[(n + 1) + i - 1]
    BY <1>1, <2>1, SubSeqProperties
  <2> QED
    BY <1>1, <2>2
<1>4. DOMAIN p = 1 .. n /\ DOMAIN r = 1 .. k - n
  BY <1>2, <1>3, SequenceIsFunction
<1> HIDE DEF p, r
<1>5. /\ \A i \in 1 .. n : i \in DOMAIN q
      /\ \A i \in 1 .. k - n : n + i \in DOMAIN q
  BY <1>1
<1>6. IsInjective(p)
  BY <1>2, <1>4, <1>5 DEF IsInjective
<1>7. IsInjective(r)
  <2> SUFFICES ASSUME NEW i \in 1 .. k - n, NEW j \in 1 .. k - n, r[i] = r[j]
               PROVE  i = j
    BY <1>4 DEF IsInjective
  <2>1. n + i = n + j
    BY <1>3, <1>5 DEF IsInjective
  <2> QED
    BY <1>1, <2>1
<1>8. Apart(r, p)
  <2> SUFFICES ASSUME NEW i \in 1 .. k - n, NEW j \in 1 .. n, r[i] = p[j]
               PROVE  FALSE
    BY <1>4 DEF Apart
  <2>1. n + i = j
    BY <1>2, <1>3, <1>5 DEF IsInjective
  <2> QED
    BY <1>1, <2>1
<1>9. \A T : Within(q, T) => Within(p, T) /\ Within(r, T)
  BY <1>2, <1>3, <1>4, <1>5 DEF Within
<1> QED
  BY <1>2, <1>3, <1>6, <1>7, <1>8, <1>9 DEF p, r, k

-----------------------------------------------------------------------------
(* Why the counter is right: a title is queued once per launch, because     *)
(* asked_ holds everything that was ever queued; the worker has a batch in  *)
(* hand only between taking and recording it; and nobody queues while what  *)
(* was queued before still waits to be counted.                             *)
Queues ==
    /\ lookups \in Seq(Titles) /\ batch \in Seq(Titles)
    /\ pending \in Int /\ owed \in Nat

AskedOnce == Within(lookups, asked) /\ Within(batch, asked)

Distinct == IsInjective(lookups) /\ IsInjective(batch) /\ Apart(lookups, batch)

Counted == pending + owed = Len(lookups) + Len(batch)

InHand == wpc \notin {"fetch", "record"} => batch = <<>>

CountedBefore == waiting \in {"off", "asking"} => owed = 0

AtRest == waiting = "off" => wpc = "done"

LookupInv ==
    Queues /\ AskedOnce /\ Distinct /\ Counted /\ InHand /\ CountedBefore /\ AtRest

LEMMA InvIsEnough == LookupInv => Names!LookupsAccounted
<1> SUFFICES ASSUME LookupInv PROVE Names!LookupsAccounted
  OBVIOUS
<1>1. IsInjective(lookups \o batch)
  BY JoinedDistinct DEF LookupInv, Queues, Distinct
<1> QED
  BY <1>1 DEF Names!LookupsAccounted, LookupInv, Counted, IsInjective

LEMMA NothingQueued ==
    /\ <<>> \in Seq(Titles) /\ Len(<<>>) = 0 /\ IsInjective(<<>>)
    /\ \A A : Within(<<>>, A)
    /\ \A q : Apart(<<>>, q) /\ Apart(q, <<>>)
  BY DEF IsInjective, Within, Apart

LEMMA EmptyInv ==
    ASSUME lookups = <<>>, batch = <<>>, pending = 0, owed = 0, wpc = "done"
    PROVE  LookupInv
  BY NothingQueued
  DEF LookupInv, Queues, AskedOnce, Distinct, Counted, InHand, CountedBefore, AtRest

(* Titles not asked for yet, appended to the queue.                         *)
LEMMA EnqueueKeeps ==
    ASSUME Names!NamesAssumption, LookupInv, owed = 0,
           NEW new \in SUBSET (Titles \ asked), Names!Enqueue(new),
           UNCHANGED <<batch, pending, wpc>>, waiting' \notin {"off", "asking"}
    PROVE  LookupInv'
<1> DEFINE more == Names!SetToSeq(new)
<1>1. IsFiniteSet(new)
  BY FS_Subset, SameFinite DEF Names!NamesAssumption
<1>2. /\ more \in Seq(new) /\ IsInjective(more)
      /\ Len(more) = Cardinality(new) /\ Cardinality(new) \in Nat
  BY <1>1, SetToSeqIsDistinct
<1>3. Within(more, new) /\ DOMAIN more = 1 .. Len(more)
  BY <1>2, SequenceIsFunction
<1>4. more \in Seq(Titles)
  BY <1>2
<1>5. lookups' = lookups \o more /\ owed' = Cardinality(new) /\ asked' = asked \cup new
  BY SameCounts DEF Names!Enqueue
<1> HIDE DEF more
<1>6. /\ lookups \in Seq(Titles) /\ batch \in Seq(Titles)
      /\ Within(lookups, asked) /\ Within(batch, asked)
  BY DEF LookupInv, Queues, AskedOnce
<1>7. Apart(lookups, more) /\ Apart(more, batch)
  BY <1>3, <1>6 DEF Apart, Within
<1>8. /\ lookups' \in Seq(Titles) /\ Len(lookups') = Len(lookups) + Len(more)
      /\ \A i \in DOMAIN lookups' : \/ \E j \in DOMAIN lookups : lookups'[i] = lookups[j]
                                 \/ \E j \in DOMAIN more : lookups'[i] = more[j]
  <2>1. /\ lookups' \in Seq(Titles) /\ Len(lookups') = Len(lookups) + Len(more)
        /\ \A i \in 1 .. Len(lookups) + Len(more) :
               lookups'[i] = IF i <= Len(lookups) THEN lookups[i] ELSE more[i - Len(lookups)]
    BY <1>4, <1>5, <1>6, ConcatProperties
  <2>2. /\ Len(lookups) \in Nat /\ DOMAIN lookups = 1 .. Len(lookups)
        /\ Len(more) \in Nat /\ DOMAIN more = 1 .. Len(more)
        /\ DOMAIN lookups' = 1 .. Len(lookups')
    BY <1>4, <1>6, <2>1, SequenceIsFunction
  <2>3. ASSUME NEW i \in 1 .. Len(lookups) + Len(more)
        PROVE  \/ \E j \in DOMAIN lookups : lookups'[i] = lookups[j]
               \/ \E j \in DOMAIN more : lookups'[i] = more[j]
    <3>1. CASE i <= Len(lookups)
      <4>1. i \in DOMAIN lookups /\ lookups'[i] = lookups[i]
        BY <2>1, <2>2, <3>1
      <4> QED
        BY <4>1
    <3>2. CASE i > Len(lookups)
      <4>1. i - Len(lookups) \in DOMAIN more /\ lookups'[i] = more[i - Len(lookups)]
        BY <2>1, <2>2, <3>2
      <4> QED
        BY <4>1
    <3> QED
      BY <2>2, <3>1, <3>2
  <2> QED
    BY <2>1, <2>2, <2>3
<1>9. Queues' /\ CountedBefore' /\ InHand' /\ AtRest'
  BY <1>2, <1>5, <1>8 DEF LookupInv, Queues, InHand, CountedBefore, AtRest
<1>10. AskedOnce'
  BY <1>3, <1>5, <1>6, <1>8 DEF AskedOnce, Within
<1>11. IsInjective(lookups')
  BY <1>2, <1>4, <1>5, <1>6, <1>7, JoinedDistinct DEF LookupInv, Distinct
<1>12. Apart(lookups', batch')
  BY <1>7, <1>8 DEF LookupInv, Distinct, Apart
<1>13. Counted'
  <2>1. Len(lookups) \in Nat /\ Len(batch) \in Nat
    BY <1>6, SequenceIsFunction
  <2> QED
    BY <1>2, <1>5, <1>8, <2>1 DEF LookupInv, Counted, Queues
<1> QED
  BY <1>9, <1>10, <1>11, <1>12, <1>13 DEF LookupInv, Distinct

(* The worker takes the first titles of the queue.                          *)
LEMMA CheckKeeps ==
    ASSUME Names!NamesAssumption, LookupInv, Names!Check
    PROVE  LookupInv'
<1>1. batch = <<>> /\ waiting # "off"
  BY DEF LookupInv, InHand, AtRest, Names!Check
<1>2. CASE quitting \/ lookups = <<>>
  <2>1. UNCHANGED <<lookups, batch, asked, pending, owed, waiting>> /\ wpc' \in {"done", "checked"}
    BY <1>2 DEF Names!Check, Names!mainVars
  <2> QED
    BY <1>1, <2>1
    DEF LookupInv, Queues, AskedOnce, Distinct, Counted, InHand, CountedBefore, AtRest
<1>3. CASE ~(quitting \/ lookups = <<>>)
  <2> DEFINE n == IF Len(lookups) < BatchMax THEN Len(lookups) ELSE BatchMax
  <2>1. lookups \in Seq(Titles) /\ Len(lookups) \in Nat /\ IsInjective(lookups)
    BY SequenceIsFunction DEF LookupInv, Queues, Distinct
  <2>2. n \in 0 .. Len(lookups)
    BY <2>1 DEF Names!NamesAssumption
  <2>3. /\ batch' = SubSeq(lookups, 1, n) /\ lookups' = SubSeq(lookups, n + 1, Len(lookups))
        /\ wpc' = "fetch" /\ UNCHANGED <<asked, pending, owed, waiting>>
    BY <1>3 DEF Names!Check, Names!mainVars
  <2> HIDE DEF n
  <2>4. /\ batch' \in Seq(Titles) /\ lookups' \in Seq(Titles)
        /\ Len(batch') = n /\ Len(lookups') = Len(lookups) - n
        /\ IsInjective(batch') /\ IsInjective(lookups') /\ Apart(lookups', batch')
        /\ \A T : Within(lookups, T) => Within(batch', T) /\ Within(lookups', T)
    BY <2>1, <2>2, <2>3, CutInTwo
  <2>5. Counted'
    <3>1. pending + owed = Len(lookups) + 0
      BY <1>1, NothingQueued DEF LookupInv, Counted
    <3>2. Len(lookups') + Len(batch') = Len(lookups)
      BY <2>1, <2>2, <2>4
    <3>3. pending' = pending /\ owed' = owed
      BY <2>3
    <3> QED
      BY ONLY <2>1, <3>1, <3>2, <3>3 DEF Counted
  <2> QED
    BY <1>1, <2>3, <2>4, <2>5
    DEF LookupInv, Queues, AskedOnce, Distinct, InHand, CountedBefore, AtRest
<1> QED
  BY <1>2, <1>3

(* The worker hands its batch back.                                         *)
LEMMA RecordKeeps ==
    ASSUME LookupInv, Names!Record
    PROVE  LookupInv'
<1>1. /\ batch' = <<>> /\ pending' = pending - Len(batch)
      /\ UNCHANGED <<lookups, asked, owed, waiting>> /\ waiting # "off"
  BY DEF Names!Record, Names!mainVars, LookupInv, AtRest
<1>2. Len(batch) \in Nat /\ Len(lookups) \in Nat
  BY SequenceIsFunction DEF LookupInv, Queues
<1>3. Counted'
  BY <1>1, <1>2, NothingQueued DEF LookupInv, Queues, Counted
<1> QED
  BY <1>1, <1>2, <1>3, NothingQueued
  DEF LookupInv, Queues, AskedOnce, Distinct, InHand, CountedBefore, AtRest

LEMMA LookupsNext ==
    ASSUME Names!NamesAssumption, LookupInv, [Names!Next]_Names!vars
    PROVE  LookupInv'
<1>1. ASSUME UNCHANGED <<lookups, batch, pending, owed, asked>>,
             wpc' \in {"fetch", "record"} \/ batch = <<>>,
             waiting' \in {"off", "asking"} => owed = 0,
             waiting' = "off" => wpc' = "done"
      PROVE  LookupInv'
  BY <1>1 DEF LookupInv, Queues, AskedOnce, Distinct, Counted, InHand, CountedBefore, AtRest
<1>2. CASE Names!Launch
  BY <1>1, <1>2 DEF Names!Launch, Names!askVars, LookupInv, InHand, CountedBefore, AtRest
<1>3. CASE Names!Request
  <2>1. Names!Wanted \in SUBSET (Titles \ asked)
    BY DEF Names!Wanted
  <2> QED
    BY <1>3, <2>1, EnqueueKeeps DEF Names!Request, Names!workVars, LookupInv, CountedBefore
<1>4. CASE Names!CountAndNotify
  <2>1. /\ UNCHANGED <<lookups, batch, asked, waiting>> /\ pending' = pending + owed /\ owed' = 0
        /\ wpc' \in {"fetch", "record"} \/ batch = <<>>
        /\ waiting' = "off" => wpc' = "done"
    BY <1>4 DEF Names!CountAndNotify, Names!mainVars, LookupInv, InHand, AtRest
  <2> QED
    BY <2>1 DEF LookupInv, Queues, AskedOnce, Distinct, Counted, InHand, CountedBefore, AtRest
<1>5. CASE Names!LoadingEnds
  <2>1. PICK slice \in SUBSET Names!Aged : Names!Enqueue(slice)
    BY <1>5 DEF Names!LoadingEnds, Names!kSubset
  <2>2. slice \in SUBSET (Titles \ asked)
    BY DEF Names!Aged
  <2> QED
    BY <1>5, <2>1, <2>2, EnqueueKeeps DEF Names!LoadingEnds, Names!workVars
<1>6. CASE Names!Pump
  BY <1>1, <1>6 DEF Names!Pump, Names!workVars, Names!askVars, LookupInv, InHand,
                        CountedBefore, AtRest
<1>7. CASE Names!CatalogArrives
  <2> DEFINE new == {t \in Names!Wanted : t \notin titled' \/ t \in stale}
  <2>1. new \in SUBSET (Titles \ asked)
    BY DEF Names!Wanted
  <2>2. Names!Enqueue(new) /\ owed = 0 /\ waiting' = "list" /\ UNCHANGED <<batch, pending, wpc>>
    BY <1>7 DEF Names!CatalogArrives, Names!workVars
  <2> QED
    BY <2>1, <2>2, EnqueueKeeps
<1>8. CASE Names!Quit
  <2>1. wpc' \in {"fetch", "record"} \/ batch = <<>>
    BY <1>8 DEF Names!Quit, LookupInv, InHand
  <2> QED
    BY <1>1, <1>8, <2>1 DEF Names!Quit, Names!askVars, Names!mainVars, LookupInv, CountedBefore
<1>9. CASE Names!Joined \/ Names!Killed
  <2>1. lookups' = <<>> /\ batch' = <<>> /\ pending' = 0 /\ owed' = 0
    BY <1>9 DEF Names!Joined, Names!Killed, Names!Off
  <2> QED
    BY <1>9, <2>1, NothingQueued
    DEF Names!Joined, Names!Killed, Names!Off, LookupInv, Queues, AskedOnce, Distinct, Counted,
        InHand, CountedBefore, AtRest
<1>10. CASE Names!Check
  BY <1>10, CheckKeeps
<1>11. CASE Names!Sleep \/ Names!Fetch \/ Names!Save
  <2>1. UNCHANGED <<lookups, batch, pending, owed, asked, waiting>>
    BY <1>11 DEF Names!Sleep, Names!Fetch, Names!Save, Names!askVars, Names!mainVars
  <2>2. wpc' \in {"fetch", "record"} \/ batch = <<>>
    BY <1>11 DEF Names!Sleep, Names!Fetch, Names!Save, LookupInv, InHand
  <2> QED
    BY <1>1, <1>11, <2>1, <2>2 DEF Names!Sleep, Names!Fetch, Names!Save, LookupInv,
                                   CountedBefore, AtRest
<1>12. CASE Names!Record
  BY <1>12, RecordKeeps
<1>13. CASE Names!Day \/ UNCHANGED Names!vars
  <2>1. UNCHANGED <<lookups, batch, pending, owed, asked, waiting, wpc>>
    BY <1>13 DEF Names!Day, Names!vars, Names!workVars, Names!askVars, Names!mainVars
  <2> QED
    BY <1>1, <2>1 DEF LookupInv, InHand, CountedBefore, AtRest
<1> QED
  BY <1>2, <1>3, <1>4, <1>5, <1>6, <1>7, <1>8, <1>9, <1>10, <1>11, <1>12, <1>13 DEF Names!Next

-----------------------------------------------------------------------------
(* The loading screen's counter is the titles queued and in flight, and no  *)
(* title is looked up twice in a launch, for every catalogue, batch size,   *)
(* answer of the network and interleaving of request() with its worker.     *)
THEOREM LookupsAlwaysAccounted ==
    ASSUME Names!NamesAssumption
    PROVE  Names!Spec => []Names!LookupsAccounted
<1>1. Names!Init => LookupInv
  BY EmptyInv DEF Names!Init
<1>2. LookupInv /\ [Names!Next]_Names!vars => LookupInv'
  BY LookupsNext
<1> QED
  BY <1>1, <1>2, InvIsEnough, PTL DEF Names!Spec

(* The entries of a name cache, as they age and are read from an old file.  *)
EntryTypes ==
    /\ names \in Names!Entries /\ cache \in Names!Entries
    /\ stale \subseteq {t \in Titles : cache[t] # Absent}

WorkTypes ==
    /\ Len(batch) <= BatchMax /\ got \subseteq Names!ToSet(batch) /\ threw \in BOOLEAN
    /\ wpc \in {"idle", "checked", "blocked", "fetch", "record", "save", "done"}

ScreenTypes ==
    /\ done \subseteq Titles /\ asked \subseteq Titles /\ failed \subseteq Titles
    /\ titled \subseteq Titles /\ genred \subseteq Titles
    /\ waiting \in {"off", "asking", "waiting", "list"} /\ quitting \in BOOLEAN

NamesInv == LookupInv /\ EntryTypes /\ WorkTypes /\ ScreenTypes

LEMMA OfBatch ==
    ASSUME NEW q \in Seq(Titles) PROVE Names!ToSet(q) \subseteq Titles
<1>1. \A i \in DOMAIN q : q[i] \in Titles
  BY SequenceIsFunction
<1> QED
  BY <1>1 DEF Names!ToSet

LEMMA NamesTypesFollow == NamesInv => Names!TypeOK
<1> SUFFICES ASSUME NamesInv PROVE Names!TypeOK
  OBVIOUS
<1>1. lookups \in Seq(Titles) /\ batch \in Seq(Titles) /\ pending \in Int /\ owed \in Nat
  BY DEF NamesInv, LookupInv, Queues
<1>2. got \subseteq Titles
  BY <1>1, OfBatch DEF NamesInv, WorkTypes
<1>3. stale \subseteq Titles
  BY DEF NamesInv, EntryTypes
<1> QED
  BY <1>1, <1>2, <1>3 DEF NamesInv, EntryTypes, WorkTypes, ScreenTypes, Names!TypeOK

(* An entry made from another, or from nothing, is an entry.                *)
LEMMA EntriesAre ==
    ASSUME Names!NamesAssumption
    PROVE  /\ \A e \in Names!Entry : [e EXCEPT !.genre = "blank"] \in Names!Entry
           /\ \A e \in Names!Entry : e.age # Names!MaxAge => [e EXCEPT !.age = @ + 1] \in Names!Entry
           /\ \A m \in BOOLEAN, g \in {"blank", "known"} :
                 [miss |-> m, genre |-> g, age |-> 0] \in Names!Entry
           /\ Absent \notin Names!Entry
           /\ Names!Nothing \in Names!Entries
           /\ [Titles -> Names!Old] \subseteq Names!Entries
<1>1. Names!MaxAge \in Nat /\ Absent \notin Names!Entry
  BY DEF Names!NamesAssumption, Names!MaxAge
<1>2. \A e \in Names!Entry : [e EXCEPT !.genre = "blank"] \in Names!Entry
  BY <1>1 DEF Names!Entry
<1>3. \A e \in Names!Entry : e.age # Names!MaxAge => [e EXCEPT !.age = @ + 1] \in Names!Entry
  BY <1>1 DEF Names!Entry
<1>4. \A m \in BOOLEAN, g \in {"blank", "known"} :
         [miss |-> m, genre |-> g, age |-> 0] \in Names!Entry
  BY <1>1 DEF Names!Entry
<1>5. Names!Old \subseteq Names!Entry \cup {Absent}
  <2>1. {0, Names!MaxAge} \subseteq 0 .. Names!MaxAge /\ {Names!MaxAge} \subseteq 0 .. Names!MaxAge
    BY <1>1
  <2>2. [miss : {FALSE}, genre : {"none", "known"}, age : {0, Names!MaxAge}] \subseteq Names!Entry
    BY <2>1 DEF Names!Entry
  <2>3. [miss : {TRUE}, genre : {"blank"}, age : {Names!MaxAge}] \subseteq Names!Entry
    BY <2>1 DEF Names!Entry
  <2> QED
    BY <2>2, <2>3 DEF Names!Old
<1>6. Names!Nothing \in Names!Entries
  BY DEF Names!Entries, Names!Nothing
<1>7. [Titles -> Names!Old] \subseteq Names!Entries
  BY <1>5 DEF Names!Entries
<1> QED
  BY <1>1, <1>2, <1>3, <1>4, <1>6, <1>7

LEMMA NoBatch == Names!NamesAssumption => Len(<<>>) <= BatchMax
<1>1. Len(<<>>) = 0
  BY NothingQueued
<1> QED
  BY <1>1 DEF Names!NamesAssumption

LEMMA NamesInit == ASSUME Names!NamesAssumption, Names!Init PROVE NamesInv
<1>1. LookupInv
  BY EmptyInv DEF Names!Init
<1>2. EntryTypes
  BY EntriesAre DEF EntryTypes, Names!Init
<1>3. WorkTypes
  BY NoBatch DEF WorkTypes, Names!Init
<1> QED
  BY <1>1, <1>2, <1>3 DEF NamesInv, ScreenTypes, Names!Init

LEMMA EntriesNext ==
    ASSUME Names!NamesAssumption, NamesInv, [Names!Next]_Names!vars
    PROVE  EntryTypes'
<1>0. EntryTypes /\ batch \in Seq(Titles)
  BY DEF NamesInv, LookupInv, Queues
<1>1. ASSUME UNCHANGED <<names, cache, stale>> PROVE EntryTypes'
  BY <1>0, <1>1 DEF EntryTypes
<1>2. CASE Names!Launch
  <2>1. names' = names
    BY <1>2 DEF Names!Launch, Names!diskVars
  <2>2. cache' \in Names!Entries
    BY <1>0, <1>2, EntriesAre DEF Names!Launch, EntryTypes, Names!Entries, Names!Hits
  <2>3. \A t \in Titles : names[t] # Absent => cache'[t] # Absent
    BY <1>0, <1>2, EntriesAre DEF Names!Launch, EntryTypes, Names!Entries, Names!Hits
  <2>4. stale' \subseteq {t \in Titles : cache'[t] # Absent}
    BY <1>2, <2>3 DEF Names!Launch
  <2> QED
    BY <1>0, <2>1, <2>2, <2>4 DEF EntryTypes
<1>3. CASE Names!Request \/ Names!CountAndNotify \/ Names!LoadingEnds \/ Names!Pump
           \/ Names!CatalogArrives \/ Names!Quit
  BY <1>1, <1>3 DEF Names!Request, Names!CountAndNotify, Names!LoadingEnds, Names!Pump,
     Names!CatalogArrives, Names!Quit, Names!diskVars, Names!cacheVars
<1>4. CASE Names!Joined \/ Names!Killed
  BY <1>0, <1>4, EntriesAre DEF Names!Joined, Names!Killed, Names!Off, Names!diskVars, EntryTypes
<1>5. CASE Names!Check \/ Names!Sleep \/ Names!Fetch \/ UNCHANGED Names!vars
  BY <1>1, <1>5 DEF Names!Check, Names!Sleep, Names!Fetch, Names!vars, Names!diskVars,
     Names!cacheVars
<1>6. CASE Names!Record
  <2>1. PICK genres \in SUBSET got : cache' = Names!Recorded(genres)
    BY <1>6 DEF Names!Record
  <2>2. \A t \in Titles : cache'[t] = cache[t] \/ cache'[t] \in Names!Entry
    BY <2>1, EntriesAre DEF Names!Recorded
  <2>3. cache' \in Names!Entries
    BY <1>0, <2>1, <2>2 DEF Names!Recorded, EntryTypes, Names!Entries
  <2>4. names' = names /\ stale' \subseteq stale
    BY <1>6 DEF Names!Record
  <2> QED
    BY <1>0, <2>2, <2>3, <2>4, EntriesAre DEF EntryTypes
<1>7. CASE Names!Save
  BY <1>0, <1>7, EntriesAre DEF Names!Save, Names!cacheVars, EntryTypes
<1>8. CASE Names!Day
  <2>1. UNCHANGED <<cache, stale>>
    BY <1>8 DEF Names!Day, Names!cacheVars
  <2>2. names' \in Names!Entries
    BY <1>0, <1>8, EntriesAre DEF Names!Day, EntryTypes, Names!Entries
  <2> QED
    BY <1>0, <2>1, <2>2 DEF EntryTypes
<1> QED
  BY <1>2, <1>3, <1>4, <1>5, <1>6, <1>7, <1>8 DEF Names!Next

LEMMA WorkNext ==
    ASSUME Names!NamesAssumption, NamesInv, [Names!Next]_Names!vars
    PROVE  WorkTypes'
<1>0. WorkTypes
  BY DEF NamesInv
<1>1. ASSUME UNCHANGED <<batch, got, threw>>,
             wpc' \in {wpc, "idle", "checked", "blocked", "fetch", "record", "save", "done"}
      PROVE  WorkTypes'
  BY <1>0, <1>1 DEF WorkTypes
<1>2. ASSUME batch' = <<>>, got' = {}, threw' = FALSE, wpc' \in {"save", "done"} PROVE WorkTypes'
  BY <1>2, NoBatch DEF WorkTypes
<1>3. CASE Names!Launch \/ Names!Request \/ Names!CountAndNotify \/ Names!LoadingEnds
           \/ Names!Pump \/ Names!CatalogArrives \/ Names!Quit \/ Names!Sleep \/ Names!Save
           \/ Names!Day \/ UNCHANGED Names!vars
  BY <1>1, <1>3 DEF Names!Launch, Names!Request, Names!CountAndNotify, Names!LoadingEnds,
     Names!Pump, Names!CatalogArrives, Names!Quit, Names!Sleep, Names!Save, Names!Day,
     Names!vars, Names!workVars
<1>4. CASE Names!Joined \/ Names!Killed \/ Names!Record
  BY <1>2, <1>4 DEF Names!Joined, Names!Killed, Names!Off, Names!Record
<1>5. CASE Names!Fetch
  BY <1>0, <1>5 DEF Names!Fetch, WorkTypes
<1>6. CASE Names!Check
  <2>1. CASE quitting \/ lookups = <<>>
    BY <1>1, <1>6, <2>1 DEF Names!Check
  <2>2. CASE ~(quitting \/ lookups = <<>>)
    <3> DEFINE n == IF Len(lookups) < BatchMax THEN Len(lookups) ELSE BatchMax
    <3>1. lookups \in Seq(Titles) /\ Len(lookups) \in Nat /\ IsInjective(lookups)
      BY SequenceIsFunction DEF NamesInv, LookupInv, Queues, Distinct
    <3>2. n \in 0 .. Len(lookups) /\ n <= BatchMax
      BY <3>1 DEF Names!NamesAssumption
    <3>3. batch' = SubSeq(lookups, 1, n) /\ wpc' = "fetch" /\ UNCHANGED <<got, threw>>
      BY <1>6, <2>2 DEF Names!Check
    <3> HIDE DEF n
    <3>4. Len(batch') = n
      BY <3>1, <3>2, <3>3, CutInTwo
    <3>5. got = {}
      <4>1. batch = <<>>
        BY <1>6 DEF NamesInv, LookupInv, InHand, Names!Check
      <4> QED
        BY <1>0, <4>1 DEF WorkTypes, Names!ToSet
    <3> QED
      BY <1>0, <3>2, <3>3, <3>4, <3>5 DEF WorkTypes
  <2> QED
    BY <2>1, <2>2
<1> QED
  BY <1>3, <1>4, <1>5, <1>6 DEF Names!Next

LEMMA ScreenNext ==
    ASSUME Names!NamesAssumption, NamesInv, [Names!Next]_Names!vars
    PROVE  ScreenTypes'
<1>0. ScreenTypes
  BY DEF NamesInv
<1>1. Names!ToSet(batch) \subseteq Titles /\ got \subseteq Titles
  <2>1. batch \in Seq(Titles)
    BY DEF NamesInv, LookupInv, Queues
  <2> QED
    BY <2>1, OfBatch DEF NamesInv, WorkTypes
<1>2. \A entries : Names!Hits(entries) \subseteq Titles
  BY DEF Names!Hits
<1>3. ASSUME NEW A \in SUBSET Titles, Names!Enqueue(A) PROVE asked' \subseteq Titles
  BY <1>0, <1>3 DEF Names!Enqueue, ScreenTypes
<1>4. CASE Names!Launch
  BY <1>0, <1>2, <1>4 DEF Names!Launch, Names!diskVars, Names!askVars, ScreenTypes
<1>5. CASE Names!Request
  <2>1. Names!Wanted \in SUBSET Titles
    BY DEF Names!Wanted
  <2> QED
    BY <1>0, <1>3, <1>5, <2>1 DEF Names!Request, Names!diskVars, ScreenTypes
<1>6. CASE Names!LoadingEnds
  <2>1. PICK slice \in SUBSET Names!Aged : Names!Enqueue(slice)
    BY <1>6 DEF Names!LoadingEnds, Names!kSubset
  <2>2. slice \in SUBSET Titles
    BY DEF Names!Aged
  <2> QED
    BY <1>0, <1>3, <1>6, <2>1, <2>2 DEF Names!LoadingEnds, Names!diskVars, ScreenTypes
<1>7. CASE Names!CatalogArrives
  <2> DEFINE new == {t \in Names!Wanted : t \notin titled' \/ t \in stale}
  <2>1. new \in SUBSET Titles
    BY DEF Names!Wanted
  <2>2. Names!Enqueue(new)
    BY <1>7 DEF Names!CatalogArrives
  <2>3. asked' \subseteq Titles
    BY <1>3, <2>1, <2>2
  <2> QED
    BY <1>0, <1>2, <1>7, <2>3 DEF Names!CatalogArrives, Names!diskVars, ScreenTypes
<1>8. CASE Names!Pump
  BY <1>0, <1>8 DEF Names!Pump, Names!diskVars, Names!askVars, ScreenTypes
<1>9. CASE Names!CountAndNotify \/ Names!Quit \/ Names!Check \/ Names!Sleep \/ Names!Fetch
           \/ Names!Save \/ Names!Day \/ UNCHANGED Names!vars
  BY <1>0, <1>9 DEF Names!CountAndNotify, Names!Quit, Names!Check, Names!Sleep, Names!Fetch,
     Names!Save, Names!Day, Names!vars, Names!diskVars, Names!askVars, Names!mainVars, ScreenTypes
<1>10. CASE Names!Joined \/ Names!Killed
  BY <1>0, <1>10 DEF Names!Joined, Names!Killed, Names!Off, Names!diskVars, ScreenTypes
<1>11. CASE Names!Record
  BY <1>0, <1>1, <1>11 DEF Names!Record, Names!mainVars, ScreenTypes
<1> QED
  BY <1>4, <1>5, <1>6, <1>7, <1>8, <1>9, <1>10, <1>11 DEF Names!Next

(* Every variable of the name cache keeps its type, over launches, kills and *)
(* files of any age (NameResolver).                                         *)
THEOREM NamesTypeCorrect ==
    ASSUME Names!NamesAssumption
    PROVE  Names!Spec => []Names!TypeOK
<1>1. Names!Init => NamesInv
  BY NamesInit
<1>2. NamesInv /\ [Names!Next]_Names!vars => NamesInv'
  BY LookupsNext, EntriesNext, WorkNext, ScreenNext DEF NamesInv
<1> QED
  BY <1>1, <1>2, NamesTypesFollow, PTL DEF Names!Spec

-----------------------------------------------------------------------------
(* Sequences without repetition, by the sets of their elements.             *)

LEMMA SeqFacts ==
    ASSUME NEW A, NEW q \in Seq(A)
    PROVE  /\ Len(q) \in Nat /\ DOMAIN q = 1 .. Len(q)
           /\ Art!ToSet(q) \in SUBSET A /\ q \in Seq(Art!ToSet(q))
           /\ \A i \in DOMAIN q : q[i] \in A
<1>1. Len(q) \in Nat /\ DOMAIN q = 1 .. Len(q) /\ \A i \in 1 .. Len(q) : q[i] \in A
  OBVIOUS
<1>2. q \in [1 .. Len(q) -> Art!ToSet(q)]
  BY <1>1 DEF Art!ToSet
<1>3. q \in Seq(Art!ToSet(q))
  BY <1>1, <1>2
<1>4. Art!ToSet(q) \in SUBSET A
  BY <1>1 DEF Art!ToSet
<1> QED
  BY <1>1, <1>3, <1>4

LEMMA FrontDistinct ==
    ASSUME NEW A, NEW q \in Seq(A), Len(q) > 0, Art!IsInjective(q)
    PROVE  /\ Art!Front(q) \in Seq(A) /\ Len(Art!Front(q)) = Len(q) - 1 /\ Art!IsInjective(Art!Front(q))
           /\ Art!ToSet(Art!Front(q)) = Art!ToSet(q) \ {Art!Last(q)} /\ Art!Last(q) \in Art!ToSet(q)
<1> DEFINE n == Len(q)
           f == Art!Front(q)
<1>1. n \in Nat /\ n > 0 /\ DOMAIN q = 1 .. n /\ \A i \in 1 .. n : q[i] \in A
  OBVIOUS
<1> HIDE DEF n
<1>2. /\ f \in Seq(A) /\ Len(f) = n - 1 /\ \A i \in 1 .. n - 1 : f[i] = q[i]
  <2>1. \A i \in 1 .. n - 1 : q[i] \in A
    BY <1>1
  <2>2. /\ f \in Seq(A) /\ Len(f) = IF 1 <= n - 1 THEN n - 1 - 1 + 1 ELSE 0
        /\ \A i \in 1 .. n - 1 - 1 + 1 : f[i] = q[1 + i - 1]
    BY <1>1, <2>1, SubSeqProperties DEF Art!Front, n
  <2> QED
    BY <1>1, <2>2
<1>3. DOMAIN f = 1 .. n - 1
  BY <1>2, SeqFacts
<1> HIDE DEF f
<1>4. \A i \in 1 .. n - 1 : i \in DOMAIN q
  BY <1>1
<1>5. Art!IsInjective(f)
  BY <1>2, <1>3, <1>4 DEF Art!IsInjective
<1>6. Art!Last(q) = q[n] /\ n \in DOMAIN q
  BY <1>1 DEF Art!Last, n
<1>7. ASSUME NEW x PROVE x \in Art!ToSet(f) <=> x \in Art!ToSet(q) /\ x # Art!Last(q)
  <2>1. ASSUME NEW i \in 1 .. n - 1, x = f[i]
        PROVE  x \in Art!ToSet(q) /\ x # Art!Last(q)
    <3>1. x = q[i] /\ i \in DOMAIN q /\ i # n
      BY <1>1, <1>2, <1>4, <2>1
    <3> QED
      BY <1>6, <3>1 DEF Art!ToSet, Art!IsInjective
  <2>2. ASSUME NEW i \in 1 .. n, x = q[i], x # q[n]
        PROVE  x \in Art!ToSet(f)
    <3>1. i \in 1 .. n - 1
      BY <1>1, <2>2
    <3> QED
      BY <1>2, <1>3, <2>2, <3>1 DEF Art!ToSet
  <2> QED
    BY <1>1, <1>3, <1>6, <2>1, <2>2 DEF Art!ToSet
<1>8. Art!Last(q) \in Art!ToSet(q)
  BY <1>6 DEF Art!ToSet
<1> QED
  BY <1>2, <1>5, <1>7, <1>8 DEF f, n

LEMMA TailDistinct ==
    ASSUME NEW A, NEW q \in Seq(A), q # <<>>, Art!IsInjective(q)
    PROVE  /\ Tail(q) \in Seq(A) /\ Len(Tail(q)) = Len(q) - 1 /\ Art!IsInjective(Tail(q))
           /\ Art!ToSet(Tail(q)) = Art!ToSet(q) \ {Head(q)} /\ Head(q) \in Art!ToSet(q)
<1> DEFINE n == Len(q)
           t == Tail(q)
<1>1. n \in Nat /\ n > 0 /\ DOMAIN q = 1 .. n /\ Head(q) = q[1] /\ 1 \in DOMAIN q
  OBVIOUS
<1>2. t \in Seq(A) /\ Len(t) = n - 1 /\ \A i \in 1 .. n - 1 : t[i] = q[i + 1]
  BY HeadTailProperties
<1>3. DOMAIN t = 1 .. n - 1
  BY <1>2, SeqFacts
<1> HIDE DEF n, t
<1>4. \A i \in 1 .. n - 1 : i + 1 \in DOMAIN q /\ i + 1 # 1
  BY <1>1
<1>5. Art!IsInjective(t)
  <2> SUFFICES ASSUME NEW i \in 1 .. n - 1, NEW j \in 1 .. n - 1, t[i] = t[j]
               PROVE  i = j
    BY <1>3 DEF Art!IsInjective
  <2>1. i + 1 = j + 1
    BY <1>2, <1>4 DEF Art!IsInjective
  <2> QED
    BY <1>1, <2>1
<1>6. ASSUME NEW x PROVE x \in Art!ToSet(t) <=> x \in Art!ToSet(q) /\ x # Head(q)
  <2>1. ASSUME NEW i \in 1 .. n - 1, x = t[i]
        PROVE  x \in Art!ToSet(q) /\ x # Head(q)
    <3>1. x = q[i + 1] /\ i + 1 \in DOMAIN q /\ i + 1 # 1
      BY <1>2, <1>4, <2>1
    <3> QED
      BY <1>1, <3>1 DEF Art!ToSet, Art!IsInjective
  <2>2. ASSUME NEW i \in 1 .. n, x = q[i], x # q[1]
        PROVE  x \in Art!ToSet(t)
    <3>1. i - 1 \in 1 .. n - 1 /\ (i - 1) + 1 = i
      BY <1>1, <2>2
    <3>2. x = t[i - 1]
      BY <1>2, <2>2, <3>1
    <3> QED
      BY <1>3, <3>1, <3>2 DEF Art!ToSet
  <2> QED
    BY <1>1, <1>3, <2>1, <2>2 DEF Art!ToSet
<1>7. Head(q) \in Art!ToSet(q)
  BY <1>1 DEF Art!ToSet
<1> QED
  BY <1>2, <1>5, <1>6, <1>7 DEF t, n

LEMMA JoinedSets ==
    ASSUME NEW A, NEW p \in Seq(A), NEW q \in Seq(A)
    PROVE  /\ p \o q \in Seq(A) /\ Len(p \o q) = Len(p) + Len(q)
           /\ Art!ToSet(p \o q) = Art!ToSet(p) \cup Art!ToSet(q)
           /\ Art!IsInjective(p \o q) <=> /\ Art!IsInjective(p) /\ Art!IsInjective(q)
                                      /\ Art!ToSet(p) \cap Art!ToSet(q) = {}
<1> DEFINE m == Len(p)
           n == Len(q)
           r == p \o q
<1>1. /\ m \in Nat /\ n \in Nat /\ DOMAIN p = 1 .. m /\ DOMAIN q = 1 .. n
      /\ r \in Seq(A) /\ Len(r) = m + n /\ DOMAIN r = 1 .. m + n
      /\ \A i \in 1 .. m : r[i] = p[i]
      /\ \A j \in 1 .. n : r[m + j] = q[j]
  OBVIOUS
<1> HIDE DEF m, n, r
<1>2. ASSUME NEW x PROVE x \in Art!ToSet(r) <=> x \in Art!ToSet(p) \/ x \in Art!ToSet(q)
  <2>1. ASSUME NEW i \in 1 .. m + n, x = r[i] PROVE x \in Art!ToSet(p) \/ x \in Art!ToSet(q)
    <3>1. CASE i <= m
      <4>1. i \in DOMAIN p /\ x = p[i]
        BY <1>1, <2>1, <3>1
      <4> QED
        BY <4>1 DEF Art!ToSet
    <3>2. CASE i > m
      <4>1. i - m \in 1 .. n /\ m + (i - m) = i
        BY <1>1, <3>2
      <4>2. i - m \in DOMAIN q /\ x = q[i - m]
        BY <1>1, <2>1, <4>1
      <4> QED
        BY <4>2 DEF Art!ToSet
    <3> QED
      BY <1>1, <3>1, <3>2
  <2>2. ASSUME NEW i \in 1 .. m, x = p[i] PROVE x \in Art!ToSet(r)
    <3>1. i \in DOMAIN r /\ x = r[i]
      BY <1>1, <2>2
    <3> QED
      BY <3>1 DEF Art!ToSet
  <2>3. ASSUME NEW j \in 1 .. n, x = q[j] PROVE x \in Art!ToSet(r)
    <3>1. m + j \in DOMAIN r /\ x = r[m + j]
      BY <1>1, <2>3
    <3> QED
      BY <3>1 DEF Art!ToSet
  <2> QED
    BY <1>1, <2>1, <2>2, <2>3 DEF Art!ToSet
<1>3. Apart(p, q) <=> Art!ToSet(p) \cap Art!ToSet(q) = {}
  BY DEF Apart, Art!ToSet
<1> QED
  BY <1>1, <1>2, <1>3, JoinedDistinct DEF r, m, n, IsInjective, Art!IsInjective

LEMMA OneElement ==
    ASSUME NEW A, NEW x \in A
    PROVE  <<x>> \in Seq(A) /\ Len(<<x>>) = 1 /\ Art!IsInjective(<<x>>) /\ Art!ToSet(<<x>>) = {x}
<1>1. <<x>> \in Seq(A) /\ Len(<<x>>) = 1 /\ DOMAIN <<x>> = {1} /\ <<x>>[1] = x
  OBVIOUS
<1> QED
  BY <1>1 DEF Art!IsInjective, Art!ToSet

LEMMA EmptyDistinct == \A A : <<>> \in Seq(A) /\ Len(<<>>) = 0 /\ Art!IsInjective(<<>>) /\ Art!ToSet(<<>>) = {}
  BY DEF Art!IsInjective, Art!ToSet

-----------------------------------------------------------------------------
(* A picture asked for is in one place.                                     *)

KeysOf(f) == [i \in DOMAIN f |-> f[i].key]

DoneKeys == KeysOf(finished)

Fetching == IF busy = Absent THEN {} ELSE {busy}

(* The three places share nothing and hold what is wanted.                  *)
OnePlace ==
    /\ Art!IsInjective(jobs) /\ Art!IsInjective(DoneKeys)
    /\ Art!ToSet(jobs) \cap Fetching = {}
    /\ Art!ToSet(jobs) \cap Art!ToSet(DoneKeys) = {}
    /\ Fetching \cap Art!ToSet(DoneKeys) = {}
    /\ wanted = Art!ToSet(jobs) \cup Fetching \cup Art!ToSet(DoneKeys)

NothingYet == \A k \in wanted : thumbs[k] = Absent

Paid == bytes = Cardinality(Art!Held(thumbs))

ArtInv == Art!TypeOK /\ OnePlace /\ NothingYet /\ Paid

LEMMA DoneAreKeys ==
    ASSUME NEW f \in Seq([key : Keys, ok : BOOLEAN])
    PROVE  /\ KeysOf(f) \in Seq(Keys)
           /\ Len(f) \in Nat /\ DOMAIN f = 1 .. Len(f)
           /\ Art!ToSet(KeysOf(f)) = {d.key : d \in Art!ToSet(f)}
<1>1. /\ Len(f) \in Nat /\ DOMAIN f = 1 .. Len(f)
      /\ \A i \in 1 .. Len(f) : f[i].key \in Keys
  <2> DEFINE Done == [key : Keys, ok : BOOLEAN]
  <2>1. f \in Seq(Done) /\ \A d \in Done : d.key \in Keys
    OBVIOUS
  <2> HIDE DEF Done
  <2> QED
    BY <2>1, SeqFacts
<1>2. KeysOf(f) \in [1 .. Len(f) -> Keys]
  BY <1>1 DEF KeysOf
<1>3. KeysOf(f) \in Seq(Keys)
  BY <1>1, <1>2
<1>4. Art!ToSet(KeysOf(f)) = {d.key : d \in Art!ToSet(f)}
  BY DEF Art!ToSet, KeysOf
<1> QED
  BY <1>1, <1>3, <1>4

LEMMA ArtIsEnough == ASSUME Art!ArtAssumption, ArtInv PROVE Art!ArtAccounted
<1> DEFINE fetching == IF busy = Absent THEN <<>> ELSE <<busy>>
           places == jobs \o fetching \o [i \in DOMAIN finished |-> finished[i].key]
<1>1. /\ fetching \in Seq(Keys) /\ Art!IsInjective(fetching) /\ Art!ToSet(fetching) = Fetching
  BY OneElement, EmptyDistinct DEF ArtInv, Art!TypeOK, Fetching
<1>2. jobs \in Seq(Keys) /\ DoneKeys \in Seq(Keys)
  BY DoneAreKeys DEF ArtInv, Art!TypeOK, DoneKeys
<1> HIDE DEF fetching
<1>3. /\ jobs \o fetching \in Seq(Keys)
      /\ Art!ToSet(jobs \o fetching) = Art!ToSet(jobs) \cup Fetching
      /\ Art!IsInjective(jobs \o fetching)
  BY <1>1, <1>2, JoinedSets DEF ArtInv, OnePlace
<1>4. Art!ToSet(places) = wanted /\ Art!IsInjective(places)
  <2>1. (Art!ToSet(jobs) \cup Fetching) \cap Art!ToSet(DoneKeys) = {}
    BY DEF ArtInv, OnePlace
  <2>2. places = (jobs \o fetching) \o DoneKeys
    BY DEF DoneKeys, KeysOf
  <2> HIDE DEF places
  <2>3. /\ Art!ToSet(places) = Art!ToSet(jobs \o fetching) \cup Art!ToSet(DoneKeys)
        /\ Art!IsInjective(places)
    BY <1>2, <1>3, <2>1, <2>2, JoinedSets DEF ArtInv, OnePlace
  <2> QED
    BY <1>3, <2>3 DEF ArtInv, OnePlace
<1> HIDE DEF places
<1>5. Art!ArtAccounted <=> /\ wanted = Art!ToSet(places) /\ Art!IsInjective(places)
                       /\ NothingYet /\ Paid
  BY SameCounts DEF Art!ArtAccounted, places, fetching, NothingYet, Paid
<1> QED
  BY <1>4, <1>5 DEF ArtInv

LEMMA EmptyCache ==
    ASSUME Art!ArtAssumption, disk' \in [Keys -> Art!Pictures],
           thumbs' = [k \in Keys |-> Absent], bytes' = 0, jobs' = <<>>, wanted' = {},
           finished' = <<>>, busy' = Absent, read' = "none", quit' = FALSE
    PROVE  ArtInv'
<1>1. Art!Held(thumbs') = {}
  BY DEF Art!Held, Art!ArtAssumption
<1>2. Paid'
  BY <1>1, FS_EmptySet DEF Paid
<1>3. DoneKeys' = <<>>
  BY DEF DoneKeys, KeysOf
<1>4. OnePlace'
  BY <1>3, EmptyDistinct DEF OnePlace, Fetching
<1>5. Art!TypeOK'
  <2>1. Len(jobs') <= MaxQueue /\ jobs' \in Seq(Keys)
    BY EmptyDistinct DEF Art!ArtAssumption
  <2>2. finished' \in Seq([key : Keys, ok : BOOLEAN])
    BY EmptyDistinct
  <2> QED
    BY <2>1, <2>2 DEF Art!TypeOK, Art!Pictures
<1> QED
  BY <1>2, <1>4, <1>5 DEF ArtInv, NothingYet

LEMMA ArtInit == ASSUME Art!ArtAssumption, Art!Init PROVE ArtInv
<1> USE DEF Art!Init, Art!Start
<1>1. Art!Held(thumbs) = {}
  BY DEF Art!Held, Art!ArtAssumption
<1>2. Paid
  BY <1>1, FS_EmptySet DEF Paid
<1>3. DoneKeys = <<>>
  BY DEF DoneKeys, KeysOf
<1>4. OnePlace
  BY <1>3, EmptyDistinct DEF OnePlace, Fetching
<1>5. Art!TypeOK
  <2>1. Len(jobs) <= MaxQueue /\ jobs \in Seq(Keys)
    BY EmptyDistinct DEF Art!ArtAssumption
  <2>2. finished \in Seq([key : Keys, ok : BOOLEAN])
    BY EmptyDistinct
  <2> QED
    BY <2>1, <2>2 DEF Art!TypeOK, Art!Pictures
<1> QED
  BY <1>2, <1>4, <1>5 DEF ArtInv, NothingYet

(* Steps that leave the pictures and the places alone.                      *)
LEMMA ArtSame ==
    ASSUME ArtInv, UNCHANGED <<disk, thumbs, bytes, jobs, wanted, busy, read, finished>>,
           quit' \in BOOLEAN
    PROVE  ArtInv'
  BY DEF ArtInv, Art!TypeOK, OnePlace, NothingYet, Paid, DoneKeys, Fetching, Art!Held

(* A repaint ages what is cached and a get() makes it young again.          *)
LEMMA CacheAges ==
    ASSUME Art!ArtAssumption, ArtInv,
           UNCHANGED <<disk, bytes, jobs, wanted, busy, read, finished, quit>>,
           thumbs' \in [Keys -> 0 .. MaxIdle \cup {Absent, Miss}],
           \A k \in Keys : thumbs'[k] \in 0 .. MaxIdle <=> thumbs[k] \in 0 .. MaxIdle,
           \A k \in Keys : thumbs[k] = Absent => thumbs'[k] = Absent
    PROVE  ArtInv'
<1>1. Art!Held(thumbs') = Art!Held(thumbs)
  BY DEF Art!Held
<1>2. Art!TypeOK' /\ Paid'
  BY <1>1 DEF ArtInv, Art!TypeOK, Paid
<1>3. OnePlace' /\ NothingYet'
  BY DEF ArtInv, Art!TypeOK, OnePlace, NothingYet, DoneKeys, Fetching
<1> QED
  BY <1>2, <1>3 DEF ArtInv

LEMMA TickKept == ASSUME Art!ArtAssumption, ArtInv, Art!Tick PROVE ArtInv'
<1>1. /\ MaxIdle \in Nat \ {0} /\ Absent \notin 0 .. MaxIdle /\ Miss \notin 0 .. MaxIdle
      /\ thumbs \in [Keys -> 0 .. MaxIdle \cup {Absent, Miss}]
  BY DEF Art!ArtAssumption, ArtInv, Art!TypeOK
<1>2. ASSUME NEW k \in Keys
      PROVE  /\ thumbs'[k] \in 0 .. MaxIdle \cup {Absent, Miss}
             /\ thumbs'[k] \in 0 .. MaxIdle <=> thumbs[k] \in 0 .. MaxIdle
             /\ thumbs[k] = Absent => thumbs'[k] = Absent
  <2>1. thumbs'[k] = IF thumbs[k] \in 0 .. MaxIdle - 1 THEN thumbs[k] + 1 ELSE thumbs[k]
    BY DEF Art!Tick
  <2>2. \A n \in 0 .. MaxIdle - 1 : n \in 0 .. MaxIdle /\ n + 1 \in 0 .. MaxIdle
    BY <1>1
  <2> QED
    BY <1>1, <2>1, <2>2
<1>3. thumbs' \in [Keys -> 0 .. MaxIdle \cup {Absent, Miss}]
  BY <1>2 DEF Art!Tick
<1> QED
  BY <1>2, <1>3, CacheAges DEF Art!Tick, Art!workVars

LEMMA TakeKept == ASSUME Art!ArtAssumption, ArtInv, Art!Take PROVE ArtInv'
<1>1. /\ busy = Absent /\ busy' = Head(jobs) /\ jobs' = Tail(jobs) /\ read' = disk[Head(jobs)]
      /\ UNCHANGED <<disk, thumbs, bytes, wanted, finished, quit>>
      /\ jobs \in Seq(Keys) /\ jobs # <<>> /\ Len(jobs) <= MaxQueue /\ Len(jobs) \in Nat
      /\ MaxQueue \in Nat
  BY DEF Art!Take, Art!mainVars, ArtInv, Art!TypeOK, Art!ArtAssumption
<1>2. /\ jobs' \in Seq(Keys) /\ Len(jobs') = Len(jobs) - 1 /\ Art!IsInjective(jobs')
      /\ Art!ToSet(jobs') = Art!ToSet(jobs) \ {busy'} /\ busy' \in Art!ToSet(jobs)
  BY <1>1, TailDistinct DEF ArtInv, OnePlace
<1>3. busy' \in Keys /\ busy' # Absent
  BY <1>1, <1>2, SeqFacts DEF Art!ArtAssumption
<1>4. Art!TypeOK'
  <2>1. Len(jobs') <= MaxQueue
    BY <1>1, <1>2
  <2>2. read' \in Art!Pictures
    BY <1>1, <1>3 DEF ArtInv, Art!TypeOK
  <2> QED
    BY <1>1, <1>2, <1>3, <2>1, <2>2 DEF ArtInv, Art!TypeOK
<1>5. DoneKeys' = DoneKeys /\ Fetching = {} /\ Fetching' = {busy'}
  BY <1>1, <1>3 DEF DoneKeys, Fetching
<1>6. OnePlace'
  BY <1>1, <1>2, <1>5 DEF ArtInv, OnePlace
<1>7. NothingYet' /\ Paid'
  BY <1>1 DEF ArtInv, NothingYet, Paid, Art!Held
<1> QED
  BY <1>4, <1>6, <1>7 DEF ArtInv

LEMMA FinishKept ==
    ASSUME Art!ArtAssumption, ArtInv, busy # Absent, NEW ok \in BOOLEAN, Art!Finish(ok),
           disk' \in [Keys -> Art!Pictures]
    PROVE  ArtInv'
<1>1. /\ finished' = Append(finished, [key |-> busy, ok |-> ok])
      /\ busy' = Absent /\ read' = "none" /\ UNCHANGED <<thumbs, bytes, jobs, wanted, quit>>
      /\ busy \in Keys
  BY DEF Art!Finish, Art!mainVars, ArtInv, Art!TypeOK
<1>2. /\ finished' \in Seq([key : Keys, ok : BOOLEAN])
      /\ Len(finished') = Len(finished) + 1
      /\ \A i \in 1 .. Len(finished) : finished'[i] = finished[i]
      /\ finished'[Len(finished) + 1] = [key |-> busy, ok |-> ok]
  BY <1>1, AppendProperties DEF ArtInv, Art!TypeOK
<1>3. Art!TypeOK'
  BY <1>1, <1>2 DEF ArtInv, Art!TypeOK, Art!Pictures
<1>4. /\ DoneKeys \in Seq(Keys) /\ DoneKeys' \in Seq(Keys)
      /\ Len(finished) \in Nat /\ DOMAIN finished = 1 .. Len(finished)
      /\ DOMAIN finished' = 1 .. Len(finished) + 1
  <2>1. finished \in Seq([key : Keys, ok : BOOLEAN]) /\ finished' \in Seq([key : Keys, ok : BOOLEAN])
    BY <1>2 DEF ArtInv, Art!TypeOK
  <2> QED
    BY <1>2, <2>1, DoneAreKeys DEF DoneKeys
<1>5. DoneKeys' = DoneKeys \o <<busy>>
  <2>1. /\ <<busy>> \in Seq(Keys) /\ Len(<<busy>>) = 1 /\ <<busy>>[1] = busy
        /\ Len(DoneKeys) = Len(finished) /\ Len(DoneKeys') = Len(finished) + 1
    BY <1>1, <1>4, SeqFacts DEF DoneKeys, KeysOf
  <2>2. /\ DoneKeys \o <<busy>> \in Seq(Keys)
        /\ Len(DoneKeys \o <<busy>>) = Len(finished) + 1
        /\ \A i \in 1 .. Len(finished) + 1 :
               (DoneKeys \o <<busy>>)[i] = IF i <= Len(finished) THEN DoneKeys[i]
                                           ELSE <<busy>>[i - Len(finished)]
    BY <1>4, <2>1, ConcatProperties
  <2>3. ASSUME NEW i \in 1 .. Len(finished) + 1
        PROVE  DoneKeys'[i] = (DoneKeys \o <<busy>>)[i]
    <3>1. CASE i <= Len(finished)
      <4>1. i \in 1 .. Len(finished)
        BY <1>4, <3>1
      <4> QED
        BY <1>2, <1>4, <2>2, <4>1 DEF DoneKeys, KeysOf
    <3>2. CASE ~(i <= Len(finished))
      <4>1. i = Len(finished) + 1 /\ i - Len(finished) = 1
        BY <1>4, <3>2
      <4> QED
        BY <1>2, <1>4, <2>1, <2>2, <4>1 DEF DoneKeys, KeysOf
    <3> QED
      BY <3>1, <3>2
  <2> QED
    BY <1>4, <2>1, <2>2, <2>3, SeqEqual
<1>6. /\ Art!IsInjective(DoneKeys') <=> Art!IsInjective(DoneKeys) /\ busy \notin Art!ToSet(DoneKeys)
      /\ Art!ToSet(DoneKeys') = Art!ToSet(DoneKeys) \cup {busy}
  <2>1. <<busy>> \in Seq(Keys) /\ Art!IsInjective(<<busy>>) /\ Art!ToSet(<<busy>>) = {busy}
    BY <1>1, OneElement
  <2>2. /\ Art!ToSet(DoneKeys \o <<busy>>) = Art!ToSet(DoneKeys) \cup Art!ToSet(<<busy>>)
        /\ Art!IsInjective(DoneKeys \o <<busy>>) <=>
               /\ Art!IsInjective(DoneKeys) /\ Art!IsInjective(<<busy>>)
               /\ Art!ToSet(DoneKeys) \cap Art!ToSet(<<busy>>) = {}
    BY ONLY <1>4, <2>1, JoinedSets
  <2>3. Art!ToSet(DoneKeys) \cap {busy} = {} <=> busy \notin Art!ToSet(DoneKeys)
    BY ONLY TRUE
  <2> QED
    BY ONLY <1>5, <2>1, <2>2, <2>3
<1>7. Fetching = {busy} /\ Fetching' = {}
  BY <1>1 DEF Fetching
<1>8. OnePlace'
  BY <1>1, <1>6, <1>7 DEF ArtInv, OnePlace
<1>9. NothingYet' /\ Paid'
  BY <1>1 DEF ArtInv, NothingYet, Paid, Art!Held
<1> QED
  BY <1>3, <1>8, <1>9 DEF ArtInv

(* A request goes to the front of the queue and may push the oldest out.    *)
LEMMA GetKept == ASSUME Art!ArtAssumption, ArtInv, NEW k \in Keys, Art!Get(k) PROVE ArtInv'
<1>1. CASE thumbs[k] # Absent
  <2>1. /\ thumbs' = [thumbs EXCEPT ![k] = IF @ = Miss THEN Miss ELSE 0]
        /\ UNCHANGED <<disk, bytes, jobs, wanted, busy, read, finished, quit>>
    BY <1>1 DEF Art!Get, Art!workVars
  <2>2. /\ Miss \notin 0 .. MaxIdle /\ Absent \notin 0 .. MaxIdle /\ 0 \in 0 .. MaxIdle
        /\ thumbs \in [Keys -> 0 .. MaxIdle \cup {Absent, Miss}]
    BY DEF Art!ArtAssumption, ArtInv, Art!TypeOK
  <2> DEFINE Ages == 0 .. MaxIdle
  <2> HIDE DEF Ages
  <2>3. /\ Miss \notin Ages /\ Absent \notin Ages /\ 0 \in Ages
        /\ thumbs \in [Keys -> Ages \cup {Absent, Miss}]
    BY <2>2 DEF Ages
  <2>4. /\ thumbs' \in [Keys -> Ages \cup {Absent, Miss}]
        /\ \A l \in Keys : thumbs'[l] \in Ages <=> thumbs[l] \in Ages
        /\ \A l \in Keys : thumbs[l] = Absent => thumbs'[l] = Absent
    BY <1>1, <2>1, <2>3
  <2> QED
    BY <2>1, <2>4, CacheAges DEF Ages
<1>2. CASE thumbs[k] = Absent
  <2> DEFINE all == <<k>> \o jobs
  <2>1. /\ k \notin wanted /\ Art!Queued(k)
        /\ UNCHANGED <<disk, thumbs, bytes, busy, read, finished, quit>>
    BY <1>2 DEF Art!Get, Art!workVars
  <2>2. /\ jobs \in Seq(Keys) /\ Len(jobs) \in Nat /\ Len(jobs) <= MaxQueue
        /\ MaxQueue \in Nat \ {0}
    BY DEF ArtInv, Art!TypeOK, Art!ArtAssumption
  <2>3. /\ all \in Seq(Keys) /\ Len(all) = 1 + Len(jobs)
        /\ Art!ToSet(all) = {k} \cup Art!ToSet(jobs) /\ Art!IsInjective(all)
    <3>1. k \notin Art!ToSet(jobs) /\ Art!IsInjective(jobs)
      BY <2>1 DEF ArtInv, OnePlace
    <3>2. /\ <<k>> \in Seq(Keys) /\ Len(<<k>>) = 1 /\ Art!IsInjective(<<k>>) /\ Art!ToSet(<<k>>) = {k}
      BY OneElement
    <3>3. /\ <<k>> \o jobs \in Seq(Keys) /\ Len(<<k>> \o jobs) = Len(<<k>>) + Len(jobs)
          /\ Art!ToSet(<<k>> \o jobs) = Art!ToSet(<<k>>) \cup Art!ToSet(jobs)
          /\ Art!IsInjective(<<k>> \o jobs) <=> /\ Art!IsInjective(<<k>>) /\ Art!IsInjective(jobs)
                                            /\ Art!ToSet(<<k>>) \cap Art!ToSet(jobs) = {}
      BY ONLY <2>2, <3>2, JoinedSets
    <3>4. {k} \cap Art!ToSet(jobs) = {}
      BY <3>1
    <3> QED
      BY ONLY <3>1, <3>2, <3>3, <3>4
  <2> HIDE DEF all
  <2>4. /\ DoneKeys' = DoneKeys /\ Fetching' = Fetching
        /\ k \notin Fetching /\ k \notin Art!ToSet(DoneKeys)
    BY <2>1 DEF DoneKeys, Fetching, ArtInv, OnePlace
  <2>5. CASE Len(all) > MaxQueue
    <3>1. jobs' = Art!Front(all) /\ wanted' = (wanted \cup {k}) \ {Art!Last(all)}
      BY <2>1, <2>5 DEF Art!Queued, all
    <3>2. /\ jobs' \in Seq(Keys) /\ Len(jobs') = Len(jobs) /\ Art!IsInjective(jobs')
          /\ Art!ToSet(jobs') = ({k} \cup Art!ToSet(jobs)) \ {Art!Last(all)}
          /\ Art!Last(all) \in {k} \cup Art!ToSet(jobs)
      <4>1. Len(all) > 0 /\ Len(all) - 1 = Len(jobs)
        BY <2>2, <2>3
      <4> QED
        BY <2>3, <3>1, <4>1, FrontDistinct
    <3>3. OnePlace'
      <4>1. Art!Last(all) \notin Fetching /\ Art!Last(all) \notin Art!ToSet(DoneKeys)
        BY <2>4, <3>2 DEF ArtInv, OnePlace
      <4> QED
        BY <2>4, <3>1, <3>2, <4>1 DEF ArtInv, OnePlace
    <3>4. Art!TypeOK'
      BY <2>1, <2>2, <3>1, <3>2 DEF ArtInv, Art!TypeOK
    <3>5. NothingYet' /\ Paid'
      BY <1>2, <2>1, <3>1 DEF ArtInv, NothingYet, Paid, Art!Held
    <3> QED
      BY <3>3, <3>4, <3>5 DEF ArtInv
  <2>6. CASE ~(Len(all) > MaxQueue)
    <3>1. jobs' = all /\ wanted' = wanted \cup {k}
      BY <2>1, <2>6 DEF Art!Queued, all
    <3>2. OnePlace'
      BY <2>3, <2>4, <3>1 DEF ArtInv, OnePlace
    <3>3. Art!TypeOK'
      <4>1. Len(jobs') <= MaxQueue
        BY <2>2, <2>3, <2>6, <3>1
      <4> QED
        BY <2>1, <2>3, <3>1, <4>1 DEF ArtInv, Art!TypeOK
    <3>4. NothingYet' /\ Paid'
      BY <1>2, <2>1, <3>1 DEF ArtInv, NothingYet, Paid, Art!Held
    <3> QED
      BY <3>2, <3>3, <3>4 DEF ArtInv
  <2> QED
    BY <2>5, <2>6
<1> QED
  BY <1>1, <1>2

(* What arrives was asked for, so its place in the cache was empty: every    *)
(* picture that arrives is one more.                                        *)
LEMMA Arrivals ==
    ASSUME Art!ArtAssumption, ArtInv,
           NEW ok, ok \subseteq Art!ToSet(DoneKeys),
           NEW arrived,
           arrived = [k \in Keys |-> IF k \in ok THEN 0
                                     ELSE IF k \in Art!ToSet(DoneKeys) THEN Miss ELSE thumbs[k]]
    PROVE  /\ arrived \in [Keys -> 0 .. MaxIdle \cup {Absent, Miss}]
           /\ Art!Held(arrived) = Art!Held(thumbs) \cup ok
           /\ IsFiniteSet(Art!Held(arrived)) /\ IsFiniteSet(ok)
           /\ Cardinality(Art!Held(arrived)) = bytes + Cardinality(ok)
           /\ bytes + Cardinality(ok) \in Nat
           /\ \A k \in wanted \ Art!ToSet(DoneKeys) : arrived[k] = Absent
<1> DEFINE Ages == 0 .. MaxIdle
<1>1. /\ 0 \in Ages /\ Absent \notin Ages /\ Miss \notin Ages
      /\ thumbs \in [Keys -> Ages \cup {Absent, Miss}] /\ IsFiniteSet(Keys)
      /\ \A shown : Art!Held(shown) = {k \in Keys : shown[k] \in Ages}
      /\ \A k \in Art!ToSet(DoneKeys) : k \in Keys /\ thumbs[k] = Absent
  <2>1. Art!ToSet(DoneKeys) \subseteq wanted /\ wanted \subseteq Keys
    BY DEF ArtInv, Art!TypeOK, OnePlace
  <2> QED
    BY <2>1, SameFinite DEF Art!ArtAssumption, ArtInv, Art!TypeOK, Art!Held, NothingYet
<1> HIDE DEF Ages
<1>2. arrived \in [Keys -> Ages \cup {Absent, Miss}]
  BY <1>1
<1>3. Art!Held(arrived) = Art!Held(thumbs) \cup ok /\ Art!Held(thumbs) \cap ok = {}
  <2>1. ASSUME NEW k \in Keys
        PROVE  /\ arrived[k] \in Ages <=> thumbs[k] \in Ages \/ k \in ok
               /\ k \in ok => thumbs[k] \notin Ages
    BY <1>1
  <2> QED
    BY <1>1, <2>1
<1>4. /\ IsFiniteSet(Art!Held(thumbs)) /\ IsFiniteSet(ok) /\ IsFiniteSet(Art!Held(arrived))
  <2>1. Art!Held(thumbs) \subseteq Keys /\ ok \subseteq Keys /\ Art!Held(arrived) \subseteq Keys
    BY <1>1
  <2> QED
    BY <1>1, <2>1, FS_Subset
<1>5. /\ Cardinality(ok) \in Nat /\ Cardinality(Art!Held(thumbs)) \in Nat
      /\ Cardinality(Art!Held(thumbs) \cup ok) =
             Cardinality(Art!Held(thumbs)) + Cardinality(ok) - Cardinality(Art!Held(thumbs) \cap ok)
  BY <1>4, FS_CardinalityType, FS_Union
<1>6. Cardinality(Art!Held(thumbs) \cap ok) = 0
  BY <1>3, FS_EmptySet
<1>7. bytes = Cardinality(Art!Held(thumbs))
  BY DEF ArtInv, Paid
<1>8. \A k \in wanted \ Art!ToSet(DoneKeys) : arrived[k] = Absent
  <2>1. \A k \in wanted : k \in Keys /\ thumbs[k] = Absent
    BY DEF ArtInv, Art!TypeOK, NothingYet
  <2> QED
    BY <2>1
<1>9. /\ Cardinality(Art!Held(arrived)) = bytes + Cardinality(ok)
      /\ bytes + Cardinality(ok) \in Nat
  <2> DEFINE h == Cardinality(Art!Held(thumbs))
             o == Cardinality(ok)
  <2>1. /\ o \in Nat /\ h \in Nat /\ bytes = h
        /\ Cardinality(Art!Held(arrived)) = h + o - 0
    BY <1>3, <1>5, <1>6, <1>7
  <2> HIDE DEF h, o
  <2>2. h + o \in Nat /\ h + o - 0 = h + o
    BY <2>1
  <2> QED
    BY <2>1, <2>2 DEF o
<1>10. arrived \in [Keys -> 0 .. MaxIdle \cup {Absent, Miss}]
  BY <1>2 DEF Ages
<1> QED
  BY <1>3, <1>4, <1>8, <1>9, <1>10

(* The drain of what is finished, and the eviction it may cause.            *)
LEMMA PumpKept == ASSUME Art!ArtAssumption, ArtInv, Art!Pump PROVE ArtInv'
<1> DEFINE ok == {d.key : d \in {e \in Art!ToSet(finished) : e.ok}}
           arrived == [k \in Keys |->
               IF k \in ok THEN 0
               ELSE IF k \in {d.key : d \in Art!ToSet(finished)} THEN Miss ELSE thumbs[k]]
           size == bytes + Cardinality(ok)
<1>1. /\ \/ \E gone \in Art!Evictions(arrived, size) :
                /\ thumbs' = [k \in Keys |-> IF k \in gone THEN Absent ELSE arrived[k]]
                /\ bytes' = size - Cardinality(gone)
         \/ thumbs' = arrived /\ bytes' = size
      /\ wanted' = wanted \ {d.key : d \in Art!ToSet(finished)}
      /\ finished' = <<>>
      /\ UNCHANGED <<disk, jobs, busy, read, quit>>
  BY SameCounts DEF Art!Pump, Art!workVars
<1>2. Art!ToSet(DoneKeys) = {d.key : d \in Art!ToSet(finished)}
  BY DoneAreKeys DEF ArtInv, Art!TypeOK, DoneKeys
<1>3. ok \subseteq Art!ToSet(DoneKeys)
  BY <1>2
<1>4. arrived = [k \in Keys |-> IF k \in ok THEN 0
                                ELSE IF k \in Art!ToSet(DoneKeys) THEN Miss ELSE thumbs[k]]
  BY <1>2
<1> HIDE DEF ok, arrived
<1>5. /\ arrived \in [Keys -> 0 .. MaxIdle \cup {Absent, Miss}]
      /\ IsFiniteSet(Art!Held(arrived))
      /\ Cardinality(Art!Held(arrived)) = size /\ size \in Nat
      /\ \A k \in wanted \ Art!ToSet(DoneKeys) : arrived[k] = Absent
  BY <1>3, <1>4, Arrivals
<1> HIDE DEF size
<1>6. OnePlace'
  <2>1. DoneKeys' = <<>> /\ Fetching' = Fetching
    BY <1>1 DEF DoneKeys, KeysOf, Fetching
  <2>2. Art!ToSet(<<>>) = {} /\ Art!IsInjective(<<>>)
    BY EmptyDistinct
  <2> QED
    BY <1>1, <1>2, <2>1, <2>2 DEF ArtInv, OnePlace
<1>7. ASSUME thumbs' \in [Keys -> 0 .. MaxIdle \cup {Absent, Miss}], bytes' \in Nat
      PROVE  Art!TypeOK'
  <2>1. finished' \in Seq([key : Keys, ok : BOOLEAN])
    BY <1>1, EmptyDistinct
  <2> QED
    BY <1>1, <1>7, <2>1 DEF ArtInv, Art!TypeOK
<1>8. CASE thumbs' = arrived /\ bytes' = size
  <2>1. NothingYet'
    BY <1>1, <1>2, <1>5, <1>8 DEF NothingYet
  <2>2. Paid'
    BY <1>5, <1>8 DEF Paid, Art!Held
  <2> QED
    BY <1>5, <1>6, <1>7, <1>8, <2>1, <2>2 DEF ArtInv
<1>9. ASSUME NEW gone \in Art!Evictions(arrived, size),
             thumbs' = [k \in Keys |-> IF k \in gone THEN Absent ELSE arrived[k]],
             bytes' = size - Cardinality(gone)
      PROVE  ArtInv'
  <2>1. gone \subseteq Art!Held(arrived)
    BY DEF Art!Evictions, Art!kSubset
  <2>2. Art!Held(thumbs') = Art!Held(arrived) \ gone
    BY <1>9 DEF Art!Held, Art!ArtAssumption
  <2>3. /\ IsFiniteSet(gone) /\ Cardinality(gone) \in Nat
        /\ Cardinality(Art!Held(arrived) \ gone) = size - Cardinality(gone)
        /\ Cardinality(Art!Held(arrived) \ gone) \in Nat
    <3>1. IsFiniteSet(gone) /\ IsFiniteSet(Art!Held(arrived) \ gone)
      BY <1>5, <2>1, FS_Subset
    <3>2. /\ Cardinality(Art!Held(arrived) \ gone) =
                 Cardinality(Art!Held(arrived)) - Cardinality(Art!Held(arrived) \cap gone)
      BY <1>5, FS_Difference
    <3>3. Art!Held(arrived) \cap gone = gone
      BY <2>1
    <3> QED
      BY <1>5, <3>1, <3>2, <3>3, FS_CardinalityType
  <2>4. NothingYet'
    <3>1. \A k \in wanted' : k \in Keys /\ arrived[k] = Absent
      BY <1>1, <1>2, <1>5 DEF ArtInv, Art!TypeOK
    <3> QED
      BY <1>9, <3>1 DEF NothingYet
  <2>5. thumbs' \in [Keys -> 0 .. MaxIdle \cup {Absent, Miss}] /\ bytes' \in Nat
    BY <1>5, <1>9, <2>3
  <2>6. Paid'
    BY <1>9, <2>2, <2>3 DEF Paid
  <2> QED
    BY <1>6, <1>7, <2>4, <2>5, <2>6 DEF ArtInv
<1> QED
  BY <1>1, <1>8, <1>9

LEMMA ArtNext == ASSUME Art!ArtAssumption, ArtInv, [Art!Next]_Art!vars PROVE ArtInv'
<1>1. CASE UNCHANGED Art!vars
  BY <1>1, ArtSame DEF Art!vars, Art!mainVars, Art!workVars, ArtInv, Art!TypeOK
<1>2. CASE Art!Quit
  BY <1>2, ArtSame DEF Art!Quit, Art!mainVars, Art!workVars
<1>3. CASE Art!Relaunch
  BY <1>3, EmptyCache DEF Art!Relaunch, ArtInv, Art!TypeOK
<1>4. ASSUME busy # Absent, NEW ok \in BOOLEAN, Art!Finish(ok), NEW kept \in Art!Pictures,
             disk' = disk \/ disk' = [disk EXCEPT ![busy] = kept]
      PROVE  ArtInv'
  <2>1. disk' \in [Keys -> Art!Pictures]
    BY <1>4 DEF ArtInv, Art!TypeOK
  <2> QED
    BY <1>4, <2>1, FinishKept
<1>5. CASE Art!FromDisk \/ Art!Undecodable \/ Art!Download
  BY <1>4, <1>5 DEF Art!FromDisk, Art!Undecodable, Art!Download, Art!Pictures
<1> QED
  BY <1>1, <1>2, <1>3, <1>5, TickKept, GetKept, PumpKept, TakeKept DEF Art!Next

(* For every set of pictures and size of queue and budget: a picture asked   *)
(* for is in one place, is not in the cache yet, and bytes_ is what the      *)
(* cache holds (Thumbs::get(), pump(), evict() against its worker).          *)
THEOREM PicturesAccounted ==
    ASSUME Art!ArtAssumption
    PROVE  Art!Spec => [](Art!TypeOK /\ Art!ArtAccounted)
<1>1. ArtInv => Art!TypeOK /\ Art!ArtAccounted
  BY ArtIsEnough DEF ArtInv
<1>2. Art!Init => ArtInv
  BY ArtInit
<1>3. ArtInv /\ [Art!Next]_Art!vars => ArtInv'
  BY ArtNext
<1> QED
  BY <1>1, <1>2, <1>3, PTL DEF Art!Spec

-----------------------------------------------------------------------------
(* The options.                                                             *)

LEMMA SmallerOfTwo ==
    ASSUME NEW a \in Int, NEW b \in Int
    PROVE  Menu!Min({a, b}) = IF a <= b THEN a ELSE b
<1>1. \A x \in {a, b} : (\A y \in {a, b} : x =< y) <=> x = IF a <= b THEN a ELSE b
  OBVIOUS
<1> QED
  BY <1>1 DEF Menu!Min

(* Every row of the table has a choice.                                     *)
LEMMA ChoicesAreIndices ==
    ASSUME Menu!OptionsAssumption, NEW o \in KeptRows
    PROVE  \E n \in Nat \ {0} : /\ n <= MaxChoices /\ Menu!ChoicesOf(o) = 0 .. n - 1
                                 /\ Cardinality(Menu!ChoicesOf(o)) = n
<1> DEFINE i == CHOOSE i \in DOMAIN Menu!Table : Menu!Table[i].id = o
           n == IF Menu!Of(o).n <= MaxChoices THEN Menu!Of(o).n ELSE MaxChoices
<1>1. i \in DOMAIN Menu!Table
  BY DEF Menu!OptionsAssumption
<1>2. \A j \in DOMAIN Menu!Table : Menu!Table[j].n \in Nat \ {0}
  BY DEF Menu!Table, Menu!Entry
<1>3. Menu!Of(o).n \in Nat \ {0} /\ MaxChoices \in Nat \ {0}
  BY <1>1, <1>2 DEF Menu!Of, Menu!OptionsAssumption
<1>4. Menu!Min({Menu!Of(o).n, MaxChoices}) = n /\ n \in Nat \ {0} /\ n <= MaxChoices
  BY <1>3, SmallerOfTwo
<1> HIDE DEF n
<1>5. Menu!ChoicesOf(o) = 0 .. n - 1
  BY <1>4 DEF Menu!ChoicesOf
<1>6. Cardinality(0 .. n - 1) = n
  BY <1>4, FS_Interval
<1> QED
  BY <1>4, <1>5, <1>6

(* The settings are numbers wherever they are kept, so that no body of a    *)
(* save looks torn.                                                         *)
Settings == [KeptRows -> Int]

MenuNumbers == val \in Settings /\ edit \in Settings

LEMMA DefaultsAreNumbers == ASSUME Menu!OptionsAssumption PROVE Menu!Defaults \in Settings
<1>1. ASSUME NEW o \in KeptRows PROVE Menu!Of(o).def \in Int
  <2>1. Menu!Of(o).def \in Menu!ChoicesOf(o)
    BY DEF Menu!OptionsAssumption
  <2> QED
    BY <2>1, ChoicesAreIndices
<1> QED
  BY <1>1 DEF Menu!Defaults, Settings

LEMMA CycledIsNumber ==
    ASSUME Menu!OptionsAssumption, edit \in Settings, NEW o, NEW d \in {-1, 1}
    PROVE  [edit EXCEPT ![o] = Menu!Turned(o, d)] \in Settings
<1>1. CASE o \in KeptRows
  <2>1. PICK n \in Nat \ {0} : Cardinality(Menu!ChoicesOf(o)) = n
    BY <1>1, ChoicesAreIndices
  <2>2. edit[o] \in Int
    BY <1>1 DEF Settings
  <2>3. Menu!Turned(o, d) = (edit[o] + d + n) % n
    BY <2>1, SameCounts DEF Menu!Turned
  <2>4. Menu!Turned(o, d) \in Int
    BY <2>2, <2>3
  <2> QED
    BY <2>4 DEF Settings
<1>2. CASE o \notin KeptRows
  BY <1>2 DEF Settings
<1> QED
  BY <1>1, <1>2

LEMMA NumbersNext ==
    ASSUME Menu!OptionsAssumption, MenuNumbers, [Menu!Next]_Menu!vars
    PROVE  MenuNumbers'
<1> USE DEF MenuNumbers
<1>1. CASE Menu!Launch
  <2>1. MaxChoices \in Int
    BY DEF Menu!OptionsAssumption
  <2>2. val' \in Settings
    BY <1>1, <2>1 DEF Menu!Launch, Settings
  <2> QED
    BY <1>1, <2>2 DEF Menu!Launch
<1>2. CASE Menu!Exit
  BY <1>2, DefaultsAreNumbers DEF Menu!Exit
<1>3. ASSUME NEW o, Menu!Cycle(o) PROVE MenuNumbers'
  BY <1>3, CycledIsNumber DEF Menu!Cycle
<1>4. CASE Menu!Commit
  BY <1>4 DEF Menu!Commit
<1>5. CASE Menu!Page
  BY <1>3, <1>4, <1>5, DefaultsAreNumbers
  DEF Menu!Page, Menu!PageExplained, Menu!PageMove, Menu!PageCycle, Menu!PageSave, Menu!PageReset
<1>6. CASE Menu!Overlay
  BY <1>3, <1>4, <1>6
  DEF Menu!Overlay, Menu!OverlayOpen, Menu!OverlayClose, Menu!OverlayMove, Menu!OverlayCycle,
     Menu!OverlayApply, Menu!OverlaySave
<1>7. CASE Menu!SaveStep \/ Menu!PageEnter \/ Menu!PageLeave \/ Menu!StreamSwitch \/ UNCHANGED Menu!vars
  BY <1>7 DEF Menu!SaveStep, Menu!PageEnter, Menu!PageLeave, Menu!StreamSwitch, Menu!vars
<1> QED
  BY <1>1, <1>2, <1>5, <1>6, <1>7 DEF Menu!Next

(* A temporary file that was closed is whole, or its body was lost.         *)
FileInv == Menu!FileIsWhole /\ (saver = "closed" /\ tmp = Torn => lost)

LEMMA FileNext ==
    ASSUME Menu!OptionsAssumption, MenuNumbers, FileInv, [Menu!Next]_Menu!vars
    PROVE  FileInv'
<1> USE DEF FileInv, Menu!FileIsWhole
<1>1. val # Torn
  BY DEF MenuNumbers, Settings, Menu!OptionsAssumption
<1>2. CASE Menu!SaveStep
  BY <1>1, <1>2 DEF Menu!SaveStep, Menu!SaveClosed, Menu!SaveRenamed
<1>3. CASE Menu!Commit /\ (Menu!Save \/ Menu!SaveNotOpened)
  BY <1>3 DEF Menu!Commit, Menu!Save, Menu!SaveNotOpened
<1>4. UNCHANGED <<Menu!store, saver>> => FileInv'
  BY DEF Menu!store
<1>5. CASE Menu!Exit
  BY <1>5 DEF Menu!Exit, Menu!store
<1>6. CASE Menu!Page
  BY <1>3, <1>4, <1>6 DEF Menu!Page, Menu!PageExplained, Menu!PageMove, Menu!PageCycle,
     Menu!PageSave, Menu!PageReset, Menu!Cycle
<1>7. CASE Menu!Overlay
  BY <1>3, <1>4, <1>7 DEF Menu!Overlay, Menu!OverlayOpen, Menu!OverlayClose, Menu!OverlayMove,
     Menu!OverlayCycle,
     Menu!OverlayApply, Menu!OverlaySave, Menu!Cycle, Menu!Commit, Menu!store
<1>8. CASE Menu!Launch \/ Menu!PageEnter \/ Menu!PageLeave \/ Menu!StreamSwitch \/ UNCHANGED Menu!vars
  BY <1>4, <1>8 DEF Menu!Launch, Menu!PageEnter, Menu!PageLeave, Menu!StreamSwitch, Menu!vars
<1> QED
  BY <1>2, <1>5, <1>6, <1>7, <1>8 DEF Menu!Next

(* What a launch reads back is what is in force, or it says so.             *)
LEMMA LaunchShows ==
    ASSUME Menu!OptionsAssumption, Menu!Launch
    PROVE  Menu!MenuShowsForceOrRewritten'
<1> SUFFICES ASSUME NEW o \in KeptRows, o \notin rewritten' PROVE field'[o] = val'[o]
  BY DEF Menu!MenuShowsForceOrRewritten
<1>1. /\ field'[o] \in {Menu!Loaded[o]} \cup Menu!Flagged(o) /\ val'[o] \in Menu!ReadBack(o, field'[o])
      /\ field'[o] # Unlisted /\ o # "pan"
  BY DEF Menu!Launch
<1>2. Menu!Loaded[o] \in Menu!ChoicesOf(o)
  BY DEF Menu!Loaded, Menu!OptionsAssumption
<1>3. CASE field'[o] \in Menu!ChoicesOf(o)
  BY <1>1, <1>3 DEF Menu!ReadBack
<1>4. CASE field'[o] \notin Menu!ChoicesOf(o)
  <2>1. o \in {"wifi", "rt"} /\ field'[o] = 0
    BY <1>1, <1>2, <1>4 DEF Menu!Flagged
  <2> QED
    BY <1>1, <1>4, <2>1 DEF Menu!ReadBack
<1> QED
  BY <1>3, <1>4

LEMMA ShowsNext ==
    ASSUME Menu!OptionsAssumption, Menu!MenuShowsForceOrRewritten, [Menu!Next]_Menu!vars
    PROVE  Menu!MenuShowsForceOrRewritten'
<1>1. UNCHANGED <<field, val, rewritten>> => Menu!MenuShowsForceOrRewritten'
  BY DEF Menu!MenuShowsForceOrRewritten
<1>2. CASE Menu!Exit
  BY <1>2 DEF Menu!Exit, Menu!MenuShowsForceOrRewritten
<1>3. Menu!Commit => Menu!MenuShowsForceOrRewritten'
  BY DEF Menu!Commit, Menu!MenuShowsForceOrRewritten
<1>4. CASE Menu!Page
  BY <1>1, <1>3, <1>4 DEF Menu!Page, Menu!PageExplained, Menu!PageMove, Menu!PageCycle,
     Menu!PageSave, Menu!PageReset, Menu!Cycle
<1>5. CASE Menu!Overlay
  BY <1>1, <1>3, <1>5 DEF Menu!Overlay, Menu!OverlayOpen, Menu!OverlayClose, Menu!OverlayMove,
     Menu!OverlayCycle,
     Menu!OverlayApply, Menu!OverlaySave, Menu!Cycle
<1>6. CASE Menu!SaveStep \/ Menu!PageEnter \/ Menu!PageLeave \/ Menu!StreamSwitch \/ UNCHANGED Menu!vars
  BY <1>1, <1>6 DEF Menu!SaveStep, Menu!PageEnter, Menu!PageLeave, Menu!StreamSwitch, Menu!vars
<1> QED
  BY <1>2, <1>4, <1>5, <1>6, LaunchShows DEF Menu!Next

(* While a menu is being worked with nothing is abandoned: the page and a   *)
(* freshly opened overlay start from the values in force.                   *)
NoneAbandoned ==
    /\ menu \in {"off", "page"} => abandoned = {}
    /\ menu = "stream" /\ open /\ ~carried => abandoned = {}

LEMMA AbandonedNext == ASSUME NoneAbandoned, [Menu!Next]_Menu!vars PROVE NoneAbandoned'
<1> USE DEF NoneAbandoned
<1>1. ASSUME NEW o, Menu!Cycle(o), UNCHANGED menu PROVE NoneAbandoned'
  BY <1>1 DEF Menu!Cycle, Menu!menu
<1>2. ASSUME Menu!Commit PROVE NoneAbandoned'
  BY <1>2 DEF Menu!Commit
<1>3. CASE Menu!Page
  <2>1. CASE Menu!PageExplained \/ Menu!PageMove \/ Menu!PageReset
    BY <1>3, <2>1 DEF Menu!Page, Menu!PageExplained, Menu!PageMove, Menu!PageReset, Menu!menu
  <2> QED
    BY <1>1, <1>2, <1>3, <2>1 DEF Menu!Page, Menu!PageCycle, Menu!PageSave
<1>4. CASE Menu!Overlay
  <2>1. CASE Menu!OverlayOpen \/ Menu!OverlayClose \/ Menu!OverlayMove
    BY <1>4, <2>1 DEF Menu!Overlay, Menu!OverlayOpen, Menu!OverlayClose, Menu!OverlayMove
  <2> QED
    BY <1>1, <1>2, <1>4, <2>1 DEF Menu!Overlay, Menu!OverlayCycle, Menu!OverlayApply,
       Menu!OverlaySave
<1>5. CASE Menu!Launch \/ Menu!Exit \/ Menu!SaveStep \/ Menu!PageEnter \/ Menu!PageLeave \/ UNCHANGED Menu!vars
  BY <1>5 DEF Menu!Launch, Menu!Exit, Menu!SaveStep, Menu!PageEnter, Menu!PageLeave, Menu!menu,
     Menu!vars
<1>6. CASE Menu!StreamSwitch
  BY <1>6 DEF Menu!StreamSwitch, Menu!StreamStarts, Menu!StreamEnds, Menu!menu
<1> QED
  BY <1>3, <1>4, <1>5, <1>6 DEF Menu!Next

LEMMA DiscardStep ==
    ASSUME NoneAbandoned, [Menu!Next]_Menu!vars, NEW o \in abandoned, val'[o] # val[o]
    PROVE  carried \/ menu' = "off"
<1>1. menu \notin {"off", "page"} /\ (menu = "stream" /\ open => carried)
  BY DEF NoneAbandoned
<1>2. CASE Menu!Exit
  BY <1>2 DEF Menu!Exit
<1>3. CASE Menu!Overlay
  BY <1>1, <1>3 DEF Menu!Overlay, Menu!OverlayOpen, Menu!OverlayClose, Menu!OverlayMove,
     Menu!OverlayCycle,
     Menu!OverlayApply, Menu!OverlaySave, Menu!Cycle
<1> QED
  BY <1>1, <1>2, <1>3 DEF Menu!Next, Menu!Launch, Menu!SaveStep, Menu!PageEnter, Menu!PageLeave,
     Menu!Page, Menu!StreamSwitch, Menu!vars

MenuInv == MenuNumbers /\ FileInv /\ Menu!MenuShowsForceOrRewritten /\ NoneAbandoned

LEMMA MenuInit == ASSUME Menu!OptionsAssumption, Menu!Init PROVE MenuInv
<1>1. MenuNumbers
  BY DefaultsAreNumbers DEF Menu!Init, MenuNumbers
<1>2. FileInv
  <2>1. Menu!Whole \subseteq Settings
    <3>1. \A n \in -1 .. MaxChoices - 1 : n \in Int
      BY DEF Menu!OptionsAssumption
    <3> QED
      BY <3>1 DEF Menu!Whole, Settings
  <2>2. options \in {None} \cup Settings
    BY <2>1 DEF Menu!Init
  <2> QED
    BY <2>2 DEF FileInv, Menu!FileIsWhole, Menu!Init, Settings, Menu!OptionsAssumption
<1>3. Menu!MenuShowsForceOrRewritten
  BY DEF Menu!Init, Menu!MenuShowsForceOrRewritten
<1>4. NoneAbandoned
  BY DEF Menu!Init, NoneAbandoned
<1> QED
  BY <1>1, <1>2, <1>3, <1>4 DEF MenuInv

LEMMA MenuNext == ASSUME Menu!OptionsAssumption, MenuInv, [Menu!Next]_Menu!vars PROVE MenuInv'
  BY NumbersNext, FileNext, ShowsNext, AbandonedNext DEF MenuInv

LEMMA MenuInvHolds == ASSUME Menu!OptionsAssumption PROVE Menu!Spec => []MenuInv
<1>1. Menu!Init => MenuInv
  BY MenuInit
<1>2. MenuInv /\ [Menu!Next]_Menu!vars => MenuInv'
  BY MenuNext
<1> QED
  BY <1>1, <1>2, PTL DEF Menu!Spec

(* For every table of settings and every point at which the client is        *)
(* killed: the next launch reads a whole file, unless a full disk took the   *)
(* body at a close nobody checks (options_save()).                           *)
THEOREM OptionsFileIsWhole ==
    ASSUME Menu!OptionsAssumption PROVE Menu!Spec => []Menu!FileIsWhole
<1>1. MenuInv => Menu!FileIsWhole
  BY DEF MenuInv, FileInv
<1> QED
  BY <1>1, MenuInvHolds, PTL

(* For every table of settings: what is in force is what the menu says, but  *)
(* for the fields a launch could not read back (options_capture()).          *)
THEOREM MenuShowsForce ==
    ASSUME Menu!OptionsAssumption PROVE Menu!Spec => []Menu!MenuShowsForceOrRewritten
<1>1. MenuInv => Menu!MenuShowsForceOrRewritten
  BY DEF MenuInv
<1> QED
  BY <1>1, MenuInvHolds, PTL

(* For every table of settings: no commit changes a value staged by a menu   *)
(* that was left since, but through an overlay carried over from an earlier  *)
(* stream (options_menu_input(), options_page_enter()).                      *)
THEOREM LeftMenuStaysDiscarded ==
    ASSUME Menu!OptionsAssumption PROVE Menu!Spec => Menu!DiscardedStaysDiscarded
<1>1. MenuInv /\ [Menu!Next]_Menu!vars =>
          [\A o \in abandoned : val'[o] # val[o] => carried \/ menu' = "off"]_Menu!vars
  BY DiscardStep DEF MenuInv
<1> QED
  BY <1>1, MenuInvHolds, PTL DEF Menu!Spec, Menu!DiscardedStaysDiscarded

-----------------------------------------------------------------------------
(* Scripted presses.                                                        *)

ScriptTypes ==
    /\ pos \in 0 .. Len(Script) /\ ended \in BOOLEAN
    /\ waitLeft \in Nat /\ holdLeft \in Nat /\ late \in 0 .. Lateness
    /\ pressing \in BOOLEAN /\ repeating \in BOOLEAN
    /\ repeatLeft \in Nat /\ heldFor \in Nat
    /\ away \in Nat /\ ticks \in Nat /\ sinceTick \in 0 .. RepeatEvery

(* The wait after a press outlasts its hold by the gap, so that no step runs *)
(* while the button is held, nor finds it down unless the loop was away for  *)
(* the gap.                                                                 *)
HoldThenGap ==
    /\ pressing /\ holdLeft > 0 => waitLeft = holdLeft + Gap
    /\ pressing /\ holdLeft = 0 => waitLeft >= Gap - late
    /\ repeating <=> pressing

(* A tap has ticked once, and the repeat that would be its second tick is no *)
(* nearer than its release.                                                 *)
TappedOnce ==
    Taps!Tapped(pos) /\ away < Gap =>
        /\ ticks = 1
        /\ pressing /\ holdLeft > 0 => repeatLeft = RepeatDelay - Script[pos].ms + holdLeft

(* The time to the next repeat and the time since the last tick make up an  *)
(* interval.                                                                *)
RepeatSpaced ==
    repeating => /\ repeatLeft + sinceTick >= RepeatFast
                 /\ heldFor <= RepeatAccel => repeatLeft + sinceTick >= RepeatEvery

TapInv == ScriptTypes /\ HoldThenGap /\ TappedOnce /\ RepeatSpaced

LEMMA ScriptIs ==
    ASSUME Taps!ScriptAssumption
    PROVE  /\ Len(Script) \in Nat
           /\ \A n \in 1 .. Len(Script) : /\ Script[n].kind \in {"press", "wait", "quit"}
                                          /\ Script[n].ms \in Nat /\ Script[n].ms > 0
           /\ Lateness \in Nat /\ Gap \in Nat
           /\ RepeatDelay \in Nat /\ RepeatEvery \in Nat /\ RepeatFast \in Nat
           /\ RepeatAccel \in Nat /\ RepeatFast > 0 /\ RepeatEvery > 0 /\ RepeatDelay > 0
           /\ RepeatFast <= RepeatEvery /\ RepeatEvery <= RepeatDelay
<1> DEFINE Kinds == [kind : {"press", "wait", "quit"}, ms : Nat \ {0}]
<1>1. \A x \in Kinds : x.kind \in {"press", "wait", "quit"} /\ x.ms \in Nat /\ x.ms > 0
  OBVIOUS
<1>2. Script \in Seq(Kinds)
  BY DEF Taps!ScriptAssumption
<1>3. Len(Script) \in Nat /\ \A n \in 1 .. Len(Script) : Script[n] \in Kinds
  <2> HIDE DEF Kinds
  <2> QED
    BY <1>2
<1>4. \A n \in 1 .. Len(Script) : /\ Script[n].kind \in {"press", "wait", "quit"}
                                   /\ Script[n].ms \in Nat /\ Script[n].ms > 0
  <2> HIDE DEF Kinds
  <2> QED
    BY <1>1, <1>3
<1> HIDE DEF Kinds
<1> QED
  BY <1>3, <1>4 DEF Taps!ScriptAssumption

LEMMA TapInit == ASSUME Taps!ScriptAssumption, Taps!Init PROVE TapInv
<1>1. ScriptTypes
  <2>1. Len(Script) \in Nat /\ Lateness \in Nat /\ RepeatEvery \in Nat
    BY ScriptIs
  <2>2. 0 \in 0 .. Len(Script) /\ 0 \in 0 .. Lateness /\ RepeatEvery \in 0 .. RepeatEvery
    BY <2>1
  <2> QED
    BY <2>2 DEF Taps!Init, ScriptTypes
<1>2. HoldThenGap /\ RepeatSpaced
  BY DEF Taps!Init, HoldThenGap, RepeatSpaced
<1>3. TappedOnce
  BY DEF Taps!Init, TappedOnce, Taps!Tapped
<1> QED
  BY <1>1, <1>2, <1>3 DEF TapInv

LEMMA LessIs ==
    ASSUME NEW t \in Nat
    PROVE  Taps!Less(t) \in Nat /\ (t > 0 => Taps!Less(t) = t - 1) /\ (t = 0 => Taps!Less(t) = 0)
  BY DEF Taps!Less

LEMMA TimePasses == ASSUME Taps!ScriptAssumption, TapInv, Taps!Tick PROVE TapInv'
<1>1. /\ waitLeft \in Nat /\ holdLeft \in Nat /\ repeatLeft \in Nat /\ heldFor \in Nat
      /\ late \in Nat /\ late <= Lateness /\ sinceTick \in Nat /\ sinceTick <= RepeatEvery
  BY ScriptIs DEF TapInv, ScriptTypes
<1>2. /\ waitLeft' = Taps!Less(waitLeft) /\ holdLeft' = Taps!Less(holdLeft)
      /\ repeatLeft' = Taps!Less(repeatLeft)
      /\ late' = IF Taps!Due THEN late + 1 ELSE 0
      /\ Taps!Due => late < Lateness
      /\ ~ended /\ UNCHANGED <<pos, ended, pressing, repeating, away, ticks>>
      /\ heldFor' = IF repeating /\ heldFor <= RepeatAccel THEN heldFor + 1 ELSE heldFor
      /\ sinceTick' = IF sinceTick < RepeatEvery THEN sinceTick + 1 ELSE sinceTick
  BY DEF Taps!Tick
<1>3. ScriptTypes'
  <2>1. waitLeft' \in Nat /\ holdLeft' \in Nat /\ repeatLeft' \in Nat
    BY <1>1, <1>2, LessIs
  <2>2. late' \in 0 .. Lateness
    BY <1>1, <1>2, ScriptIs
  <2>3. heldFor' \in Nat /\ sinceTick' \in 0 .. RepeatEvery
    BY <1>1, <1>2, ScriptIs
  <2> QED
    BY <1>2, <2>1, <2>2, <2>3 DEF TapInv, ScriptTypes
<1>4. Gap \in Nat /\ RepeatDelay \in Nat
  BY ScriptIs
<1>5. HoldThenGap'
  <2>1. repeating' <=> pressing'
    BY <1>2 DEF TapInv, HoldThenGap
  <2>2. CASE pressing /\ holdLeft > 0
    <3>1. waitLeft = holdLeft + Gap
      BY <2>2 DEF TapInv, HoldThenGap
    <3>2. waitLeft' = waitLeft - 1 /\ holdLeft' = holdLeft - 1 /\ late' >= 0
      BY <1>1, <1>2, <1>4, <2>2, <3>1, LessIs
    <3>3. late' \in Nat
      BY <1>3, ScriptIs DEF ScriptTypes
    <3>4. holdLeft' > 0 => waitLeft' = holdLeft' + Gap
      BY ONLY <1>1, <1>4, <3>1, <3>2
    <3>5. holdLeft' = 0 => waitLeft' >= Gap - late'
      <4>1. waitLeft \in Nat /\ holdLeft \in Nat /\ Gap \in Nat
        BY <1>1, <1>4
      <4>2. holdLeft' = 0 => waitLeft' = Gap
        BY ONLY <3>1, <3>2, <4>1
      <4>3. Gap >= Gap - late'
        <5> DEFINE l == late'
        <5>1. l \in Nat
          BY <3>3
        <5> HIDE DEF l
        <5>2. Gap >= Gap - l
          BY <4>1, <5>1
        <5> QED
          BY <5>2 DEF l
      <4> QED
        BY ONLY <4>2, <4>3
    <3> QED
      BY <2>1, <3>4, <3>5 DEF HoldThenGap
  <2>3. CASE pressing /\ holdLeft = 0
    <3>1. waitLeft >= Gap - late /\ Taps!Due
      BY <1>2, <2>3 DEF TapInv, HoldThenGap, Taps!Due
    <3>2. holdLeft' = 0 /\ late' = late + 1 /\ waitLeft' >= waitLeft - 1 /\ waitLeft' \in Nat
      BY <1>1, <1>2, <2>3, <3>1, LessIs
    <3>3. waitLeft' >= Gap - late'
      BY ONLY <1>1, <1>4, <3>1, <3>2
    <3> QED
      BY <2>1, <3>2, <3>3 DEF HoldThenGap
  <2>4. CASE ~pressing
    BY <1>2, <2>1, <2>4 DEF HoldThenGap
  <2> QED
    BY <1>1, <2>2, <2>3, <2>4
<1>6. TappedOnce'
  <2> SUFFICES ASSUME Taps!Tapped(pos), away < Gap
               PROVE  /\ ticks = 1
                      /\ pressing /\ holdLeft' > 0 =>
                           repeatLeft' = RepeatDelay - Script[pos].ms + holdLeft'
    BY <1>2 DEF TappedOnce, Taps!Tapped
  <2>1. /\ ticks = 1
        /\ pressing /\ holdLeft > 0 => repeatLeft = RepeatDelay - Script[pos].ms + holdLeft
    BY DEF TapInv, TappedOnce
  <2>2. ASSUME pressing, holdLeft' > 0
        PROVE  repeatLeft' = RepeatDelay - Script[pos].ms + holdLeft'
    <3> DEFINE ms == Script[pos].ms
    <3>1. ms \in Nat /\ ms <= RepeatDelay
      <4>1. pos \in 1 .. Len(Script)
        BY ScriptIs DEF Taps!Tapped, TapInv, ScriptTypes
      <4> QED
        BY <4>1, ScriptIs DEF Taps!Tapped
    <3>2. holdLeft > 0 /\ holdLeft' = holdLeft - 1
      BY <1>1, <1>2, <2>2, LessIs
    <3>3. repeatLeft = RepeatDelay - ms + holdLeft
      BY <2>1, <2>2, <3>2
    <3> HIDE DEF ms
    <3>4. repeatLeft > 0
      BY ONLY <1>1, <1>4, <3>1, <3>2, <3>3
    <3>5. repeatLeft' = repeatLeft - 1
      BY <1>1, <1>2, <3>4, LessIs
    <3>6. repeatLeft' = RepeatDelay - ms + holdLeft'
      BY ONLY <1>1, <1>4, <3>1, <3>2, <3>3, <3>5
    <3> QED
      BY <3>6 DEF ms
  <2> QED
    BY <2>1, <2>2
<1>7. RepeatSpaced'
  <2> SUFFICES ASSUME repeating
               PROVE  /\ repeatLeft' + sinceTick' >= RepeatFast
                      /\ heldFor' <= RepeatAccel => repeatLeft' + sinceTick' >= RepeatEvery
    BY <1>2 DEF RepeatSpaced
  <2>1. /\ repeatLeft + sinceTick >= RepeatFast
        /\ heldFor <= RepeatAccel => repeatLeft + sinceTick >= RepeatEvery
    BY DEF TapInv, RepeatSpaced
  <2>2. sinceTick' = RepeatEvery \/ (sinceTick' = sinceTick + 1)
    <3>1. CASE sinceTick < RepeatEvery
      BY <1>2, <3>1
    <3>2. CASE ~(sinceTick < RepeatEvery)
      <4>1. sinceTick = RepeatEvery
        BY <1>1, <3>2, ScriptIs
      <4> QED
        BY <1>2, <3>2, <4>1
    <3> QED
      BY <3>1, <3>2
  <2>3. repeatLeft' \in Nat /\ repeatLeft' >= repeatLeft - 1
    BY <1>1, <1>2, LessIs
  <2>4. heldFor' <= RepeatAccel => heldFor <= RepeatAccel
    <3>1. CASE heldFor <= RepeatAccel
      BY <3>1
    <3>2. CASE ~(heldFor <= RepeatAccel)
      BY <1>2, <3>2
    <3> QED
      BY <3>1, <3>2
  <2>5. RepeatEvery \in Nat /\ RepeatFast \in Nat /\ RepeatFast <= RepeatEvery
    BY ScriptIs
  <2> QED
    BY ONLY <1>1, <2>1, <2>2, <2>3, <2>4, <2>5
<1> QED
  BY <1>3, <1>5, <1>6, <1>7 DEF TapInv

(* A repeat sets the next one an interval off, and a turn that does not      *)
(* repeat leaves it where it is.                                            *)
LEMMA RepeatsApart ==
    ASSUME Taps!ScriptAssumption, TapInv, Taps!RepeatWaits \/ Taps!RepeatTicks
    PROVE  RepeatSpaced'
<1>1. CASE Taps!RepeatWaits
  BY <1>1 DEF Taps!RepeatWaits, RepeatSpaced, TapInv
<1>2. CASE Taps!RepeatTicks
  <2>1. repeatLeft' = Taps!RepeatInterval /\ sinceTick' = 0 /\ heldFor' = heldFor
    BY <1>2 DEF Taps!RepeatTicks
  <2>2. /\ Taps!RepeatInterval \in Nat /\ Taps!RepeatInterval >= RepeatFast
        /\ heldFor <= RepeatAccel => Taps!RepeatInterval = RepeatEvery
    <3>1. /\ RepeatFast \in Nat /\ RepeatEvery \in Nat /\ RepeatFast <= RepeatEvery
          /\ RepeatAccel \in Nat /\ heldFor \in Nat
      BY ScriptIs DEF TapInv, ScriptTypes
    <3>2. /\ heldFor > RepeatAccel => Taps!RepeatInterval = RepeatFast
          /\ ~(heldFor > RepeatAccel) => Taps!RepeatInterval = RepeatEvery
      BY DEF Taps!RepeatInterval
    <3> QED
      BY ONLY <3>1, <3>2
  <2> QED
    BY <2>1, <2>2, ScriptIs DEF RepeatSpaced
<1> QED
  BY <1>1, <1>2

(* While the button is held no step runs, and the turn repeats or waits.    *)
LEMMA HeldTurn ==
    ASSUME Taps!ScriptAssumption, TapInv, Taps!Turn, pressing, holdLeft > 0
    PROVE  TapInv'
<1>1. /\ waitLeft \in Nat /\ holdLeft \in Nat /\ repeatLeft \in Nat /\ heldFor \in Nat
      /\ away \in Nat /\ ticks \in Nat /\ sinceTick \in 0 .. RepeatEvery
      /\ pos \in 0 .. Len(Script) /\ ended \in BOOLEAN
  BY ScriptIs DEF TapInv, ScriptTypes
<1>2. waitLeft > 0 /\ Taps!Step = "none" /\ repeating
  <2>1. waitLeft = holdLeft + Gap /\ repeating
    BY DEF TapInv, HoldThenGap
  <2>2. waitLeft > 0
    BY <1>1, <2>1, ScriptIs
  <2> QED
    BY <2>1, <2>2 DEF Taps!Step
<1>3. /\ pos' = pos /\ (ended' <=> ended) /\ pressing' /\ waitLeft' = waitLeft
      /\ holdLeft' = holdLeft /\ late' = 0 /\ away' = away
  BY <1>2 DEF Taps!Turn, Taps!ScriptStep, Taps!StillHeld
<1>4. ended' \in BOOLEAN /\ pressing' \in BOOLEAN
  BY DEF Taps!Turn, Taps!ScriptStep, Taps!StillHeld
<1>5. \/ Taps!RepeatWaits /\ ticks' = ticks
      \/ Taps!RepeatTicks /\ ticks' = ticks + 1
  BY <1>2, <1>3 DEF Taps!Turn, Taps!PressTicks, Taps!NotHeld
<1>6. HoldThenGap' /\ ScriptTypes'
  <2>1. (repeating' <=> pressing') /\ repeating' \in BOOLEAN
    BY <1>2, <1>3, <1>5 DEF Taps!RepeatWaits, Taps!RepeatTicks, TapInv, ScriptTypes
  <2>2. waitLeft' = holdLeft' + Gap
    BY <1>3 DEF TapInv, HoldThenGap
  <2>3. /\ repeatLeft' \in Nat /\ heldFor' \in Nat /\ ticks' \in Nat
        /\ sinceTick' \in 0 .. RepeatEvery
    <3>1. Taps!RepeatInterval \in Nat /\ 0 \in 0 .. RepeatEvery
      BY ScriptIs DEF Taps!RepeatInterval
    <3> QED
      BY <1>1, <1>5, <3>1 DEF Taps!RepeatWaits, Taps!RepeatTicks
  <2>4. late' \in 0 .. Lateness
    BY <1>3, ScriptIs
  <2>5. ScriptTypes'
    BY <1>1, <1>3, <1>4, <2>1, <2>3, <2>4 DEF ScriptTypes
  <2> QED
    BY <1>3, <2>1, <2>2, <2>5 DEF HoldThenGap
<1>7. TappedOnce'
  <2> SUFFICES ASSUME Taps!Tapped(pos), away < Gap
               PROVE  ticks' = 1 /\ repeatLeft' = RepeatDelay - Script[pos].ms + holdLeft'
    BY <1>3 DEF TappedOnce, Taps!Tapped
  <2>1. ticks = 1 /\ repeatLeft = RepeatDelay - Script[pos].ms + holdLeft
    BY DEF TapInv, TappedOnce
  <2>2. Script[pos].ms \in Nat /\ Script[pos].ms <= RepeatDelay
    <3>1. pos \in 1 .. Len(Script)
      BY <1>1, ScriptIs DEF Taps!Tapped
    <3> QED
      BY <3>1, ScriptIs DEF Taps!Tapped
  <2>3. repeatLeft > 0
    BY <1>1, <2>1, <2>2, ScriptIs
  <2>4. Taps!RepeatWaits /\ ticks' = ticks
    BY <1>5, <2>3 DEF Taps!RepeatTicks
  <2> QED
    BY <1>3, <2>1, <2>4 DEF Taps!RepeatWaits
<1>8. RepeatSpaced'
  BY <1>5, RepeatsApart
<1> QED
  BY <1>6, <1>7, <1>8 DEF TapInv

LEMMA StepIs ==
    ASSUME Taps!ScriptAssumption, TapInv, Taps!Step # "none"
    PROVE  pos + 1 \in 1 .. Len(Script) /\ Taps!Step = Script[pos + 1].kind
  BY ScriptIs DEF Taps!Step, TapInv, ScriptTypes

LEMMA PressTurn ==
    ASSUME Taps!ScriptAssumption, TapInv, Taps!Turn, ~pressing, Taps!Step = "press"
    PROVE  TapInv'
<1>1. pos + 1 \in 1 .. Len(Script)
  BY StepIs
<1> DEFINE ms == Script[pos + 1].ms
<1>2. ms \in Nat /\ ms > 0
  BY <1>1, ScriptIs
<1>3. /\ pos' = pos + 1 /\ (ended' <=> ended) /\ pressing' /\ holdLeft' = ms /\ waitLeft' = ms + Gap
      /\ late' = 0 /\ away' = late
  <2>1. ~Taps!StillHeld
    BY DEF Taps!StillHeld
  <2>2. /\ pos' = pos + 1 /\ (ended' <=> ended) /\ pressing' /\ late' = 0 /\ away' = late
        /\ holdLeft' = Script[pos'].ms /\ waitLeft' = Taps!WaitAfter(Script[pos'].ms)
    BY <2>1 DEF Taps!Turn, Taps!ScriptStep
  <2> QED
    BY <2>2 DEF Taps!WaitAfter
<1> HIDE DEF ms
<1>4. ended' \in BOOLEAN /\ pressing' \in BOOLEAN
  BY DEF Taps!Turn, Taps!ScriptStep, Taps!StillHeld
<1>5. Taps!PressTicks /\ ticks' = 1
  BY <1>3 DEF Taps!Turn, Taps!NotHeld, Taps!RepeatWaits, Taps!RepeatTicks, TapInv, HoldThenGap
<1>6. repeating' = TRUE /\ repeatLeft' = RepeatDelay /\ heldFor' = 0 /\ sinceTick' = 0
  BY <1>5 DEF Taps!PressTicks
<1>7. ScriptTypes'
  <2>1. /\ 0 \in 0 .. Lateness /\ 0 \in 0 .. RepeatEvery /\ RepeatDelay \in Nat
        /\ ms + Gap \in Nat /\ 1 \in Nat /\ pos + 1 \in 0 .. Len(Script)
        /\ late \in Nat
    BY <1>1, <1>2, ScriptIs DEF TapInv, ScriptTypes
  <2> QED
    BY <1>2, <1>3, <1>4, <1>5, <1>6, <2>1 DEF ScriptTypes
<1>8. HoldThenGap'
  BY <1>2, <1>3, <1>6 DEF HoldThenGap
<1>9. TappedOnce'
  <2>1. Script[pos'].ms = ms /\ holdLeft' = ms
    BY <1>3 DEF ms
  <2>2. RepeatDelay = RepeatDelay - ms + ms
    BY <1>2, ScriptIs
  <2> QED
    BY <1>5, <1>6, <2>1, <2>2 DEF TappedOnce
<1>10. RepeatSpaced'
  BY <1>6, ScriptIs DEF RepeatSpaced
<1> QED
  BY <1>7, <1>8, <1>9, <1>10 DEF TapInv

(* A loop that was away for the gap finds the button down as the last hold   *)
(* left it, and the press makes no edge of its own.                         *)
LEMMA MergedTurn ==
    ASSUME Taps!ScriptAssumption, TapInv, Taps!Turn, pressing, holdLeft = 0,
           Taps!Step = "press"
    PROVE  TapInv'
<1>1. pos + 1 \in 1 .. Len(Script) /\ Script[pos + 1].ms \in Nat /\ Script[pos + 1].ms > 0
  BY StepIs, ScriptIs
<1> DEFINE ms == Script[pos + 1].ms
<1>2. ms \in Nat /\ ms > 0
  BY <1>1
<1>3. /\ pos' = pos + 1 /\ (ended' <=> ended) /\ pressing' /\ holdLeft' = ms /\ waitLeft' = ms + Gap
      /\ late' = 0 /\ away' = late
  <2>1. ~Taps!StillHeld
    BY DEF Taps!StillHeld
  <2>2. /\ pos' = pos + 1 /\ (ended' <=> ended) /\ pressing' /\ late' = 0 /\ away' = late
        /\ holdLeft' = Script[pos'].ms /\ waitLeft' = Taps!WaitAfter(Script[pos'].ms)
    BY <2>1 DEF Taps!Turn, Taps!ScriptStep
  <2> QED
    BY <2>2 DEF Taps!WaitAfter
<1> HIDE DEF ms
<1>4. ended' \in BOOLEAN /\ pressing' \in BOOLEAN
  BY DEF Taps!Turn, Taps!ScriptStep, Taps!StillHeld
<1>5. /\ waitLeft \in Nat /\ holdLeft \in Nat /\ repeatLeft \in Nat /\ heldFor \in Nat
      /\ sinceTick \in 0 .. RepeatEvery /\ late \in Nat /\ repeating
  BY ScriptIs DEF TapInv, ScriptTypes, HoldThenGap
<1>6. \/ Taps!RepeatWaits /\ ticks' = 0
      \/ Taps!RepeatTicks /\ ticks' = 1
  BY <1>3, <1>5 DEF Taps!Turn, Taps!PressTicks, Taps!NotHeld
<1>7. ScriptTypes'
  <2>1. /\ repeating' \in BOOLEAN /\ repeatLeft' \in Nat /\ heldFor' \in Nat /\ ticks' \in Nat
        /\ sinceTick' \in 0 .. RepeatEvery
    <3>1. Taps!RepeatInterval \in Nat /\ 0 \in 0 .. RepeatEvery
      BY ScriptIs DEF Taps!RepeatInterval
    <3>2. ticks' \in Nat
      BY ONLY <1>6
    <3>3. Taps!RepeatWaits \/ Taps!RepeatTicks
      BY <1>6
    <3>4. repeating' /\ UNCHANGED heldFor
      BY <1>5, <3>3 DEF Taps!RepeatWaits, Taps!RepeatTicks
    <3>5. repeatLeft' \in Nat
      BY <1>5, <3>1, <3>3 DEF Taps!RepeatWaits, Taps!RepeatTicks
    <3>6. sinceTick' \in 0 .. RepeatEvery
      BY <1>5, <3>1, <3>3 DEF Taps!RepeatWaits, Taps!RepeatTicks
    <3> QED
      BY <1>5, <3>2, <3>4, <3>5, <3>6
  <2>2. 0 \in 0 .. Lateness /\ ms + Gap \in Nat /\ pos + 1 \in 0 .. Len(Script)
    BY <1>1, <1>2, ScriptIs
  <2> QED
    BY <1>2, <1>3, <1>4, <1>5, <2>1, <2>2 DEF ScriptTypes
<1>8. HoldThenGap'
  <2>1. repeating'
    BY <1>5, <1>6 DEF Taps!RepeatWaits, Taps!RepeatTicks
  <2> QED
    BY <1>2, <1>3, <2>1 DEF HoldThenGap
<1>9. TappedOnce'
  <2>1. waitLeft = 0 /\ waitLeft >= Gap - late
    BY DEF Taps!Step, TapInv, HoldThenGap
  <2>2. ~(late < Gap)
    BY <1>5, <2>1, ScriptIs
  <2> QED
    BY <1>3, <2>2 DEF TappedOnce
<1>10. RepeatSpaced'
  BY <1>6, RepeatsApart
<1> QED
  BY <1>7, <1>8, <1>9, <1>10 DEF TapInv

(* Released, by the hold's end or before, and no press.                     *)
LEMMA IdleTurn ==
    ASSUME Taps!ScriptAssumption, TapInv, Taps!Turn, ~(pressing /\ holdLeft > 0),
           Taps!Step # "press"
    PROVE  TapInv'
<1>1. /\ pos' = (IF Taps!Step = "none" THEN pos ELSE pos + 1)
      /\ ~pressing' /\ holdLeft' = 0 /\ late' = 0 /\ away' = away
      /\ waitLeft' = IF Taps!Step = "wait" THEN Script[pos'].ms ELSE waitLeft
  BY DEF Taps!Turn, Taps!ScriptStep, Taps!StillHeld
<1>2. ended' \in BOOLEAN /\ pressing' \in BOOLEAN
  BY DEF Taps!Turn, Taps!ScriptStep, Taps!StillHeld
<1>3. Taps!NotHeld /\ ticks' = ticks
  BY <1>1 DEF Taps!Turn, Taps!PressTicks, Taps!RepeatTicks, Taps!RepeatWaits
<1>4. repeating' = FALSE /\ repeatLeft' = 0 /\ heldFor' = 0 /\ sinceTick' = sinceTick
  BY <1>3 DEF Taps!NotHeld
<1>5. ScriptTypes'
  <2>1. pos' \in 0 .. Len(Script) /\ waitLeft' \in Nat
    <3>1. CASE Taps!Step = "none"
      BY <1>1, <3>1 DEF TapInv, ScriptTypes
    <3>2. CASE Taps!Step # "none"
      <4>1. pos + 1 \in 1 .. Len(Script)
        BY <3>2, StepIs
      <4>2. pos' = pos + 1 /\ Script[pos'].ms \in Nat
        BY <1>1, <3>2, <4>1, ScriptIs
      <4>3. pos' \in 0 .. Len(Script)
        BY <4>1, <4>2, ScriptIs
      <4> QED
        BY <1>1, <4>2, <4>3 DEF TapInv, ScriptTypes
    <3> QED
      BY <3>1, <3>2
  <2>2. 0 \in 0 .. Lateness
    BY ScriptIs
  <2> QED
    BY <1>1, <1>2, <1>3, <1>4, <2>1, <2>2 DEF ScriptTypes, TapInv
<1>6. TappedOnce'
  <2> SUFFICES ASSUME pos' > 0, Script[pos'].kind = "press", Taps!Tapped(pos)', away < Gap
               PROVE  ticks' = 1
    BY <1>1 DEF TappedOnce, Taps!Tapped
  <2>1. Taps!Step = "none"
    BY <1>1, StepIs
  <2>2. Taps!Tapped(pos)
    BY <1>1, <2>1 DEF Taps!Tapped
  <2> QED
    BY <1>3, <2>2 DEF TapInv, TappedOnce
<1> QED
  BY <1>1, <1>4, <1>5, <1>6 DEF TapInv, HoldThenGap, RepeatSpaced

LEMMA TapStep == ASSUME Taps!ScriptAssumption, TapInv, [Taps!Next]_Taps!vars PROVE TapInv'
<1>1. CASE Taps!Turn
  <2>1. holdLeft \in Nat
    BY DEF TapInv, ScriptTypes
  <2> QED
    BY <1>1, <2>1, HeldTurn, PressTurn, MergedTurn, IdleTurn
<1>2. CASE UNCHANGED Taps!vars
  BY <1>2 DEF TapInv, ScriptTypes, HoldThenGap, TappedOnce, Taps!Tapped, RepeatSpaced, Taps!vars
<1> QED
  BY <1>1, <1>2, TimePasses DEF Taps!Next, Taps!Stopped

LEMMA TapsStay == ASSUME Taps!ScriptAssumption PROVE Taps!Spec => []TapInv
<1>1. Taps!Init => TapInv
  BY TapInit
<1>2. TapInv /\ [Taps!Next]_Taps!vars => TapInv'
  BY TapStep
<1> QED
  BY <1>1, <1>2, PTL DEF Taps!Spec

(* A tap of any script is one tick by the time the next step runs, however   *)
(* late that is, if the loop was not away for the gap when it read the press *)
(* (script_step(); evdev_pad.c:236).                                        *)
THEOREM TapTicksOnce == ASSUME Taps!ScriptAssumption PROVE Taps!Spec => Taps!TapIsOneTick
<1>1. TapInv => [pos' # pos /\ Taps!Tapped(pos) /\ away < Gap => ticks = 1]_Taps!vars
  BY DEF TapInv, TappedOnce
<1> QED
  BY <1>1, TapsStay, PTL DEF Taps!TapIsOneTick

(* Held ticks are never closer than the interval that applies to them.      *)
THEOREM HeldTicksAreSpaced == ASSUME Taps!ScriptAssumption PROVE Taps!Spec => Taps!NoBurst
<1>1. TapInv => [(Taps!RepeatTicks /\ Taps!Turn) => sinceTick >= RepeatFast /\
                    (heldFor <= RepeatAccel => sinceTick >= RepeatEvery)]_Taps!vars
  <2> SUFFICES ASSUME TapInv, Taps!RepeatTicks
               PROVE  sinceTick >= RepeatFast /\
                      (heldFor <= RepeatAccel => sinceTick >= RepeatEvery)
    OBVIOUS
  <2>1. repeating /\ repeatLeft = 0 /\ sinceTick \in Nat
    BY ScriptIs DEF Taps!RepeatTicks, TapInv, ScriptTypes
  <2>2. /\ repeatLeft + sinceTick >= RepeatFast
        /\ heldFor <= RepeatAccel => repeatLeft + sinceTick >= RepeatEvery
    BY <2>1 DEF TapInv, RepeatSpaced
  <2> QED
    BY <2>1, <2>2
<1> QED
  BY <1>1, TapsStay, PTL DEF Taps!NoBurst

-----------------------------------------------------------------------------
(* The pad, with what AudioPathProofs says of recursion over the numbers.     *)

AudioProofs == INSTANCE AudioPathProofs WITH
    batch <- taken, pc <- playing, pending <- reordered

Reads == [held : SUBSET Codes, down : SUBSET Pad!Functions, pressed : SUBSET Pad!Latched,
          edges : SUBSET Pad!Latched, stuck : SUBSET Pad!Functions]

(* A poll under this layout, whatever it has read so far: a function that is *)
(* down and not stuck is held, and one that is stuck is down.                *)
Sound == {p \in Reads : /\ p.down \ p.stuck \subseteq Pad!Named(p.held)
                        /\ p.stuck \subseteq p.down
                        /\ p.edges \subseteq p.pressed
                        /\ pressed \subseteq p.pressed}

LEMMA CodesAre == ASSUME Pad!PadAssumption, NEW c \in Codes PROVE c \in Pad!Face \cup DOMAIN Pad!Plain
  BY DEF Pad!PadAssumption

LEMMA NamesAre ==
    ASSUME Pad!PadAssumption, NEW m, NEW c \in Codes
    PROVE  Pad!Function(m, c) \in Pad!Functions
<1>1. CASE c \in Pad!Face
  <2>1. Pad!Positional[c] \in {"A", "B", "X", "Y"} /\ Pad!Labels[c] \in {"A", "B", "X", "Y"}
    BY <1>1 DEF Pad!Face, Pad!Positional, Pad!Labels
  <2>2. Pad!FaceMap(m, c) \in {"A", "B", "X", "Y"}
    BY <2>1 DEF Pad!FaceMap
  <2> QED
    BY <1>1, <2>2 DEF Pad!Function, Pad!Functions
<1>2. CASE c \notin Pad!Face
  <2>1. c \in {"BTN_SELECT", "BTN_DPAD_UP", "BTN_DPAD_DOWN", "BTN_DPAD_LEFT", "BTN_DPAD_RIGHT"}
    BY <1>2, CodesAre DEF Pad!Plain
  <2>2. Pad!Plain[c] \in {"Select", "Up", "Down", "Left", "Right"}
    BY <2>1 DEF Pad!Plain
  <2> QED
    BY <1>2, <2>2 DEF Pad!Function, Pad!Functions
<1> QED
  BY <1>1, <1>2

LEMMA EventKeeps ==
    ASSUME Pad!PadAssumption, NEW p \in Sound, NEW code \in Codes
    PROVE  Pad!EventRead(p, code) \in Sound
<1> DEFINE b == Pad!Function(map, code)
           edge == IF code \notin p.held /\ b \notin p.down THEN {b} \cap Pad!Latched ELSE {}
           q == Pad!EventRead(p, code)
<1>1. b \in Pad!Functions
  BY NamesAre
<1>2. /\ p.held \subseteq Codes /\ p.down \subseteq Pad!Functions /\ p.pressed \subseteq Pad!Latched
      /\ p.edges \subseteq Pad!Latched /\ p.stuck \subseteq Pad!Functions
      /\ p.down \ p.stuck \subseteq Pad!Named(p.held)
      /\ p.stuck \subseteq p.down
      /\ p.edges \subseteq p.pressed /\ pressed \subseteq p.pressed
  BY DEF Sound, Reads
<1>3. q = [held |-> IF code \notin p.held THEN p.held \cup {code} ELSE p.held \ {code},
           down |-> IF code \notin p.held THEN p.down \cup {b} ELSE p.down \ {b},
           pressed |-> p.pressed \cup edge, edges |-> p.edges \cup edge,
           stuck |-> p.stuck \ {b}]
  BY DEF Pad!EventRead
<1>4. edge \subseteq Pad!Latched
  OBVIOUS
<1>5. /\ q.held = (IF code \notin p.held THEN p.held \cup {code} ELSE p.held \ {code})
      /\ q.down = (IF code \notin p.held THEN p.down \cup {b} ELSE p.down \ {b})
      /\ q.pressed = p.pressed \cup edge /\ q.edges = p.edges \cup edge
      /\ q.stuck = p.stuck \ {b}
  BY <1>3
<1>6. b = Pad!Function(map, code)
  OBVIOUS
<1> HIDE DEF b, edge
<1>7. q \in Reads
  BY <1>1, <1>2, <1>3, <1>4 DEF Reads
<1> HIDE DEF q
<1>8. q.down \ q.stuck \subseteq Pad!Named(q.held)
  <2> SUFFICES ASSUME NEW f \in q.down, f \notin q.stuck
               PROVE  f \in Pad!Named(q.held)
    OBVIOUS
  <2>1. CASE f = b
    <3>1. code \notin p.held
      BY <1>5, <2>1
    <3> QED
      BY <1>5, <1>6, <2>1, <3>1 DEF Pad!Named
  <2>2. CASE f # b
    <3>1. f \in p.down /\ f \notin p.stuck
      BY <1>5, <2>2
    <3>2. PICK c \in p.held : f = Pad!Function(map, c)
      BY <1>2, <3>1 DEF Pad!Named
    <3>3. c # code
      BY <1>6, <2>2, <3>2
    <3>4. c \in q.held
      BY <1>5, <3>2, <3>3
    <3> QED
      BY <3>2, <3>4 DEF Pad!Named
  <2> QED
    BY <2>1, <2>2
<1>9. q.stuck \subseteq q.down
  BY <1>2, <1>5
<1>10. q.edges \subseteq q.pressed /\ pressed \subseteq q.pressed
  BY <1>2, <1>5
<1> QED
  BY <1>7, <1>8, <1>9, <1>10 DEF Sound, q

LEMMA DropKeeps ==
    ASSUME Pad!PadAssumption, NEW p \in Sound, NEW code \in Codes
    PROVE  Pad!EventDropped(p, code) \in Sound
<1> DEFINE b == Pad!Function(map, code)
           q == Pad!EventDropped(p, code)
<1>1. /\ p = [held |-> p.held, down |-> p.down, pressed |-> p.pressed, edges |-> p.edges,
              stuck |-> p.stuck]
      /\ p.held \subseteq Codes /\ p.down \subseteq Pad!Functions /\ p.pressed \subseteq Pad!Latched
      /\ p.edges \subseteq Pad!Latched /\ p.stuck \subseteq Pad!Functions
      /\ p.down \ p.stuck \subseteq Pad!Named(p.held)
      /\ p.stuck \subseteq p.down
      /\ p.edges \subseteq p.pressed /\ pressed \subseteq p.pressed
  BY DEF Sound, Reads
<1>2. CASE code \in p.held
  <2>1. q = [held |-> p.held \ {code}, down |-> p.down, pressed |-> p.pressed,
             edges |-> p.edges, stuck |-> p.stuck \cup ({b} \cap p.down)]
    BY <1>1, <1>2 DEF Pad!EventDropped
  <2>2. b = Pad!Function(map, code)
    OBVIOUS
  <2> HIDE DEF b, q
  <2>3. q \in Reads
    BY <1>1, <2>1 DEF Reads
  <2>4. q.down \ q.stuck \subseteq Pad!Named(q.held)
    <3> SUFFICES ASSUME NEW f \in q.down, f \notin q.stuck
                 PROVE  f \in Pad!Named(q.held)
      OBVIOUS
    <3>1. f \in p.down /\ f \notin p.stuck /\ f # b
      BY <2>1
    <3>2. PICK c \in p.held : f = Pad!Function(map, c)
      BY <1>1, <3>1 DEF Pad!Named
    <3>3. c \in q.held
      BY <2>1, <2>2, <3>1, <3>2
    <3> QED
      BY <3>2, <3>3 DEF Pad!Named
  <2>5. q.stuck \subseteq q.down /\ q.edges \subseteq q.pressed /\ pressed \subseteq q.pressed
    BY <1>1, <2>1
  <2> QED
    BY <2>3, <2>4, <2>5 DEF Sound, q
<1>3. CASE code \notin p.held
  <2>1. q = [held |-> p.held \cup {code}, down |-> p.down, pressed |-> p.pressed,
             edges |-> p.edges, stuck |-> p.stuck]
    BY <1>1, <1>3 DEF Pad!EventDropped
  <2>2. Pad!Named(p.held) \subseteq Pad!Named(p.held \cup {code})
    BY DEF Pad!Named
  <2> HIDE DEF q
  <2>3. q \in Reads
    BY <1>1, <2>1 DEF Reads
  <2>4. /\ q.down \ q.stuck \subseteq Pad!Named(q.held)
        /\ q.stuck \subseteq q.down /\ q.edges \subseteq q.pressed /\ pressed \subseteq q.pressed
    BY <1>1, <2>1, <2>2
  <2> QED
    BY <2>3, <2>4 DEF Sound, q
<1> QED
  BY <1>2, <1>3

(* A run of steps that keep the poll sound: see Recursion.                  *)
SoundSteps(m) == [1 .. m -> [Sound -> Sound]]
RunsSound(c, m, s) ==
    \E g \in [0 .. m -> Sound] : g[0] = c /\ \A n \in 1 .. m : g[n] = s[n][g[n - 1]]

LEMMA SoundRuns ==
    ASSUME NEW c \in Sound, NEW m \in Nat, NEW s \in SoundSteps(m)
    PROVE  RunsSound(c, m, s)
<1>1. s \in [1 .. m -> [Sound -> Sound]]
  BY DEF SoundSteps
<1> QED
  BY <1>1, AudioProofs!Recursion DEF RunsSound

(* What a poll reads is what each event of the queue, dropped or read, makes *)
(* of the one before.                                                        *)
After(p, queue, dropped, n) ==
    IF n <= dropped THEN Pad!EventDropped(p, queue[n]) ELSE Pad!EventRead(p, queue[n])

LEMMA AfterIs ==
    ASSUME Pad!PadAssumption, NEW p \in Sound, NEW k \in Nat, NEW queue \in [1 .. k -> Codes],
           NEW dropped \in Nat, NEW n \in 1 .. k
    PROVE  After(p, queue, dropped, n) \in Sound
<1>1. queue[n] \in Codes
  OBVIOUS
<1> QED
  BY <1>1, EventKeeps, DropKeeps DEF After

LEMMA PolledIs ==
    ASSUME Pad!PadAssumption, NEW k \in Nat, NEW queue \in [1 .. k -> Codes],
           NEW dropped \in Nat,
           [held |-> held, down |-> down, pressed |-> pressed,
            edges |-> {}, stuck |-> stuck] \in Sound
    PROVE  Pad!Polled(queue, dropped) \in Sound
<1> DEFINE before == [held |-> held, down |-> down, pressed |-> pressed,
                      edges |-> {}, stuck |-> stuck]
           N == k
           step == [n \in 1 .. N |-> [p \in Sound |-> After(p, queue, dropped, n)]]
           Means(f) == f = [n \in 0 .. N |-> IF n = 0 THEN before ELSE After(f[n - 1], queue, dropped, n)]
<1>1. \A n \in 1 .. N : queue[n] \in Codes
  OBVIOUS
<1>2. step \in [1 .. N -> [Sound -> Sound]]
  BY AfterIs
<1>3. before \in Sound
  OBVIOUS
<1> HIDE DEF before
<1>4. PICK g \in [0 .. N -> Sound] :
          g[0] = before /\ \A n \in 1 .. N : g[n] = step[n][g[n - 1]]
  <2>1. N \in Nat /\ step \in SoundSteps(N)
    BY <1>2 DEF SoundSteps
  <2> HIDE DEF step, N
  <2>2. RunsSound(before, N, step)
    BY ONLY <1>3, <2>1, SoundRuns
  <2> QED
    BY ONLY <2>2 DEF RunsSound
<1>5. \A n \in 1 .. N : g[n] = After(g[n - 1], queue, dropped, n)
  <2> SUFFICES ASSUME NEW n \in 1 .. N
               PROVE  g[n] = After(g[n - 1], queue, dropped, n)
    OBVIOUS
  <2>1. g[n - 1] \in Sound
    OBVIOUS
  <2> QED
    BY <1>4, <2>1
<1>6. Means(g)
  <2> DEFINE h == [n \in 0 .. N |-> IF n = 0 THEN before ELSE After(g[n - 1], queue, dropped, n)]
  <2>1. ASSUME NEW n \in 0 .. N
        PROVE  g[n] = h[n]
    <3>1. CASE n = 0
      BY <1>4, <3>1
    <3>2. CASE n # 0
      BY <1>5, <3>2
    <3> QED
      BY <3>1, <3>2
  <2> QED
    BY <2>1
<1>7. Len(queue) = N
  OBVIOUS
<1>8. Pad!Polled(queue, dropped) = (CHOOSE f : Means(f))[N]
  BY <1>7 DEF Pad!Polled, After, before
<1> DEFINE r == CHOOSE f : Means(f)
<1>9. Means(r)
  <2> HIDE DEF Means
  <2> QED
    BY <1>6
<1>10. r[0] = before /\ \A n \in 1 .. N : r[n] = After(r[n - 1], queue, dropped, n)
  <2> HIDE DEF r
  <2> QED
    BY <1>9
<1> HIDE DEF r, Means
<1>11. \A n \in 1 .. N : r[n - 1] \in Sound => r[n] \in Sound
  BY <1>10, AfterIs
<1>12. r[0] \in Sound
  BY <1>3, <1>10
<1>13. \A n \in 0 .. N : r[n] \in Sound
  BY <1>11, <1>12, AudioProofs!StaysWithin
<1> QED
  BY <1>8, <1>13 DEF r


PadTypes ==
    /\ held \subseteq Codes /\ Pad!Cardinality(held) <= MaxHeld
    /\ map \in [positional : BOOLEAN, swap : BOOLEAN]
    /\ down \subseteq Pad!Functions /\ pressed \subseteq Pad!Latched
    /\ repeated \subseteq Pad!Repeating /\ stuck \subseteq down
    /\ screen \in {"menus", "video"}
    /\ over \in BOOLEAN
    /\ latched \subseteq pressed /\ byStale \in BOOLEAN

OverlayTypes ==
    /\ line \in 0 .. Len(LiveRows) + 1
    /\ staged \in Pad!Values /\ inForce \in Pad!Values

(* A press from before the overlay was opened waits only until its first    *)
(* turn, and until then what is staged is what is in force.                 *)
StagedIsInForce == over /\ "A" \in latched => staged = inForce

PadInv == PadTypes /\ OverlayTypes /\ Pad!DownIsHeld /\ StagedIsInForce /\ Pad!StalePressChangesNothing

LEMMA PadTypeIs == PadTypes /\ OverlayTypes <=> Pad!TypeOK
  BY DEF PadTypes, OverlayTypes, Pad!TypeOK

LEMMA RowsAre ==
    ASSUME Pad!PadAssumption
    PROVE  /\ Len(LiveRows) \in Nat /\ Len(LiveRows) > 0
           /\ \A i \in 1 .. Len(LiveRows) : LiveRows[i] \in Pad!Rows
           /\ \A r \in Pad!Rows : ChoiceCount[r] \in Nat /\ ChoiceCount[r] > 0
           /\ "layout" \in Pad!Rows
<1>1. LiveRows \in Seq(STRING) /\ LiveRows # <<>>
  BY DEF Pad!PadAssumption
<1>2. Len(LiveRows) \in Nat /\ Len(LiveRows) > 0 /\ DOMAIN LiveRows = 1 .. Len(LiveRows)
  BY <1>1
<1>3. Pad!Rows = {LiveRows[i] : i \in 1 .. Len(LiveRows)}
  BY <1>2 DEF Pad!Rows, Pad!Range
<1> QED
  BY <1>2, <1>3 DEF Pad!PadAssumption

LEMMA StagedValues ==
    ASSUME NEW v
    PROVE  v \in Pad!Values <=> /\ v = [r \in Pad!Rows |-> v[r]]
                            /\ \A r \in Pad!Rows : v[r] \in Pad!Choices(r)
  BY DEF Pad!Values

LEMMA ChosenIs == ASSUME NEW v PROVE Pad!Chosen(v) \in [positional : BOOLEAN, swap : BOOLEAN]
  BY DEF Pad!Chosen

LEMMA PadInit == ASSUME Pad!PadAssumption, Pad!Init PROVE PadInv
<1>1. PadTypes
  <2>1. held = {} /\ Pad!Cardinality(held) = 0
    BY FS_EmptySet, SameCounts DEF Pad!Init
  <2>2. Pad!Cardinality(held) <= MaxHeld
    BY <2>1 DEF Pad!PadAssumption
  <2> QED
    BY <2>1, <2>2, ChosenIs DEF Pad!Init, PadTypes
<1>2. OverlayTypes
  <2>1. inForce \in Pad!Values /\ staged = inForce
    <3>1. \A r \in Pad!Rows : inForce[r] \in Pad!Choices(r) /\ inForce = [x \in Pad!Rows |-> inForce[x]]
      BY RowsAre DEF Pad!Init, Pad!Choices
    <3> QED
      BY <3>1, RowsAre, StagedValues DEF Pad!Init
  <2>2. 0 \in 0 .. Len(LiveRows) + 1
    BY RowsAre
  <2> QED
    BY <2>1, <2>2 DEF OverlayTypes, Pad!Init
<1>3. Pad!DownIsHeld /\ StagedIsInForce /\ Pad!StalePressChangesNothing
  BY DEF Pad!Init, Pad!DownIsHeld, StagedIsInForce, Pad!StalePressChangesNothing
<1> QED
  BY <1>1, <1>2, <1>3 DEF PadInv

LEMMA PollsAre ==
    ASSUME Pad!PadAssumption, PadInv, NEW p \in Pad!Polls
    PROVE  /\ p.held \subseteq Codes /\ Pad!Cardinality(p.held) <= MaxHeld
           /\ p.down \subseteq Pad!Functions /\ p.pressed \subseteq Pad!Latched
           /\ p.down \ p.stuck \subseteq Pad!Named(p.held)
           /\ p.stuck \subseteq p.down
           /\ p.edges \subseteq p.pressed /\ pressed \subseteq p.pressed
<1> DEFINE before == [held |-> held, down |-> down, pressed |-> pressed,
                      edges |-> {}, stuck |-> stuck]
<1>1. before \in Sound
  <2>1. before \in Reads
    BY DEF PadInv, PadTypes, Reads
  <2>2. down \ stuck \subseteq Pad!Named(held)
    BY DEF PadInv, Pad!DownIsHeld
  <2> QED
    BY <2>1, <2>2 DEF PadInv, PadTypes, Sound
<1>2. PICK n \in 0 .. QueueCap :
          \E q \in [1 .. n -> Codes] : \E d \in {0} \cup Pad!Drops(q) : p = Pad!Polled(q, d)
  BY DEF Pad!Polls
<1>3. n \in Nat
  BY <1>2 DEF Pad!PadAssumption
<1>4. p \in Sound
  <2>1. PICK q \in [1 .. n -> Codes] : \E d \in {0} \cup Pad!Drops(q) : p = Pad!Polled(q, d)
    BY <1>2
  <2>2. PICK d \in {0} \cup Pad!Drops(q) : p = Pad!Polled(q, d)
    BY <2>1
  <2>3. d \in Nat
    BY <1>3, <2>2 DEF Pad!Drops
  <2> QED
    BY <1>1, <1>3, <2>2, <2>3, PolledIs
<1> QED
  BY <1>4 DEF Sound, Reads, Pad!Polls

(* What every poll leaves to its caller to say.                             *)
LEMMA PollKeeps ==
    ASSUME Pad!PadAssumption, PadInv, NEW p \in Pad!Polls, NEW took, NEW opened \in BOOLEAN,
           Pad!Poll(p, took, opened)
    PROVE  /\ held' \subseteq Codes /\ Pad!Cardinality(held') <= MaxHeld
           /\ down' \subseteq Pad!Functions /\ pressed' \subseteq Pad!Latched
           /\ over' \in BOOLEAN /\ latched' \subseteq pressed'
           /\ "A" \in took => "A" \notin latched'
           /\ over /\ opened => latched' \subseteq latched
           /\ ~opened => latched' = {}
<1>1. held' = p.held /\ down' = p.down /\ pressed' = p.pressed \ took /\ over' = opened
  BY DEF Pad!Poll
<1>2. latched' = IF ~opened THEN {}
               ELSE IF ~over THEN pressed' ELSE (latched \ p.edges) \cap pressed'
  BY DEF Pad!Poll
<1> QED
  BY <1>1, <1>2, PollsAre

LEMMA LayoutKept ==
    ASSUME Pad!PadAssumption, PadInv, NEW p \in Pad!Polls, held' = p.held, down' = p.down, Pad!KeepPad(p)
    PROVE  /\ map' \in [positional : BOOLEAN, swap : BOOLEAN]
           /\ stuck' \subseteq down' /\ Pad!DownIsHeld'
<1>1. map' = map /\ stuck' = p.stuck
  BY DEF Pad!KeepPad
<1>2. Pad!Named(held)' = Pad!Named(p.held)
  BY <1>1 DEF Pad!Named
<1> QED
  BY <1>1, <1>2, PollsAre DEF Pad!DownIsHeld, PadInv, PadTypes

LEMMA LayoutChanged ==
    ASSUME Pad!PadAssumption, PadInv, NEW p \in Pad!Polls, held' = p.held, down' = p.down,
           NEW v, Pad!ApplyPad(p, v)
    PROVE  /\ map' \in [positional : BOOLEAN, swap : BOOLEAN]
           /\ stuck' \subseteq down' /\ Pad!DownIsHeld'
<1>1. map' \in [positional : BOOLEAN, swap : BOOLEAN]
  BY ChosenIs DEF Pad!ApplyPad
<1>2. stuck' = p.stuck
         \cup {b \in p.down : \E c \in Pad!Face : Pad!Function(map, c) = b /\ Pad!Function(map', c) # b}
  BY DEF Pad!ApplyPad
<1>3. stuck' \subseteq down'
  BY <1>2, PollsAre
<1>4. ASSUME NEW f \in down', f \notin stuck'
      PROVE  f \in Pad!Named(held)'
  <2>1. f \in p.down \ p.stuck
    BY <1>2, <1>4
  <2>2. PICK c \in p.held : f = Pad!Function(map, c)
    BY <2>1, PollsAre DEF Pad!Named
  <2>3. f = Pad!Function(map', c)
    <3>1. CASE c \in Pad!Face
      BY <1>2, <1>4, <2>2, <3>1
    <3>2. CASE c \notin Pad!Face
      BY <2>2, <3>2 DEF Pad!Function
    <3> QED
      BY <3>1, <3>2
  <2> QED
    BY <2>2, <2>3 DEF Pad!Named
<1> QED
  BY <1>1, <1>3, <1>4 DEF Pad!DownIsHeld

LEMMA MenusKeep ==
    ASSUME Pad!PadAssumption, PadInv, NEW p \in Pad!Polls,
           Pad!MenuTurn(p) \/ Pad!PageStages(p) \/ Pad!PageSaves(p)
    PROVE  PadInv'
<1>1. CASE Pad!MenuTurn(p)
  <2>1. PICK took \in SUBSET p.pressed : Pad!Poll(p, took, over)
    BY <1>1 DEF Pad!MenuTurn
  <2>2. over \in BOOLEAN
    BY DEF PadInv, PadTypes
  <2>3. held' = p.held /\ down' = p.down /\ over' = over
    BY <2>1 DEF Pad!Poll
  <2>4. PadTypes' /\ Pad!DownIsHeld'
    <3>1. repeated' \subseteq Pad!Repeating
      BY <1>1 DEF Pad!MenuTurn, PadInv, PadTypes
    <3> QED
      BY <1>1, <2>1, <2>2, <2>3, <3>1, PollKeeps, LayoutKept DEF Pad!MenuTurn, PadInv, PadTypes
  <2>5. OverlayTypes' /\ Pad!StalePressChangesNothing'
    BY <1>1 DEF Pad!MenuTurn, PadInv, OverlayTypes, Pad!StalePressChangesNothing
  <2>6. StagedIsInForce'
    BY <1>1, <2>1, <2>2, <2>3, PollKeeps DEF Pad!MenuTurn, PadInv, StagedIsInForce
  <2> QED
    BY <2>4, <2>5, <2>6 DEF PadInv
<1>2. CASE Pad!PageStages(p) \/ Pad!PageSaves(p)
  <2>1. Pad!Poll(p, {"A"}, over) /\ over \in BOOLEAN
    BY <1>2 DEF Pad!PageStages, Pad!PageSaves, PadInv, PadTypes
  <2>2. held' = p.held /\ down' = p.down /\ over' = over /\ "A" \notin latched'
    BY <2>1, PollKeeps DEF Pad!Poll
  <2>3. /\ map' \in [positional : BOOLEAN, swap : BOOLEAN]
        /\ stuck' \subseteq down' /\ Pad!DownIsHeld'
    BY <1>2, <2>2, LayoutKept, LayoutChanged DEF Pad!PageStages, Pad!PageSaves
  <2>4. screen' = screen /\ repeated' \subseteq Pad!Repeating /\ byStale' = FALSE
    BY <1>2 DEF Pad!PageStages, Pad!PageSaves
  <2>5. PadTypes'
    <3>1. /\ held' \subseteq Codes /\ Pad!Cardinality(held') <= MaxHeld
          /\ down' \subseteq Pad!Functions /\ pressed' \subseteq Pad!Latched
          /\ over' \in BOOLEAN /\ latched' \subseteq pressed'
      BY <2>1, PollKeeps
    <3> QED
      BY <2>3, <2>4, <3>1 DEF PadInv, PadTypes
  <2>6. OverlayTypes' /\ Pad!StalePressChangesNothing'
    BY <1>2 DEF Pad!PageStages, Pad!PageSaves, PadInv, OverlayTypes, Pad!StalePressChangesNothing
  <2> QED
    BY <2>2, <2>3, <2>5, <2>6 DEF PadInv, StagedIsInForce
<1> QED
  BY <1>1, <1>2

LEMMA ShutOverlayKeeps ==
    ASSUME Pad!PadAssumption, PadInv, NEW p \in Pad!Polls,
           Pad!OverlayShut(p) \/ Pad!OverlayOpens(p) \/ Pad!OverlayCloses(p)
    PROVE  PadInv'
<1>1. PICK took, opened :
          opened \in BOOLEAN /\ Pad!Poll(p, took, opened) /\ (opened => staged' = inForce')
  <2>1. CASE Pad!OverlayShut(p)
    <3>1. Pad!Poll(p, {}, FALSE)
      BY <2>1 DEF Pad!OverlayShut
    <3> QED
      BY <3>1
  <2>2. CASE Pad!OverlayOpens(p)
    <3>1. Pad!Poll(p, {"X"}, TRUE) /\ staged' = inForce'
      BY <2>2 DEF Pad!OverlayOpens
    <3> QED
      BY <3>1
  <2>3. CASE Pad!OverlayCloses(p)
    <3>1. Pad!Poll(p, Pad!Closing(p), FALSE)
      BY <2>3 DEF Pad!OverlayCloses
    <3> QED
      BY <3>1
  <2> QED
    BY <2>1, <2>2, <2>3
<1>2. Pad!KeepPad(p) /\ byStale' = FALSE /\ UNCHANGED <<repeated, screen, inForce>>
      /\ (staged' = staged \/ staged' = inForce) /\ (line' = line \/ line' = 0)
  BY DEF Pad!OverlayShut, Pad!OverlayOpens, Pad!OverlayCloses
<1>3. held' = p.held /\ down' = p.down /\ over' = opened
  BY <1>1 DEF Pad!Poll
<1>4. PadTypes' /\ Pad!DownIsHeld'
  BY <1>1, <1>2, <1>3, PollKeeps, LayoutKept DEF PadInv, PadTypes
<1>5. OverlayTypes'
  <2>1. 0 \in 0 .. Len(LiveRows) + 1
    BY RowsAre
  <2> QED
    BY <1>2, <2>1 DEF PadInv, OverlayTypes
<1>6. StagedIsInForce' /\ Pad!StalePressChangesNothing'
  BY <1>1, <1>2, <1>3 DEF StagedIsInForce, Pad!StalePressChangesNothing
<1> QED
  BY <1>4, <1>5, <1>6 DEF PadInv

LEMMA MovedIs ==
    ASSUME Pad!PadAssumption, NEW t, line \in 0 .. Len(LiveRows) + 1
    PROVE  Pad!Moved(t) \in 0 .. Len(LiveRows) + 1
<1> DEFINE n == Len(LiveRows) + 2
           up == IF "Up" \in t THEN (line + n - 1) % n ELSE line
<1>1. n \in Nat /\ n > 0 /\ line \in Nat
  BY RowsAre
<1>2. Pad!Moved(t) = IF "Down" \in t THEN (up + 1) % n ELSE up
  BY DEF Pad!Moved
<1>3. 0 .. n - 1 = 0 .. Len(LiveRows) + 1
  BY RowsAre
<1>4. up \in 0 .. n - 1
  <2> HIDE DEF n
  <2>1. (line + n - 1) % n \in 0 .. n - 1
    BY <1>1
  <2> QED
    BY <1>3, <2>1
<1>5. (up + 1) % n \in 0 .. n - 1
  <2> HIDE DEF n, up
  <2> QED
    BY <1>1, <1>4
<1> HIDE DEF n, up
<1> QED
  BY <1>2, <1>3, <1>4, <1>5

LEMMA OverlayKeeps ==
    ASSUME Pad!PadAssumption, PadInv, NEW p \in Pad!Polls, NEW t \in Pad!Ticks(p),
           Pad!OverlayMoves(p, t) \/ Pad!OverlayApplies(p, t)
    PROVE  PadInv'
<1>1. Pad!OverlayTurn(p, t)
  BY DEF Pad!OverlayMoves, Pad!OverlayApplies
<1>2. /\ over /\ Pad!Poll(p, {"A"}, TRUE) /\ repeated' = Pad!Repeating \cap p.down
      /\ line' = Pad!Moved(t) /\ screen' = screen
  BY <1>1 DEF Pad!OverlayTurn
<1>3. held' = p.held /\ down' = p.down /\ over' = TRUE /\ "A" \notin latched'
  BY <1>2, PollKeeps DEF Pad!Poll
<1>4. /\ map' \in [positional : BOOLEAN, swap : BOOLEAN]
      /\ stuck' \subseteq down' /\ Pad!DownIsHeld'
  BY <1>3, LayoutKept, LayoutChanged DEF Pad!OverlayMoves, Pad!OverlayApplies
<1>5. PadTypes'
  <2>1. byStale' \in BOOLEAN
    BY DEF Pad!OverlayMoves, Pad!OverlayApplies, Pad!Stale
  <2> QED
    BY <1>2, <1>4, <2>1, PollKeeps DEF PadInv, PadTypes
<1>6. staged' \in Pad!Values /\ inForce' \in Pad!Values
  <2>1. CASE staged' = staged /\ (inForce' = inForce \/ inForce' = staged)
    BY <2>1 DEF PadInv, OverlayTypes
  <2>2. CASE /\ Pad!OnRow(t) /\ inForce' = inForce
             /\ staged' = [staged EXCEPT ![Pad!Row(t)] =
                            (@ + Pad!Delta(p, t) + ChoiceCount[Pad!Row(t)]) % ChoiceCount[Pad!Row(t)]]
    <3> DEFINE r == Pad!Row(t)
               c == ChoiceCount[r]
               new == (staged[r] + Pad!Delta(p, t) + c) % c
    <3>1. r \in Pad!Rows
      <4>1. Pad!Moved(t) + 1 \in 1 .. Len(LiveRows)
        BY <2>2, MovedIs, RowsAre DEF Pad!OnRow, PadInv, OverlayTypes
      <4> QED
        BY <4>1, RowsAre DEF Pad!Row
    <3>2. staged \in Pad!Values
      BY DEF PadInv, OverlayTypes
    <3>3. /\ staged = [x \in Pad!Rows |-> staged[x]] /\ \A x \in Pad!Rows : staged[x] \in Pad!Choices(x)
      BY <3>2, StagedValues
    <3>4. staged[r] \in Int /\ Pad!Delta(p, t) \in Int /\ c \in Nat /\ c > 0
      BY <3>1, <3>3, RowsAre DEF Pad!Choices, Pad!Delta
    <3>5. new \in 0 .. c - 1
      <4> HIDE DEF c
      <4> QED
        BY <3>4
    <3>6. staged' = [staged EXCEPT ![r] = new]
      BY <2>2
    <3>7. new \in Pad!Choices(r)
      BY <3>5 DEF Pad!Choices
    <3> HIDE DEF r, new
    <3>8. staged' = [x \in Pad!Rows |-> staged'[x]] /\ \A x \in Pad!Rows : staged'[x] \in Pad!Choices(x)
      BY <3>1, <3>3, <3>6, <3>7
    <3>9. staged' \in Pad!Values
      BY <3>8, StagedValues
    <3> QED
      BY <2>2, <3>9 DEF PadInv, OverlayTypes
  <2> QED
    BY <2>1, <2>2 DEF Pad!OverlayMoves, Pad!OverlayApplies
<1>7. OverlayTypes'
  BY <1>2, <1>6, MovedIs DEF PadInv, OverlayTypes
<1>8. Pad!StalePressChangesNothing'
  <2>1. CASE Pad!OverlayMoves(p, t)
    BY <2>1 DEF Pad!OverlayMoves, Pad!StalePressChangesNothing
  <2>2. CASE Pad!OverlayApplies(p, t)
    <3>1. inForce' = staged /\ byStale' = (Pad!Stale(p, "A") /\ inForce' # inForce)
      BY <2>2 DEF Pad!OverlayApplies
    <3>2. Pad!Stale(p, "A") => staged = inForce
      BY <1>2 DEF Pad!Stale, PadInv, StagedIsInForce
    <3> QED
      BY <3>1, <3>2 DEF Pad!StalePressChangesNothing
  <2> QED
    BY <2>1, <2>2
<1> QED
  BY <1>3, <1>4, <1>5, <1>7, <1>8 DEF PadInv, StagedIsInForce

LEMMA PadStep == ASSUME Pad!PadAssumption, PadInv, [Pad!Next]_Pad!vars PROVE PadInv'
<1>1. CASE Pad!VideoEnds \/ UNCHANGED Pad!vars
  <2>1. /\ UNCHANGED <<held, map, down, pressed, repeated, stuck, latched, over, line, staged, inForce>>
        /\ screen' \in {"menus", "video"} /\ (byStale' = FALSE \/ byStale' = byStale)
    BY <1>1 DEF Pad!VideoEnds, Pad!vars, Pad!overlayVars, PadInv, PadTypes
  <2>2. PadTypes' /\ OverlayTypes'
    BY <2>1 DEF PadInv, PadTypes, OverlayTypes
  <2>3. Pad!DownIsHeld' /\ StagedIsInForce'
    BY <2>1 DEF PadInv, Pad!DownIsHeld, Pad!Named, StagedIsInForce
  <2>4. Pad!StalePressChangesNothing'
    BY <2>1 DEF PadInv, Pad!StalePressChangesNothing
  <2> QED
    BY <2>2, <2>3, <2>4 DEF PadInv
<1> QED
  BY <1>1, MenusKeep, ShutOverlayKeeps, OverlayKeeps DEF Pad!Next, Pad!InputThread

LEMMA PadStays == ASSUME Pad!PadAssumption PROVE Pad!Spec => []PadInv
<1>1. Pad!Init => PadInv
  BY PadInit
<1>2. PadInv /\ [Pad!Next]_Pad!vars => PadInv'
  BY PadStep
<1> QED
  BY <1>1, <1>2, PTL DEF Pad!Spec

(* The pad and the overlay keep their types, for every set of buttons, queue *)
(* and table of options (pad_poll(), options_menu_input()).                  *)
THEOREM PadTypeCorrect == ASSUME Pad!PadAssumption PROVE Pad!Spec => []Pad!TypeOK
<1>1. PadInv => Pad!TypeOK
  BY PadTypeIs DEF PadInv
<1> QED
  BY <1>1, PadStays, PTL

(* Whatever the kernel drops and whenever the layout changes, only what they *)
(* left down is down without its button, and no press from before the       *)
(* overlay was opened changes a setting (pad_poll(), pad_take_press()).      *)
THEOREM NoPhantomPress == ASSUME Pad!PadAssumption PROVE Pad!Spec => [](Pad!DownIsHeld /\ Pad!StalePressChangesNothing)
<1>1. PadInv => Pad!DownIsHeld /\ Pad!StalePressChangesNothing
  BY DEF PadInv
<1> QED
  BY <1>1, PadStays, PTL

-----------------------------------------------------------------------------
(* The rows of the menu and their types, with what LibraryScreenProofs says   *)
(* of sets put in order.                                                    *)

LibraryProofs == INSTANCE LibraryScreenProofs WITH Titles <- Games

LEMMA SamePicked == \A s, places : Menu!Picked(s, places) = LibraryProofs!Picked(s, places)
  BY DEF Menu!Picked, LibraryProofs!Picked, Menu!Ascending, LibraryProofs!Ascending,
     Menu!Ordered, LibraryProofs!Ordered, Menu!Cardinality, LibraryProofs!Cardinality

(* Rows picked from a table are rows of it, and no more than it has.        *)
LEMMA PartOfTable ==
    ASSUME NEW A, NEW n \in Nat, NEW s \in [1 .. n -> A], NEW places \in SUBSET (1 .. n)
    PROVE  \E m \in 0 .. n : /\ Menu!Picked(s, places) \in [1 .. m -> A]
                             /\ Menu!Picked(s, places) \in Seq(A) /\ Len(Menu!Picked(s, places)) = m
                             /\ \A k \in 1 .. m : \E i \in places : Menu!Picked(s, places)[k] = s[i]
<1> DEFINE p == Menu!Picked(s, places)
           m == Cardinality(places)
<1>1. IsFiniteSet(1 .. n) /\ Cardinality(1 .. n) = n
  BY FS_Interval
<1>2. IsFiniteSet(places) /\ m <= n /\ places \in SUBSET Int
  <2>1. 1 .. n \subseteq Int
    OBVIOUS
  <2>2. ASSUME NEW T, IsFiniteSet(T), places \in SUBSET T
        PROVE  IsFiniteSet(places) /\ Cardinality(places) <= Cardinality(T)
    BY <2>2, FS_Subset
  <2>3. IsFiniteSet(places) /\ Cardinality(places) <= n
    BY <1>1, <2>2
  <2> QED
    BY <2>1, <2>3
<1>3. LibraryProofs!IsFiniteSet(places)
  BY <1>2 DEF IsFiniteSet, LibraryProofs!IsFiniteSet
<1>4. LibraryProofs!Cardinality(places) = m
  BY DEF Cardinality, LibraryProofs!Cardinality
<1>5. /\ m \in Nat /\ DOMAIN p = 1 .. m
      /\ \A k \in DOMAIN p : \E i \in places : p[k] = s[i]
      /\ p = [k \in 1 .. m |-> p[k]]
  BY <1>2, <1>3, <1>4, SamePicked, LibraryProofs!PickedIs
<1> HIDE DEF p, m
<1>6. \A k \in 1 .. m : p[k] \in A
  BY <1>5
<1>7. p \in [1 .. m -> A]
  BY <1>5, <1>6
<1>8. p \in Seq(A) /\ Len(p) = m
  BY <1>5, <1>7, SeqDef, LenProperties
<1>9. m \in 0 .. n
  BY <1>2, <1>5
<1> QED
  BY <1>5, <1>7, <1>8, <1>9 DEF p

TableRows == {Menu!Table[i] : i \in DOMAIN Menu!Table}
KeptEntries == {r \in TableRows : r.id \in KeptRows}

LEMMA RowsOf ==
    /\ Menu!Rows \in Seq(KeptEntries)
    /\ Len(Menu!Rows) \in Nat
    /\ Menu!Group \in Seq(KeptEntries) /\ Len(Menu!Group) \in 0 .. Len(Menu!Rows)
    /\ Menu!LiveRows \in Seq(KeptEntries) /\ Len(Menu!LiveRows) \in 0 .. Len(Menu!Rows)
<1> DEFINE kept == {i \in DOMAIN Menu!Table : Menu!Table[i].id \in KeptRows}
<1>1. DOMAIN Menu!Table = 1 .. 13
  BY DEF Menu!Table
<1>2. Menu!Table \in [1 .. 13 -> TableRows]
  <2>1. Menu!Table = [i \in 1 .. 13 |-> Menu!Table[i]]
    BY DEF Menu!Table
  <2> QED
    BY <1>1, <2>1 DEF TableRows
<1>3. PICK n : n = 13
  OBVIOUS
<1>4. n \in Nat /\ Menu!Table \in [1 .. n -> TableRows] /\ kept \in SUBSET (1 .. n)
  BY <1>1, <1>2, <1>3
<1>5. PICK m \in 0 .. n :
         /\ Menu!Rows \in Seq(TableRows) /\ Len(Menu!Rows) = m
         /\ Menu!Rows \in [1 .. m -> TableRows]
         /\ \A k \in 1 .. m : \E i \in kept : Menu!Rows[k] = Menu!Table[i]
  <2> HIDE DEF kept
  <2>1. Menu!Rows = Menu!Picked(Menu!Table, kept)
    BY DEF Menu!Rows, kept
  <2> QED
    BY <1>4, <2>1, PartOfTable
<1>6. m \in Nat /\ Menu!Rows \in [1 .. m -> KeptEntries]
  <2>1. \A k \in 1 .. m : Menu!Rows[k] \in KeptEntries
    BY <1>5 DEF KeptEntries
  <2> QED
    BY <1>4, <1>5, <2>1
<1>7. Menu!Rows \in Seq(KeptEntries)
  BY <1>6, SeqDef
<1>8. ASSUME NEW places \in SUBSET (1 .. m)
      PROVE  /\ Menu!Picked(Menu!Rows, places) \in Seq(KeptEntries)
             /\ Len(Menu!Picked(Menu!Rows, places)) \in 0 .. m
  BY <1>6, PartOfTable
<1>9. DOMAIN Menu!Rows = 1 .. m
  BY <1>6
<1> QED
  BY <1>5, <1>6, <1>7, <1>8, <1>9 DEF Menu!Group, Menu!LiveRows

(* The settings are choices of their rows.                                  *)
Chosen(v) == \A o \in KeptRows : v[o] \in Menu!ChoicesOf(o)

ValuesOK ==
    /\ Chosen(val) /\ Chosen(edit)
    /\ \A o \in KeptRows : field[o] \in Menu!ChoicesOf(o) \cup {Unlisted}

FilesOK == options \in Menu!Whole \cup {None, Torn} /\ tmp \in Menu!Whole \cup {None, Torn}

CursorsOK ==
    /\ cursor \in 1 .. Len(Menu!Rows) + 2 /\ row \in 1 .. Len(Menu!Rows) + 2
    /\ group \in {"standard", "advanced"} /\ detail \in BOOLEAN
    /\ menu \in {"off", "library", "page", "stream"} /\ open \in BOOLEAN /\ carried \in BOOLEAN

SavesOK ==
    /\ saver \in {"idle", "opened", "closed"} /\ lost \in BOOLEAN
    /\ rewritten \subseteq KeptRows /\ abandoned \subseteq KeptRows

MenuTypes == MenuNumbers /\ ValuesOK /\ FilesOK /\ CursorsOK /\ SavesOK

LEMMA MenuTypesAre == MenuTypes => Menu!TypeOK
  BY DEF MenuTypes, ValuesOK, Chosen, FilesOK, CursorsOK, SavesOK, Menu!TypeOK

LEMMA DefaultsChosen == ASSUME Menu!OptionsAssumption PROVE Chosen(Menu!Defaults)
  BY DEF Menu!OptionsAssumption, Menu!Defaults, Chosen

LEMMA ZeroIsChosen ==
    ASSUME Menu!OptionsAssumption, NEW o \in KeptRows PROVE 0 \in Menu!ChoicesOf(o)
<1>1. PICK n \in Nat \ {0} : Menu!ChoicesOf(o) = 0 .. n - 1
  BY ChoicesAreIndices
<1> QED
  BY <1>1

LEMMA CycledIsChosen ==
    ASSUME Menu!OptionsAssumption, MenuNumbers, Chosen(edit), NEW o \in KeptRows, NEW d \in {-1, 1}
    PROVE  Chosen([edit EXCEPT ![o] = Menu!Turned(o, d)])
<1>1. PICK n \in Nat \ {0} : Menu!ChoicesOf(o) = 0 .. n - 1 /\ Cardinality(Menu!ChoicesOf(o)) = n
  BY ChoicesAreIndices
<1>2. edit[o] \in 0 .. n - 1
  BY <1>1 DEF Chosen
<1>3. Menu!Turned(o, d) = (edit[o] + d + n) % n
  BY <1>1, SameCounts DEF Menu!Turned
<1>4. Menu!Turned(o, d) \in Menu!ChoicesOf(o)
  BY <1>1, <1>2, <1>3
<1>5. DOMAIN edit = KeptRows
  BY DEF MenuNumbers, Settings
<1> QED
  BY <1>4, <1>5 DEF Chosen

LEMMA CycleKeepsValues ==
    ASSUME Menu!OptionsAssumption, MenuNumbers, ValuesOK, NEW o \in KeptRows, Menu!Cycle(o)
    PROVE  ValuesOK'
<1>1. Chosen(edit')
  BY CycledIsChosen DEF Menu!Cycle, ValuesOK
<1>2. val' = val /\ field' = field
  BY DEF Menu!Cycle
<1> QED
  BY <1>1, <1>2 DEF ValuesOK, Chosen

LEMMA ValuesNext ==
    ASSUME Menu!OptionsAssumption, MenuTypes, [Menu!Next]_Menu!vars
    PROVE  ValuesOK'
<1>0. ValuesOK /\ MenuNumbers
  BY DEF MenuTypes
<1>1. ASSUME UNCHANGED <<val, edit, field>> PROVE ValuesOK'
  BY <1>0, <1>1 DEF ValuesOK, Chosen
<1>2. CASE Menu!Launch
  <2>1. ASSUME NEW o \in KeptRows
        PROVE  field'[o] \in Menu!ChoicesOf(o) \cup {Unlisted} /\ val'[o] \in Menu!ChoicesOf(o)
    <3>1. field'[o] \in {Menu!Loaded[o]} \cup Menu!Flagged(o) /\ val'[o] \in Menu!ReadBack(o, field'[o])
      BY <1>2 DEF Menu!Launch
    <3>2. Menu!Loaded[o] \in Menu!ChoicesOf(o) /\ 0 \in Menu!ChoicesOf(o)
      BY ZeroIsChosen DEF Menu!Loaded, Menu!OptionsAssumption
    <3>3. Menu!Flagged(o) \subseteq Menu!ChoicesOf(o) \cup {Unlisted}
      BY <3>2 DEF Menu!Flagged
    <3>4. Menu!ReadBack(o, field'[o]) \subseteq Menu!ChoicesOf(o)
      BY <3>2 DEF Menu!ReadBack
    <3> QED
      BY <3>1, <3>2, <3>3, <3>4
  <2>2. edit' = edit
    BY <1>2 DEF Menu!Launch
  <2> QED
    BY <1>0, <2>1, <2>2 DEF ValuesOK, Chosen
<1>3. CASE Menu!Exit
  BY <1>3, DefaultsChosen DEF Menu!Exit, ValuesOK, Chosen
<1>4. ASSUME Menu!Commit PROVE ValuesOK'
  BY <1>0, <1>4 DEF Menu!Commit, ValuesOK, Chosen
<1>5. ASSUME edit' \in {val, Menu!Defaults}, UNCHANGED <<val, field>> PROVE ValuesOK'
  BY <1>0, <1>5, DefaultsChosen DEF ValuesOK, Chosen
<1>6. CASE Menu!Page
  <2>1. CASE Menu!PageCycle
    <3>1. Menu!Group[row].id \in KeptRows
      <4>1. row \in 1 .. Len(Menu!Group) /\ Menu!Group \in Seq(KeptEntries)
        BY <2>1, RowsOf DEF Menu!PageCycle, MenuTypes, CursorsOK
      <4> QED
        BY <4>1 DEF KeptEntries
    <3> QED
      BY <1>0, <2>1, <3>1, CycleKeepsValues DEF Menu!PageCycle
  <2> QED
    BY <1>1, <1>4, <1>5, <1>6, <2>1
    DEF Menu!Page, Menu!PageExplained, Menu!PageMove, Menu!PageSave, Menu!PageReset
<1>7. CASE Menu!Overlay
  <2>1. CASE Menu!OverlayCycle
    <3>1. Menu!LiveRows[cursor].id \in KeptRows
      <4>1. cursor \in 1 .. Len(Menu!LiveRows) /\ Menu!LiveRows \in Seq(KeptEntries)
        BY <2>1, RowsOf DEF Menu!OverlayCycle, MenuTypes, CursorsOK
      <4> QED
        BY <4>1 DEF KeptEntries
    <3> QED
      BY <1>0, <2>1, <3>1, CycleKeepsValues DEF Menu!OverlayCycle
  <2> QED
    BY <1>1, <1>4, <1>5, <1>7, <2>1
    DEF Menu!Overlay, Menu!OverlayOpen, Menu!OverlayClose, Menu!OverlayMove, Menu!OverlayApply,
        Menu!OverlaySave
<1>8. CASE Menu!PageEnter
  BY <1>5, <1>8 DEF Menu!PageEnter
<1>9. CASE Menu!SaveStep \/ Menu!PageLeave \/ Menu!StreamSwitch \/ UNCHANGED Menu!vars
  BY <1>1, <1>9 DEF Menu!SaveStep, Menu!PageLeave, Menu!StreamSwitch, Menu!vars
<1> QED
  BY <1>2, <1>3, <1>6, <1>7, <1>8, <1>9 DEF Menu!Next

LEMMA FilesNext ==
    ASSUME Menu!OptionsAssumption, MenuTypes, [Menu!Next]_Menu!vars
    PROVE  FilesOK'
<1>0. FilesOK
  BY DEF MenuTypes
<1>1. val \in Menu!Whole
  <2>1. ASSUME NEW o \in KeptRows PROVE val[o] \in -1 .. MaxChoices - 1
    <3>1. PICK n \in Nat \ {0} : n <= MaxChoices /\ Menu!ChoicesOf(o) = 0 .. n - 1
      BY ChoicesAreIndices
    <3>2. val[o] \in 0 .. n - 1 /\ MaxChoices \in Nat
      BY <3>1 DEF MenuTypes, ValuesOK, Chosen, Menu!OptionsAssumption
    <3> QED
      BY <3>1, <3>2
  <2>2. val = [o \in KeptRows |-> val[o]]
    BY DEF MenuTypes, MenuNumbers, Settings
  <2> QED
    BY <2>1, <2>2 DEF Menu!Whole
<1>2. ASSUME options' = options, tmp' \in {tmp, val, Torn} PROVE FilesOK'
  BY <1>0, <1>1, <1>2 DEF FilesOK
<1>3. CASE Menu!SaveStep
  <2>1. CASE Menu!SaveClosed
    BY <1>2, <2>1 DEF Menu!SaveClosed
  <2>2. CASE Menu!SaveRenamed
    BY <1>0, <2>2 DEF Menu!SaveRenamed, FilesOK
  <2> QED
    BY <1>3, <2>1, <2>2 DEF Menu!SaveStep
<1>4. CASE Menu!Page
  BY <1>2, <1>4 DEF Menu!Page, Menu!PageExplained, Menu!PageMove, Menu!PageCycle, Menu!PageSave,
     Menu!PageReset, Menu!Cycle, Menu!Commit, Menu!Save, Menu!SaveNotOpened, Menu!store
<1>5. CASE Menu!Overlay
  BY <1>2, <1>5 DEF Menu!Overlay, Menu!OverlayOpen, Menu!OverlayClose, Menu!OverlayMove,
     Menu!OverlayCycle, Menu!OverlayApply, Menu!OverlaySave, Menu!Cycle, Menu!Commit, Menu!Save,
     Menu!SaveNotOpened, Menu!store
<1>6. CASE Menu!Launch \/ Menu!Exit \/ Menu!PageEnter \/ Menu!PageLeave \/ Menu!StreamSwitch
           \/ UNCHANGED Menu!vars
  BY <1>2, <1>6 DEF Menu!Launch, Menu!Exit, Menu!PageEnter, Menu!PageLeave, Menu!StreamSwitch,
     Menu!vars, Menu!store
<1> QED
  BY <1>3, <1>4, <1>5, <1>6 DEF Menu!Next

LEMMA RowsInReach ==
    /\ 1 \in 1 .. Len(Menu!Rows) + 2
    /\ 1 .. Len(Menu!Group) + 2 \subseteq 1 .. Len(Menu!Rows) + 2
<1>1. PICK n : n = Len(Menu!Rows)
  OBVIOUS
<1>2. PICK m : m = Len(Menu!Group)
  OBVIOUS
<1>3. n \in Nat /\ m \in 0 .. n
  BY <1>1, <1>2, RowsOf
<1>4. 1 \in 1 .. n + 2 /\ 1 .. m + 2 \subseteq 1 .. n + 2
  BY <1>3
<1> QED
  BY <1>1, <1>2, <1>4

LEMMA CursorsNext ==
    ASSUME Menu!OptionsAssumption, MenuTypes, [Menu!Next]_Menu!vars
    PROVE  CursorsOK'
<1>0. CursorsOK
  BY DEF MenuTypes
<1>1. /\ Len(Menu!Rows) \in Nat /\ Len(Menu!Group) \in 0 .. Len(Menu!Rows)
      /\ Len(Menu!LiveRows) \in 0 .. Len(Menu!Rows) /\ Menu!Rows' = Menu!Rows
  <2>1. Menu!Rows' = Menu!Rows
    BY DEF Menu!Rows, Menu!Picked, Menu!Ascending, Menu!Ordered, Menu!Table
  <2> QED
    BY <2>1, RowsOf
<1>2. ASSUME UNCHANGED <<cursor, row, group, detail>>, open' \in BOOLEAN, carried' \in BOOLEAN,
             menu' \in {"off", "library", "page", "stream"}
      PROVE  CursorsOK'
  BY <1>0, <1>1, <1>2 DEF CursorsOK
<1>3. ASSUME cursor' \in {1, cursor}, row' = 1, group' = "standard", detail' = FALSE,
             open' \in BOOLEAN, carried' \in BOOLEAN,
             menu' \in {"off", "library", "page", "stream"}
      PROVE  CursorsOK'
  BY <1>0, <1>1, <1>3, RowsInReach DEF CursorsOK
<1>4. CASE Menu!Page
  <2>1. CASE Menu!PageMove
    BY <1>0, <1>1, <1>4, <2>1, RowsInReach DEF Menu!Page, Menu!PageMove, CursorsOK
  <2>2. CASE Menu!PageExplained
    BY <1>0, <1>1, <1>4, <2>2 DEF Menu!Page, Menu!PageExplained, CursorsOK
  <2> QED
    BY <1>0, <1>2, <1>4, <2>1, <2>2
    DEF Menu!Page, Menu!PageCycle, Menu!PageSave, Menu!PageReset, Menu!Cycle, Menu!Commit,
        Menu!menu, CursorsOK
<1>5. CASE Menu!Overlay
  <2>1. CASE Menu!OverlayMove
    <3> DEFINE n == Len(Menu!LiveRows) + 2
    <3>1. n \in Nat \ {0} /\ n <= Len(Menu!Rows) + 2 /\ cursor \in Int
      BY <1>0, <1>1 DEF CursorsOK
    <3>2. cursor' \in {(cursor % n) + 1, ((cursor + n - 2) % n) + 1}
      BY <2>1 DEF Menu!OverlayMove
    <3> HIDE DEF n
    <3>3. cursor' \in 1 .. n
      BY <3>1, <3>2
    <3>4. cursor' \in 1 .. Len(Menu!Rows) + 2
      BY <1>1, <3>1, <3>3
    <3> QED
      BY <1>0, <1>1, <1>5, <2>1, <3>4 DEF Menu!Overlay, Menu!OverlayMove, CursorsOK
  <2>2. CASE Menu!OverlayOpen \/ Menu!OverlayClose
    BY <1>0, <1>1, <1>5, <2>2, RowsInReach DEF Menu!Overlay, Menu!OverlayOpen,
       Menu!OverlayClose, CursorsOK
  <2> QED
    BY <1>0, <1>2, <1>5, <2>1, <2>2
    DEF Menu!Overlay, Menu!OverlayCycle, Menu!OverlayApply, Menu!OverlaySave, Menu!Cycle,
        Menu!Commit, Menu!menu, CursorsOK
<1>6. CASE Menu!Exit \/ Menu!PageEnter \/ Menu!PageLeave
  BY <1>0, <1>3, <1>6 DEF Menu!Exit, Menu!PageEnter, Menu!PageLeave, CursorsOK
<1>7. CASE Menu!Launch \/ Menu!SaveStep \/ Menu!StreamSwitch \/ UNCHANGED Menu!vars
  BY <1>0, <1>2, <1>7 DEF Menu!Launch, Menu!SaveStep, Menu!StreamSwitch, Menu!StreamStarts,
     Menu!StreamEnds, Menu!vars, Menu!menu, CursorsOK
<1> QED
  BY <1>4, <1>5, <1>6, <1>7 DEF Menu!Next

LEMMA SavesNext ==
    ASSUME MenuTypes, [Menu!Next]_Menu!vars
    PROVE  SavesOK'
<1>0. SavesOK
  BY DEF MenuTypes
<1>1. ASSUME saver' \in {saver, "idle", "opened", "closed"}, lost' \in {lost, TRUE},
             rewritten' \subseteq KeptRows, abandoned' \subseteq KeptRows
      PROVE  SavesOK'
  BY <1>0, <1>1 DEF SavesOK
<1>2. CASE Menu!Page
  BY <1>0, <1>1, <1>2 DEF Menu!Page, Menu!PageExplained, Menu!PageMove, Menu!PageCycle,
     Menu!PageSave, Menu!PageReset, Menu!Cycle, Menu!Commit, Menu!Save, Menu!SaveNotOpened,
     Menu!store, SavesOK
<1>3. CASE Menu!Overlay
  BY <1>0, <1>1, <1>3 DEF Menu!Overlay, Menu!OverlayOpen, Menu!OverlayClose, Menu!OverlayMove,
     Menu!OverlayCycle, Menu!OverlayApply, Menu!OverlaySave, Menu!Cycle, Menu!Commit, Menu!Save,
     Menu!SaveNotOpened, Menu!store, SavesOK
<1>4. CASE Menu!Launch \/ Menu!Exit \/ Menu!SaveStep \/ Menu!PageEnter \/ Menu!PageLeave
           \/ Menu!StreamSwitch \/ UNCHANGED Menu!vars
  BY <1>0, <1>1, <1>4 DEF Menu!Launch, Menu!Exit, Menu!SaveStep, Menu!SaveClosed,
     Menu!SaveRenamed, Menu!PageEnter, Menu!PageLeave, Menu!StreamSwitch, Menu!vars, Menu!store,
     SavesOK
<1> QED
  BY <1>2, <1>3, <1>4 DEF Menu!Next

LEMMA MenuTypesInit == ASSUME Menu!OptionsAssumption, Menu!Init PROVE MenuTypes
<1>1. MenuNumbers
  BY MenuInit DEF MenuInv
<1>2. ValuesOK
  BY DefaultsChosen DEF Menu!Init, ValuesOK, Chosen
<1>3. FilesOK
  BY DEF Menu!Init, FilesOK
<1>4. CursorsOK
  BY RowsInReach DEF Menu!Init, CursorsOK
<1>5. SavesOK
  BY DEF Menu!Init, SavesOK
<1> QED
  BY <1>1, <1>2, <1>3, <1>4, <1>5 DEF MenuTypes

(* Every variable of the menu keeps its type and every setting is a choice   *)
(* of its row, for every table of settings (options_menu_input()).          *)
THEOREM MenuTypeCorrect == ASSUME Menu!OptionsAssumption PROVE Menu!Spec => []Menu!TypeOK
<1>1. Menu!Init => MenuTypes
  BY MenuTypesInit
<1>2. MenuTypes /\ [Menu!Next]_Menu!vars => MenuTypes'
  BY NumbersNext, ValuesNext, FilesNext, CursorsNext, SavesNext DEF MenuTypes
<1> QED
  BY <1>1, <1>2, MenuTypesAre, PTL DEF Menu!Spec

-----------------------------------------------------------------------------
(* The client of every part.                                                *)

LEMMA SameAudio ==
    /\ Audio!AudioAssumption <=> AudioProofs!AudioAssumption
    /\ Audio!Init <=> AudioProofs!Init
    /\ Audio!Next => AudioProofs!Next
    /\ Audio!vars = AudioProofs!vars
    /\ Audio!TypeOK <=> AudioProofs!TypeOK
    /\ Audio!SoundInPlace <=> AudioProofs!SoundInPlace
    /\ Audio!LatencyBounded <=> AudioProofs!LatencyBounded
    /\ Audio!NewStreamHeard <=> AudioProofs!NewStreamHeard
<1>1. /\ Audio!Open => AudioProofs!Open
      /\ Audio!Shutdown => AudioProofs!Shutdown
      /\ Audio!Resume => AudioProofs!Resume
  BY DEF Audio!Open, AudioProofs!Open, Audio!OpenAlsa, AudioProofs!OpenAlsa,
     Audio!OpenPcm, AudioProofs!OpenPcm, Audio!OpenDecoder,
     AudioProofs!OpenDecoder, Audio!Shutdown, AudioProofs!Shutdown, Audio!Resume,
     AudioProofs!Resume, Audio!netVars, AudioProofs!netVars, Audio!orderVars,
     AudioProofs!orderVars, Audio!cardVars, AudioProofs!cardVars
<1>2. Audio!Network => AudioProofs!Network
  <2>1. Audio!InReach => AudioProofs!InReach
    BY DEF Audio!InReach, AudioProofs!InReach, Audio!ToSet, AudioProofs!ToSet,
     Audio!Distance, AudioProofs!Distance
  <2>2. Audio!Lose => AudioProofs!Lose
    BY DEF Audio!Lose, AudioProofs!Lose, Audio!netVars, AudioProofs!netVars,
     Audio!orderVars, AudioProofs!orderVars, Audio!cardVars, AudioProofs!cardVars
  <2>3. \A back \in 0 .. Reorder : Audio!Submit(back) => AudioProofs!Submit(back)
    BY DEF Audio!Submit, AudioProofs!Submit, Audio!Queued, AudioProofs!Queued,
     Audio!netVars, AudioProofs!netVars, Audio!orderVars, AudioProofs!orderVars,
     Audio!cardVars, AudioProofs!cardVars
  <2> QED
    BY <2>1, <2>2, <2>3 DEF Audio!Network, AudioProofs!Network
<1>3. /\ Audio!Take => AudioProofs!Take
      /\ Audio!StartOver => AudioProofs!StartOver
      /\ Audio!Tick => AudioProofs!Tick
  BY DEF Audio!Take, AudioProofs!Take, Audio!StartOver, AudioProofs!StartOver,
     Audio!Tick, AudioProofs!Tick, Audio!Older, AudioProofs!Older, Audio!Aged,
     AudioProofs!Aged, Audio!Least, AudioProofs!Least, Audio!netVars,
     AudioProofs!netVars, Audio!orderVars, AudioProofs!orderVars, Audio!cardVars,
     AudioProofs!cardVars
<1>4. Audio!Play => AudioProofs!Play
  <2>1. \A b, p : Audio!Push(b, p) = AudioProofs!Push(b, p)
    BY DEF Audio!Push, AudioProofs!Push, Audio!Before, AudioProofs!Before,
     Audio!Distance, AudioProofs!Distance
  <2>2. Audio!Pushed = AudioProofs!Pushed
    BY <2>1 DEF Audio!Pushed, AudioProofs!Pushed, Audio!PushedUpTo, AudioProofs!PushedUpTo
  <2>3. \A b : Audio!Pop(b) = AudioProofs!Pop(b)
    BY DEF Audio!Pop, AudioProofs!Pop, Audio!Before, AudioProofs!Before, Audio!Distance,
     AudioProofs!Distance, Audio!Earliest, AudioProofs!Earliest, Audio!GivesUp,
     AudioProofs!GivesUp, Audio!Cardinality, AudioProofs!Cardinality,
     Audio!Concealed, AudioProofs!Concealed, Audio!Least, AudioProofs!Least
  <2>4. Audio!Popping = AudioProofs!Popping
    BY <2>2 DEF Audio!Popping, AudioProofs!Popping
  <2>5. Audio!Popped = AudioProofs!Popped
    <3>1. Audio!Cardinality(Audio!Pushed.pending) = AudioProofs!Cardinality(AudioProofs!Pushed.pending)
      BY <2>2 DEF Audio!Cardinality, AudioProofs!Cardinality
    <3>2. Audio!PoppedUpTo = AudioProofs!PoppedUpTo
      BY <2>3, <2>4, <3>1 DEF Audio!PoppedUpTo, AudioProofs!PoppedUpTo
    <3> QED
      BY <3>1, <3>2 DEF Audio!Popped, AudioProofs!Popped
  <2>6. \A b : Audio!Skew(b) = AudioProofs!Skew(b)
    BY <2>2 DEF Audio!Skew, AudioProofs!Skew, Audio!Distance, AudioProofs!Distance
  <2>7. \A sound : Audio!Feed(sound) => AudioProofs!Feed(sound)
    BY DEF Audio!Feed, AudioProofs!Feed, Audio!Lost, AudioProofs!Lost, Audio!Written,
     AudioProofs!Written, Audio!Trimmed, AudioProofs!Trimmed, Audio!Least,
     AudioProofs!Least, Audio!StartAt, AudioProofs!StartAt
  <2>8. \A n : Audio!Decoded(n) = AudioProofs!Decoded(n)
    BY DEF Audio!Decoded, AudioProofs!Decoded
  <2> QED
    BY <2>2, <2>5, <2>6, <2>7, <2>8 DEF Audio!Play, AudioProofs!Play,
       Audio!netVars, AudioProofs!netVars
<1>5. /\ Audio!AudioAssumption <=> AudioProofs!AudioAssumption
      /\ Audio!Init <=> AudioProofs!Init
      /\ Audio!vars = AudioProofs!vars
  BY DEF Audio!AudioAssumption, AudioProofs!AudioAssumption, Audio!Init,
     AudioProofs!Init, Audio!vars, AudioProofs!vars, Audio!netVars,
     AudioProofs!netVars, Audio!orderVars, AudioProofs!orderVars, Audio!cardVars,
     AudioProofs!cardVars
<1>6. Audio!TypeOK <=> AudioProofs!TypeOK
  BY DEF Audio!TypeOK, AudioProofs!TypeOK, Audio!Packets, AudioProofs!Packets
<1>7. /\ Audio!SoundInPlace <=> AudioProofs!SoundInPlace
      /\ Audio!LatencyBounded <=> AudioProofs!LatencyBounded
      /\ Audio!NewStreamHeard <=> AudioProofs!NewStreamHeard
  BY DEF Audio!SoundInPlace, AudioProofs!SoundInPlace, Audio!LatencyBounded,
     AudioProofs!LatencyBounded, Audio!NewStreamHeard, AudioProofs!NewStreamHeard
<1> QED
  BY <1>1, <1>2, <1>3, <1>4, <1>5, <1>6, <1>7 DEF Audio!Next, AudioProofs!Next

LEMMA PartsInit ==
    ClientInit => /\ Init /\ Audio!Init /\ Names!Init /\ Art!Init
                  /\ Library!Init /\ Menu!Init /\ Pad!Init /\ Taps!Init
  BY DEF ClientInit

LEMMA PartsStep ==
    ASSUME [ClientNext]_clientVars
    PROVE  /\ [Next]_vars /\ [Audio!Next]_Audio!vars /\ [Names!Next]_Names!vars
           /\ [Art!Next]_Art!vars /\ [Library!Next]_Library!vars /\ [Menu!Next]_Menu!vars
           /\ [Pad!Next]_Pad!vars /\ [Taps!Next]_Taps!vars
<1>1. UNCHANGED audioVars => UNCHANGED Audio!vars
  BY DEF audioVars, Audio!vars, Audio!netVars, Audio!orderVars, Audio!cardVars
<1>2. UNCHANGED nameVars => UNCHANGED Names!vars
  BY DEF nameVars, Names!vars, Names!diskVars, Names!workVars, Names!askVars,
         Names!cacheVars, Names!mainVars
<1>3. UNCHANGED artVars => UNCHANGED Art!vars
  BY DEF artVars, Art!vars, Art!mainVars, Art!workVars
<1>4. UNCHANGED libraryVars => UNCHANGED Library!vars
  BY DEF libraryVars, Library!vars, Library!workVars, Library!dataVars,
         Library!viewVars, Library!listVars, Library!searchVars
<1>5. UNCHANGED menuVars => UNCHANGED Menu!vars
  BY DEF menuVars, Menu!vars, Menu!store, Menu!menu
<1>6. UNCHANGED padVars => UNCHANGED Pad!vars
  BY DEF padVars, Pad!vars, Pad!overlayVars
<1>7. UNCHANGED tapVars => UNCHANGED Taps!vars
  BY DEF tapVars, Taps!vars
<1> QED
  BY <1>1, <1>2, <1>3, <1>4, <1>5, <1>6, <1>7 DEF ClientNext, clientVars

(* The parts share no variable: the client is a run of each of them, side by *)
(* side, whatever they do (each has its own threads and its own state; what  *)
(* passes between them is an input of the one that gets it).                 *)
THEOREM PartsRunApart ==
    ClientSpec => /\ Spec /\ Audio!Spec /\ Names!Spec /\ Art!Spec
                  /\ Library!Spec /\ Menu!Spec /\ Pad!Spec /\ Taps!Spec
  BY PartsInit, PartsStep, PTL DEF ClientSpec, Spec, Audio!Spec, Names!Spec, Art!Spec,
     Library!Spec, Menu!Spec, Pad!Spec, Taps!Spec

LEMMA AudioRuns == Audio!Spec => AudioProofs!Spec
<1>1. Audio!Init => AudioProofs!Init
  BY SameAudio
<1>2. [Audio!Next]_Audio!vars => [AudioProofs!Next]_AudioProofs!vars
  BY SameAudio DEF Audio!netVars, AudioProofs!netVars, Audio!orderVars, AudioProofs!orderVars,
     Audio!cardVars, AudioProofs!cardVars, Audio!vars, AudioProofs!vars
<1> QED
  BY <1>1, <1>2, PTL DEF Audio!Spec, AudioProofs!Spec

(* The library screen of the client is the one LibraryScreenProofs is about: *)
(* what its definitions are built from, ...                                 *)
LEMMA SameTools ==
    /\ \A A : Library!Min(A) = LibraryProofs!Min(A)
    /\ \A A : Library!Max(A) = LibraryProofs!Max(A)
    /\ \A A : Library!Range(A) = LibraryProofs!Range(A)
    /\ \A A : Library!Cardinality(A) = LibraryProofs!Cardinality(A)
    /\ \A A, before : Library!Ordered(A, before) = LibraryProofs!Ordered(A, before)
    /\ \A A : Library!Ascending(A) = LibraryProofs!Ascending(A)
    /\ \A s, places : Library!Picked(s, places) = LibraryProofs!Picked(s, places)
    /\ \A catalog, known : Library!Sorted(catalog, known) = LibraryProofs!Sorted(catalog, known)
    /\ Library!Tabs = LibraryProofs!Tabs
    /\ Library!Tools = LibraryProofs!Tools
    /\ Library!Queries = LibraryProofs!Queries
    /\ Library!Selectable = LibraryProofs!Selectable
    /\ \A A : Library!First(A) = LibraryProofs!First(A)
    /\ \A rs : Library!Openable(rs) = LibraryProofs!Openable(rs)
    /\ \A rs, gs, i : Library!TitleOf(rs, gs, i) = LibraryProofs!TitleOf(rs, gs, i)
    /\ \A rs, gs, id, sec :
         Library!KeptCursor(rs, gs, id, sec) = LibraryProofs!KeptCursor(rs, gs, id, sec)
    /\ \A rs, height, f, s :
         Library!VisibleFrom(rs, height, f, s) = LibraryProofs!VisibleFrom(rs, height, f, s)
    /\ \A seq, x, dir : Library!Turned(seq, x, dir) = LibraryProofs!Turned(seq, x, dir)
<1>1. \A A : Library!Min(A) = LibraryProofs!Min(A)
  BY DEF Library!Min, LibraryProofs!Min
<1>2. \A A : Library!Max(A) = LibraryProofs!Max(A)
  BY DEF Library!Max, LibraryProofs!Max
<1>3. \A A : Library!Range(A) = LibraryProofs!Range(A)
  BY DEF Library!Range, LibraryProofs!Range
<1>4. \A A : Library!Cardinality(A) = LibraryProofs!Cardinality(A)
  BY DEF Library!Cardinality, LibraryProofs!Cardinality, Library!IsFiniteSet,
     LibraryProofs!IsFiniteSet
<1>5. \A A, before : Library!Ordered(A, before) = LibraryProofs!Ordered(A, before)
  BY <1>4 DEF Library!Ordered, LibraryProofs!Ordered
<1>6. \A A : Library!Ascending(A) = LibraryProofs!Ascending(A)
  BY <1>5 DEF Library!Ascending, LibraryProofs!Ascending
<1>7. \A s, places : Library!Picked(s, places) = LibraryProofs!Picked(s, places)
  BY <1>6 DEF Library!Picked, LibraryProofs!Picked
<1>8. \A catalog, known : Library!Sorted(catalog, known) = LibraryProofs!Sorted(catalog, known)
  BY <1>5 DEF Library!Sorted, LibraryProofs!Sorted, Library!KeyOf, LibraryProofs!KeyOf
<1>9. Library!Tabs = LibraryProofs!Tabs
  BY DEF Library!Tabs, LibraryProofs!Tabs
<1>10. Library!Tools = LibraryProofs!Tools
  BY DEF Library!Tools, LibraryProofs!Tools
<1>11. Library!Queries = LibraryProofs!Queries
  BY DEF Library!Queries, LibraryProofs!Queries
<1>12. Library!Selectable = LibraryProofs!Selectable
  BY DEF Library!Selectable, LibraryProofs!Selectable
<1>13. \A A : Library!First(A) = LibraryProofs!First(A)
  BY <1>1 DEF Library!First, LibraryProofs!First
<1>14. \A rs : Library!Openable(rs) = LibraryProofs!Openable(rs)
  BY <1>12 DEF Library!Openable, LibraryProofs!Openable
<1>15. \A rs, gs, i : Library!TitleOf(rs, gs, i) = LibraryProofs!TitleOf(rs, gs, i)
  BY DEF Library!TitleOf, LibraryProofs!TitleOf
<1>16. \A rs, gs, id, sec :
     Library!KeptCursor(rs, gs, id, sec) = LibraryProofs!KeptCursor(rs, gs, id, sec)
  BY DEF Library!KeptCursor, LibraryProofs!KeptCursor, Library!TitleOf,
     LibraryProofs!TitleOf, Library!Min, LibraryProofs!Min, Library!First,
     LibraryProofs!First, Library!Openable, LibraryProofs!Openable, Library!Selectable,
     LibraryProofs!Selectable
<1>17. \A rs, height, f, s :
     Library!VisibleFrom(rs, height, f, s) = LibraryProofs!VisibleFrom(rs, height, f, s)
  BY DEF Library!VisibleFrom, LibraryProofs!VisibleFrom, Library!Min, LibraryProofs!Min,
     Library!Fits, LibraryProofs!Fits, Library!Cardinality, LibraryProofs!Cardinality,
     Library!IsFiniteSet, LibraryProofs!IsFiniteSet
<1>18. \A seq, x, dir : Library!Turned(seq, x, dir) = LibraryProofs!Turned(seq, x, dir)
  BY DEF Library!Turned, LibraryProofs!Turned
<1> QED BY <1>1, <1>2, <1>3, <1>4, <1>5, <1>6, <1>7, <1>8, <1>9, <1>10, <1>11, <1>12,
   <1>13, <1>14, <1>15, <1>16, <1>17, <1>18

(* ... what it shows now and after a step, ...                              *)
LEMMA SameViews ==
    /\ \A t : Library!LetterOf(t) = LibraryProofs!LetterOf(t)
    /\ \A t, g : Library!InGenre(t, g) = LibraryProofs!InGenre(t, g)
    /\ Library!LetterTabs = LibraryProofs!LetterTabs
    /\ Library!Genres = LibraryProofs!Genres
    /\ \A n, ids : Library!RowsWith(n, ids) = LibraryProofs!RowsWith(n, ids)
    /\ Library!BuiltRows = LibraryProofs!BuiltRows
    /\ Library!Height = LibraryProofs!Height
    /\ Library!HasStrip = LibraryProofs!HasStrip
    /\ Library!GenreStripShowing = LibraryProofs!GenreStripShowing
    /\ \A i : Library!Title(i) = LibraryProofs!Title(i)
    /\ \A i : Library!SectionOf(i) = LibraryProofs!SectionOf(i)
    /\ \A t : Library!Shown(t) = LibraryProofs!Shown(t)
    /\ Library!OnGenreRow = LibraryProofs!OnGenreRow
    /\ Library!Page = LibraryProofs!Page
    /\ \A i, dir : Library!NextRow(i, dir) = LibraryProofs!NextRow(i, dir)
    /\ \A dir, n : Library!Stepped(dir, n) = LibraryProofs!Stepped(dir, n)
    /\ \A presses : Library!TypedBy(presses) = LibraryProofs!TypedBy(presses)
    /\ \A n, wait, ids : Library!RowsRead(n, wait, ids) = LibraryProofs!RowsRead(n, wait, ids)
    /\ \A rs, list : Library!PastEnd(rs, list) <=> LibraryProofs!PastEnd(rs, list)
    /\ \A rs, list : Library!TitlesRead(rs, list) = LibraryProofs!TitlesRead(rs, list)
    /\ \A rs : Library!SectionRead(rs) = LibraryProofs!SectionRead(rs)
    /\ \A t : Library!RecentWith(t) = LibraryProofs!RecentWith(t)
<1>1. \A t : Library!LetterOf(t) = LibraryProofs!LetterOf(t)
  BY DEF Library!LetterOf, LibraryProofs!LetterOf
<1>2. \A t, g : Library!InGenre(t, g) = LibraryProofs!InGenre(t, g)
  BY DEF Library!InGenre, LibraryProofs!InGenre
<1>3. Library!LetterTabs = LibraryProofs!LetterTabs
  BY SameTools, <1>1 DEF Library!LetterTabs, LibraryProofs!LetterTabs
<1>4. Library!Genres = LibraryProofs!Genres
  BY SameTools, <1>2 DEF Library!Genres, LibraryProofs!Genres
<1>5. \A n, ids : Library!RowsWith(n, ids) = LibraryProofs!RowsWith(n, ids)
  <2>1. \A ids : Library!Places(ids) = LibraryProofs!Places(ids)
    BY SameTools DEF Library!Places, LibraryProofs!Places
  <2>2. \A n, ids : Library!HomeRows(n, ids) = LibraryProofs!HomeRows(n, ids)
    BY <2>1 DEF Library!HomeRows, LibraryProofs!HomeRows, Library!Section,
       LibraryProofs!Section, Library!Row, LibraryProofs!Row, Library!Entries,
       LibraryProofs!Entries, Library!Note, LibraryProofs!Note, Library!GameRows,
       LibraryProofs!GameRows
  <2>3. Library!ListRows = LibraryProofs!ListRows
    BY SameTools, <1>1, <1>2 DEF Library!ListRows, LibraryProofs!ListRows,
       Library!Section, LibraryProofs!Section, Library!Row, LibraryProofs!Row,
       Library!GameRows, LibraryProofs!GameRows, Library!Listed, LibraryProofs!Listed
  <2> QED
    BY SameTools, <1>4, <2>2, <2>3 DEF Library!RowsWith, LibraryProofs!RowsWith,
       Library!Section, LibraryProofs!Section, Library!Row, LibraryProofs!Row,
       Library!Entries, LibraryProofs!Entries, Library!Note, LibraryProofs!Note
<1>6. Library!Height = LibraryProofs!Height
  BY DEF Library!Height, LibraryProofs!Height, Library!LettersShowing,
     LibraryProofs!LettersShowing, Library!GenreStripShowing,
     LibraryProofs!GenreStripShowing
<1>7. Library!HasStrip = LibraryProofs!HasStrip
  <2>1. Library!LettersShowing = LibraryProofs!LettersShowing
    BY DEF Library!LettersShowing, LibraryProofs!LettersShowing
  <2>2. Library!GenreStripShowing = LibraryProofs!GenreStripShowing
    BY DEF Library!GenreStripShowing, LibraryProofs!GenreStripShowing
  <2> QED
    BY <1>3, <2>1, <2>2 DEF Library!HasStrip, LibraryProofs!HasStrip
<1>8. Library!GenreStripShowing = LibraryProofs!GenreStripShowing
  BY DEF Library!GenreStripShowing, LibraryProofs!GenreStripShowing
<1>9. \A i : Library!Title(i) = LibraryProofs!Title(i)
  BY SameTools DEF Library!Title, LibraryProofs!Title
<1>10. \A i : Library!SectionOf(i) = LibraryProofs!SectionOf(i)
  BY <1>9 DEF Library!SectionOf, LibraryProofs!SectionOf
<1>11. \A t : Library!Shown(t) = LibraryProofs!Shown(t)
  BY <1>9 DEF Library!Shown, LibraryProofs!Shown
<1>12. Library!OnGenreRow = LibraryProofs!OnGenreRow
  BY DEF Library!OnGenreRow, LibraryProofs!OnGenreRow
<1>13. Library!Page = LibraryProofs!Page
  BY <1>6 DEF Library!Page, LibraryProofs!Page
<1>14. \A i, dir : Library!NextRow(i, dir) = LibraryProofs!NextRow(i, dir)
  BY SameTools DEF Library!NextRow, LibraryProofs!NextRow
<1>15. \A dir, n : Library!Stepped(dir, n) = LibraryProofs!Stepped(dir, n)
  BY DEF Library!Stepped, LibraryProofs!Stepped, Library!NextRow, LibraryProofs!NextRow,
     Library!Openable, LibraryProofs!Openable, Library!Selectable,
     LibraryProofs!Selectable, Library!Min, LibraryProofs!Min, Library!Max,
     LibraryProofs!Max
<1>16. \A presses : Library!TypedBy(presses) = LibraryProofs!TypedBy(presses)
  BY SameTools DEF Library!TypedBy, LibraryProofs!TypedBy, Library!Front,
     LibraryProofs!Front
<1>17. Library!BuiltRows = LibraryProofs!BuiltRows
  BY <1>5 DEF Library!BuiltRows, LibraryProofs!BuiltRows
<1>18. \A n, wait, ids : Library!RowsRead(n, wait, ids) = LibraryProofs!RowsRead(n, wait, ids)
  BY <1>5 DEF Library!RowsRead, LibraryProofs!RowsRead
<1>19. \A rs, list : Library!PastEnd(rs, list) <=> LibraryProofs!PastEnd(rs, list)
  BY SameTools DEF Library!PastEnd, LibraryProofs!PastEnd, Library!IndexRead,
     LibraryProofs!IndexRead
<1>20. \A rs, list : Library!TitlesRead(rs, list) = LibraryProofs!TitlesRead(rs, list)
  BY <1>19 DEF Library!TitlesRead, LibraryProofs!TitlesRead, Library!IndexRead,
     LibraryProofs!IndexRead
<1>21. \A rs : Library!SectionRead(rs) = LibraryProofs!SectionRead(rs)
  BY DEF Library!SectionRead, LibraryProofs!SectionRead, Library!IndexRead,
     LibraryProofs!IndexRead
<1>22. \A t : Library!RecentWith(t) = LibraryProofs!RecentWith(t)
  BY SameTools DEF Library!RecentWith, LibraryProofs!RecentWith
<1> QED BY <1>1, <1>2, <1>3, <1>4, <1>5, <1>6, <1>7, <1>8, <1>9, <1>10, <1>11, <1>12,
   <1>13, <1>14, <1>15, <1>16, <1>17, <1>18, <1>19, <1>20, <1>21, <1>22

LEMMA SameViewsAfter ==
   (/\ \A t : Library!LetterOf(t) = LibraryProofs!LetterOf(t)
    /\ \A t, g : Library!InGenre(t, g) = LibraryProofs!InGenre(t, g)
    /\ Library!LetterTabs = LibraryProofs!LetterTabs
    /\ Library!Genres = LibraryProofs!Genres
    /\ \A n, ids : Library!RowsWith(n, ids) = LibraryProofs!RowsWith(n, ids)
    /\ Library!BuiltRows = LibraryProofs!BuiltRows
    /\ Library!Height = LibraryProofs!Height
    /\ Library!HasStrip = LibraryProofs!HasStrip
    /\ Library!GenreStripShowing = LibraryProofs!GenreStripShowing
    /\ \A i : Library!Title(i) = LibraryProofs!Title(i)
    /\ \A i : Library!SectionOf(i) = LibraryProofs!SectionOf(i)
    /\ \A t : Library!Shown(t) = LibraryProofs!Shown(t)
    /\ Library!OnGenreRow = LibraryProofs!OnGenreRow
    /\ Library!Page = LibraryProofs!Page
    /\ \A i, dir : Library!NextRow(i, dir) = LibraryProofs!NextRow(i, dir)
    /\ \A dir, n : Library!Stepped(dir, n) = LibraryProofs!Stepped(dir, n)
    /\ \A presses : Library!TypedBy(presses) = LibraryProofs!TypedBy(presses)
    /\ \A n, wait, ids : Library!RowsRead(n, wait, ids) = LibraryProofs!RowsRead(n, wait, ids)
    /\ \A rs, list : Library!PastEnd(rs, list) <=> LibraryProofs!PastEnd(rs, list)
    /\ \A rs, list : Library!TitlesRead(rs, list) = LibraryProofs!TitlesRead(rs, list)
    /\ \A rs : Library!SectionRead(rs) = LibraryProofs!SectionRead(rs)
    /\ \A t : Library!RecentWith(t) = LibraryProofs!RecentWith(t))'
  BY SameViews, PTL

(* ... its steps, ...                                                       *)
LEMMA SameSteps == Library!Next => LibraryProofs!Next
<1>1. \A id, sec, f : Library!Rebuild(id, sec, f) => LibraryProofs!Rebuild(id, sec, f)
  BY SameTools, SameViews, SameViewsAfter DEF Library!Rebuild, LibraryProofs!Rebuild
<1>2. \A keep, sec : Library!Resort(keep, sec) => LibraryProofs!Resort(keep, sec)
  BY SameTools, SameViews, SameViewsAfter, <1>1 DEF Library!Resort,
     LibraryProofs!Resort, Library!LetterKept, LibraryProofs!LetterKept
<1>3. Library!Work => LibraryProofs!Work
  BY DEF Library!Work, LibraryProofs!Work, Library!Running, LibraryProofs!Running,
     Library!CatalogFetched,
     LibraryProofs!CatalogFetched, Library!FetchedCatalogs,
     LibraryProofs!FetchedCatalogs, Library!ConsolesFetched,
     LibraryProofs!ConsolesFetched, Library!FoundConsoles, LibraryProofs!FoundConsoles,
     Library!dataVars, LibraryProofs!dataVars, Library!viewVars, LibraryProofs!viewVars,
     Library!listVars, LibraryProofs!listVars, Library!searchVars,
     LibraryProofs!searchVars
<1>4. Library!Pump => LibraryProofs!Pump
  BY SameTools, SameViews, SameViewsAfter, <1>2 DEF Library!Pump, LibraryProofs!Pump,
     Library!searchVars, LibraryProofs!searchVars, Library!NamesArrive,
     LibraryProofs!NamesArrive, Library!Quiet, LibraryProofs!Quiet, Library!Refresh,
     LibraryProofs!Refresh, Library!TakeConsoles, LibraryProofs!TakeConsoles,
     Library!FoundSoFar, LibraryProofs!FoundSoFar, Library!Running,
     LibraryProofs!Running, Library!RebuildInPlace, LibraryProofs!RebuildInPlace,
     Library!TakeCatalog, LibraryProofs!TakeCatalog,
     Library!NothingArrives, LibraryProofs!NothingArrives, Library!dataVars,
     LibraryProofs!dataVars, Library!listVars, LibraryProofs!listVars
<1>5. Library!Nothing => LibraryProofs!Nothing
  BY DEF Library!Nothing, LibraryProofs!Nothing, Library!viewVars,
     LibraryProofs!viewVars, Library!listVars, LibraryProofs!listVars, Library!OnList,
     LibraryProofs!OnList, Library!searchVars, LibraryProofs!searchVars,
     Library!dataVars, LibraryProofs!dataVars
<1>6. \A band : Library!FocusOn(band) => LibraryProofs!FocusOn(band)
  BY DEF Library!FocusOn, LibraryProofs!FocusOn, Library!viewVars,
     LibraryProofs!viewVars, Library!listVars, LibraryProofs!listVars, Library!OnList,
     LibraryProofs!OnList, Library!searchVars, LibraryProofs!searchVars,
     Library!dataVars, LibraryProofs!dataVars
<1>7. Library!FocusDown => LibraryProofs!FocusDown
  BY SameTools, SameViews, SameViewsAfter DEF Library!FocusDown,
     LibraryProofs!FocusDown, Library!ToStrip, LibraryProofs!ToStrip, Library!viewVars,
     LibraryProofs!viewVars, Library!listVars, LibraryProofs!listVars, Library!OnList,
     LibraryProofs!OnList, Library!searchVars, LibraryProofs!searchVars,
     Library!dataVars, LibraryProofs!dataVars, Library!ToPage, LibraryProofs!ToPage,
     Library!ToList, LibraryProofs!ToList
<1>8. Library!NewList => LibraryProofs!NewList
  BY <1>1 DEF Library!NewList, LibraryProofs!NewList
<1>9. \A dir : Library!TabStep(dir) => LibraryProofs!TabStep(dir)
  BY SameTools, SameViews, SameViewsAfter, <1>8 DEF Library!TabStep,
     LibraryProofs!TabStep, Library!OnList, LibraryProofs!OnList, Library!searchVars,
     LibraryProofs!searchVars, Library!dataVars, LibraryProofs!dataVars
<1>10. Library!LeaveGenre => LibraryProofs!LeaveGenre
  BY SameTools, SameViews, SameViewsAfter DEF Library!LeaveGenre,
     LibraryProofs!LeaveGenre, Library!OnList, LibraryProofs!OnList, Library!searchVars,
     LibraryProofs!searchVars, Library!dataVars, LibraryProofs!dataVars
<1>11. \A b : Library!TabsHandle(b) => LibraryProofs!TabsHandle(b)
  BY <1>5, <1>7, <1>9 DEF Library!TabsHandle, LibraryProofs!TabsHandle
<1>12. \A b : Library!StripHandle(b) => LibraryProofs!StripHandle(b)
  BY SameTools, SameViews, SameViewsAfter, <1>5, <1>6, <1>7, <1>8, <1>10 DEF
     Library!StripHandle, LibraryProofs!StripHandle, Library!StripLeavesGenre,
     LibraryProofs!StripLeavesGenre, Library!StripTurnsPage,
     LibraryProofs!StripTurnsPage, Library!viewVars, LibraryProofs!viewVars,
     Library!listVars, LibraryProofs!listVars, Library!OnList, LibraryProofs!OnList,
     Library!searchVars, LibraryProofs!searchVars, Library!dataVars,
     LibraryProofs!dataVars, Library!StripTurnsLetter, LibraryProofs!StripTurnsLetter
<1>13. \A b : Library!PageHandle(b) => LibraryProofs!PageHandle(b)
  BY DEF Library!PageHandle, LibraryProofs!PageHandle, Library!viewVars,
     LibraryProofs!viewVars, Library!listVars, LibraryProofs!listVars, Library!OnList,
     LibraryProofs!OnList, Library!searchVars, LibraryProofs!searchVars,
     Library!dataVars, LibraryProofs!dataVars
<1>14. \A i : Library!MoveTo(i) => LibraryProofs!MoveTo(i)
  BY SameTools, SameViews, SameViewsAfter DEF Library!MoveTo, LibraryProofs!MoveTo,
     Library!viewVars, LibraryProofs!viewVars, Library!OnList, LibraryProofs!OnList,
     Library!searchVars, LibraryProofs!searchVars, Library!dataVars,
     LibraryProofs!dataVars
<1>15. Library!OpenSearch => LibraryProofs!OpenSearch
  BY SameTools, SameViews, SameViewsAfter DEF Library!OpenSearch,
     LibraryProofs!OpenSearch, Library!viewVars, LibraryProofs!viewVars,
     Library!dataVars, LibraryProofs!dataVars, Library!Scroll, LibraryProofs!Scroll
<1>16. Library!StartSettings => LibraryProofs!StartSettings
  BY <1>1 DEF Library!StartSettings, LibraryProofs!StartSettings, Library!OnList,
     LibraryProofs!OnList, Library!searchVars, LibraryProofs!searchVars,
     Library!dataVars, LibraryProofs!dataVars
<1>17. Library!EnterGenre => LibraryProofs!EnterGenre
  BY SameViews, SameViewsAfter, <1>8 DEF Library!EnterGenre, LibraryProofs!EnterGenre,
     Library!OnList, LibraryProofs!OnList, Library!searchVars, LibraryProofs!searchVars,
     Library!dataVars, LibraryProofs!dataVars
<1>18. Library!Launch => LibraryProofs!Launch
  BY SameTools, SameViews, SameViewsAfter, <1>1, <1>5, <1>17 DEF Library!Launch,
     LibraryProofs!Launch, Library!LaunchTool, LibraryProofs!LaunchTool,
     Library!viewVars, LibraryProofs!viewVars, Library!listVars, LibraryProofs!listVars,
     Library!searchVars, LibraryProofs!searchVars, Library!dataVars,
     LibraryProofs!dataVars, Library!workVars, LibraryProofs!workVars,
     Library!LaunchConsole, LibraryProofs!LaunchConsole, Library!LaunchGame,
     LibraryProofs!LaunchGame, Library!WaitForRefresh, LibraryProofs!WaitForRefresh,
     Library!Awaited, LibraryProofs!Awaited, Library!FetchedCatalogs,
     LibraryProofs!FetchedCatalogs, Library!LetterKept, LibraryProofs!LetterKept
<1>19. \A b : Library!ListHandle(b) => LibraryProofs!ListHandle(b)
  BY SameTools, SameViews, SameViewsAfter, <1>5, <1>6, <1>10, <1>14, <1>15, <1>16,
     <1>17, <1>18 DEF Library!ListHandle, LibraryProofs!ListHandle, Library!workVars,
     LibraryProofs!workVars
<1>20. Library!Back => LibraryProofs!Back
  BY SameViews, SameViewsAfter, <1>1, <1>10 DEF Library!Back, LibraryProofs!Back,
     Library!LeaveSettings, LibraryProofs!LeaveSettings, Library!OnList,
     LibraryProofs!OnList, Library!searchVars, LibraryProofs!searchVars,
     Library!dataVars, LibraryProofs!dataVars, Library!LeaveSearch,
     LibraryProofs!LeaveSearch, Library!LeaveScreen, LibraryProofs!LeaveScreen,
     Library!viewVars, LibraryProofs!viewVars, Library!listVars, LibraryProofs!listVars
<1>21. \A b : Library!OnScreen(b) => LibraryProofs!OnScreen(b)
  BY <1>9, <1>11, <1>12, <1>13, <1>19, <1>20 DEF Library!OnScreen,
     LibraryProofs!OnScreen, Library!workVars, LibraryProofs!workVars
<1>22. \A presses : Library!Search(presses) => LibraryProofs!Search(presses)
  BY SameTools, SameViews, SameViewsAfter, <1>1 DEF Library!Search,
     LibraryProofs!Search, Library!Front, LibraryProofs!Front, Library!dataVars,
     LibraryProofs!dataVars, Library!workVars, LibraryProofs!workVars,
     Library!SearchList, LibraryProofs!SearchList, Library!listVars,
     LibraryProofs!listVars
<1>23. Library!Input => LibraryProofs!Input
  BY SameTools, <1>5, <1>21, <1>22 DEF Library!Input, LibraryProofs!Input,
     Library!Running, LibraryProofs!Running, Library!Buttons, LibraryProofs!Buttons,
     Library!workVars, LibraryProofs!workVars
<1>24. Library!Crash => LibraryProofs!Crash
  BY DEF Library!Crash, LibraryProofs!Crash, Library!dataVars, LibraryProofs!dataVars,
     Library!viewVars, LibraryProofs!viewVars, Library!listVars, LibraryProofs!listVars,
     Library!searchVars, LibraryProofs!searchVars, Library!workVars,
     LibraryProofs!workVars
<1>25. Library!RefreshCrashes => LibraryProofs!RefreshCrashes
  BY SameViews, <1>24 DEF Library!RefreshCrashes, LibraryProofs!RefreshCrashes,
     Library!Running, LibraryProofs!Running, Library!FoundSoFar, LibraryProofs!FoundSoFar
<1>26. Library!LaunchCrashes => LibraryProofs!LaunchCrashes
  BY SameViews, <1>24 DEF Library!LaunchCrashes, LibraryProofs!LaunchCrashes,
     Library!Running, LibraryProofs!Running, Library!Awaited, LibraryProofs!Awaited,
     Library!FetchedCatalogs, LibraryProofs!FetchedCatalogs
<1>27. Library!Next => LibraryProofs!Next
  BY <1>3, <1>4, <1>23, <1>25, <1>26 DEF Library!Next, LibraryProofs!Next,
     Library!Running, LibraryProofs!Running, Library!Left,
     LibraryProofs!Left, Library!vars, LibraryProofs!vars, Library!dataVars,
     LibraryProofs!dataVars, Library!viewVars, LibraryProofs!viewVars, Library!listVars,
     LibraryProofs!listVars, Library!searchVars, LibraryProofs!searchVars,
     Library!workVars, LibraryProofs!workVars
<1> QED BY <1>27

(* ... and what is said of it.                                              *)
LEMMA SameFacts ==
    /\ Library!vars = LibraryProofs!vars
    /\ Library!LibraryAssumption <=> LibraryProofs!LibraryAssumption
    /\ Library!Init <=> LibraryProofs!Init
    /\ Library!TypeOK <=> LibraryProofs!TypeOK
    /\ Library!RowsShowModel <=> LibraryProofs!RowsShowModel
    /\ Library!CursorOnEntry <=> LibraryProofs!CursorOnEntry
    /\ Library!CursorVisible <=> LibraryProofs!CursorVisible
<1>1. Library!vars = LibraryProofs!vars
  BY DEF Library!vars, LibraryProofs!vars, Library!dataVars, LibraryProofs!dataVars,
     Library!viewVars, LibraryProofs!viewVars, Library!listVars, LibraryProofs!listVars,
     Library!searchVars, LibraryProofs!searchVars, Library!workVars,
     LibraryProofs!workVars
<1>2. Library!LibraryAssumption <=> LibraryProofs!LibraryAssumption
  BY SameTools DEF Library!LibraryAssumption, LibraryProofs!LibraryAssumption,
     Library!IsFiniteSet, LibraryProofs!IsFiniteSet, Library!Front, LibraryProofs!Front
<1>3. Library!Init <=> LibraryProofs!Init
  BY SameTools, SameViews DEF Library!Init, LibraryProofs!Init
<1>4. Library!TypeOK <=> LibraryProofs!TypeOK
  BY SameTools, SameViews DEF Library!TypeOK, LibraryProofs!TypeOK, Library!Letters,
     LibraryProofs!Letters, Library!RowType, LibraryProofs!RowType
<1>5. Library!RowsShowModel <=> LibraryProofs!RowsShowModel
  BY SameViews DEF Library!RowsShowModel, LibraryProofs!RowsShowModel
<1>6. Library!CursorOnEntry <=> LibraryProofs!CursorOnEntry
  BY SameTools DEF Library!CursorOnEntry, LibraryProofs!CursorOnEntry
<1>7. Library!CursorVisible <=> LibraryProofs!CursorVisible
  BY SameTools, SameViews DEF Library!CursorVisible, LibraryProofs!CursorVisible,
     Library!Fits, LibraryProofs!Fits
<1> QED BY <1>1, <1>2, <1>3, <1>4, <1>5, <1>6, <1>7

LEMMA LibraryRuns == Library!Spec => LibraryProofs!Spec
<1>1. Library!Init => LibraryProofs!Init
  BY SameFacts
<1>2. [Library!Next]_Library!vars => [LibraryProofs!Next]_LibraryProofs!vars
  BY SameSteps DEF Library!vars, LibraryProofs!vars, Library!dataVars, LibraryProofs!dataVars,
     Library!viewVars, LibraryProofs!viewVars, Library!listVars, LibraryProofs!listVars,
     Library!searchVars, LibraryProofs!searchVars, Library!workVars, LibraryProofs!workVars
<1> QED
  BY <1>1, <1>2, PTL DEF Library!Spec, LibraryProofs!Spec

(* The client's sound stays in its place, a packet of it for every number,   *)
(* and what waits for the ear is bounded (thread_main(), feed()).            *)
THEOREM ClientSoundKept == ClientSpec => [](Audio!TypeOK /\ SoundKept)
<1>1. AudioProofs!AudioAssumption
  BY PartsAssumption, SameAudio
<1>2. AudioProofs!Spec => []AudioProofs!TypeOK
  BY <1>1, AudioProofs!TypeCorrect
<1>3. AudioProofs!Spec => [](AudioProofs!SoundInPlace /\ AudioProofs!LatencyBounded)
  BY <1>1, AudioProofs!SoundStays
<1>4. AudioProofs!TypeOK /\ AudioProofs!SoundInPlace /\ AudioProofs!LatencyBounded
        => Audio!TypeOK /\ SoundKept
  BY SameAudio DEF SoundKept
<1> QED
  BY <1>2, <1>3, <1>4, PartsRunApart, AudioRuns, PTL

(* Nothing that an RTP source left behind makes the client's reorder buffer  *)
(* turn the next one away (AudioPlayer::resync()).                           *)
THEOREM ClientNewStreamHeard == ClientSpec => []NewStreamHeard
<1>1. AudioProofs!AudioAssumption
  BY PartsAssumption, SameAudio
<1>2. AudioProofs!Spec => []AudioProofs!NewStreamHeard
  BY <1>1, AudioProofs!NewSourceHeard
<1>3. AudioProofs!NewStreamHeard => NewStreamHeard
  BY SameAudio DEF NewStreamHeard
<1> QED
  BY <1>2, <1>3, PartsRunApart, AudioRuns, PTL

(* The rows the client shows are those of its tab, genre, letter and query,  *)
(* its cursor is on an entry and in sight (rebuild(), ensure_visible()).     *)
THEOREM ClientCursorSound == ClientSpec => [](Library!TypeOK /\ CursorSound)
<1>1. LibraryProofs!LibraryAssumption
  BY PartsAssumption, SameFacts
<1>2. LibraryProofs!Spec => []LibraryProofs!TypeOK
  BY <1>1, LibraryProofs!TypeCorrect
<1>3. LibraryProofs!Spec
        => [](LibraryProofs!RowsShowModel /\ LibraryProofs!CursorOnEntry /\ LibraryProofs!CursorVisible)
  BY <1>1, LibraryProofs!CursorStaysSound
<1>4. /\ LibraryProofs!TypeOK => Library!TypeOK
      /\ LibraryProofs!RowsShowModel /\ LibraryProofs!CursorOnEntry /\ LibraryProofs!CursorVisible
           => CursorSound
  BY SameFacts DEF CursorSound
<1> QED
  BY <1>2, <1>3, <1>4, PartsRunApart, LibraryRuns, PTL

(* Names that arrive leave the client's cursor on its title, and a search    *)
(* given up empty returns to the row it was opened from (resort(),           *)
(* handle_search()).                                                         *)
THEOREM ClientCursorSteps == ClientSpec => CursorSteps
<1>1. LibraryProofs!LibraryAssumption
  BY PartsAssumption, SameFacts
<1>2. LibraryProofs!Spec => LibraryProofs!NamesKeepSelection /\ LibraryProofs!SearchReturns
  BY <1>1, LibraryProofs!NamesLeaveCursor, LibraryProofs!EmptySearchReturns
<1>3. LibraryProofs!NamesKeepSelection => Library!NamesKeepSelection
  <2>1. [\A t \in Games :
            named' # named /\ LibraryProofs!Title(sel) = t /\ LibraryProofs!Shown(t)'
                => LibraryProofs!Title(sel)' = t]_LibraryProofs!vars
        => [\A t \in Games : named' # named /\ Library!Title(sel) = t /\ Library!Shown(t)'
                => Library!Title(sel)' = t]_Library!vars
    BY SameFacts, SameViews, SameViewsAfter DEF Library!vars, LibraryProofs!vars,
       Library!dataVars, LibraryProofs!dataVars, Library!viewVars, LibraryProofs!viewVars,
       Library!listVars, LibraryProofs!listVars, Library!searchVars, LibraryProofs!searchVars,
       Library!workVars, LibraryProofs!workVars
  <2> QED
    BY <2>1, PTL DEF Library!NamesKeepSelection, LibraryProofs!NamesKeepSelection
<1>4. LibraryProofs!SearchReturns => Library!SearchReturns
  <2>1. [\A t \in Games :
            search /\ ~search' /\ query' = <<>> /\ searchFrom = t /\ LibraryProofs!Shown(t)'
                => LibraryProofs!Title(sel)' = t]_LibraryProofs!vars
        => [\A t \in Games :
               search /\ ~search' /\ query' = <<>> /\ searchFrom = t /\ Library!Shown(t)'
                => Library!Title(sel)' = t]_Library!vars
    BY SameFacts, SameViews, SameViewsAfter DEF Library!vars, LibraryProofs!vars,
       Library!dataVars, LibraryProofs!dataVars, Library!viewVars, LibraryProofs!viewVars,
       Library!listVars, LibraryProofs!listVars, Library!searchVars, LibraryProofs!searchVars,
       Library!workVars, LibraryProofs!workVars
  <2> QED
    BY <2>1, PTL DEF Library!SearchReturns, LibraryProofs!SearchReturns
<1> QED
  BY <1>2, <1>3, <1>4, PartsRunApart, LibraryRuns, PTL DEF CursorSteps

(* The loading screen of the client counts what is queued and in flight      *)
(* (NameResolver::request() against its worker).                             *)
THEOREM ClientLookupsAccounted == ClientSpec => []LookupsAccounted
<1>1. Names!Spec => []Names!LookupsAccounted
  BY PartsAssumption, LookupsAlwaysAccounted
<1> QED
  BY <1>1, PartsRunApart, PTL DEF LookupsAccounted

(* The client's pictures are asked for once and their memory is counted      *)
(* (Thumbs).                                                                 *)
THEOREM ClientArtAccounted == ClientSpec => []ArtAccounted
<1>1. Art!Spec => [](Art!TypeOK /\ Art!ArtAccounted)
  BY PartsAssumption, PicturesAccounted
<1>2. Art!ArtAccounted => ArtAccounted
  BY DEF ArtAccounted
<1> QED
  BY <1>1, <1>2, PartsRunApart, PTL

(* Whenever the client is killed, the options file the next launch reads is  *)
(* whole (options_save()).                                                   *)
THEOREM ClientFileIsWhole == ClientSpec => []FileIsWhole
<1>1. Menu!Spec => []Menu!FileIsWhole
  BY PartsAssumption, OptionsFileIsWhole
<1>2. Menu!FileIsWhole => FileIsWhole
  BY DEF FileIsWhole
<1> QED
  BY <1>1, <1>2, PartsRunApart, PTL

(* The client does what its menu says, but for the fields a launch could not *)
(* read back (options_capture()).                                            *)
THEOREM ClientMenuShowsForce == ClientSpec => []MenuShowsForceOrRewritten
<1>1. Menu!Spec => []Menu!MenuShowsForceOrRewritten
  BY PartsAssumption, MenuShowsForce
<1>2. Menu!MenuShowsForceOrRewritten => MenuShowsForceOrRewritten
  BY DEF MenuShowsForceOrRewritten
<1> QED
  BY <1>1, <1>2, PartsRunApart, PTL

(* What a menu of the client staged and left is not committed by the next    *)
(* one (options_menu_input(), options_page_enter()).                         *)
THEOREM ClientDiscards == ClientSpec => DiscardedStaysDiscarded
<1>1. Menu!Spec => DiscardedStaysDiscarded
  BY PartsAssumption, LeftMenuStaysDiscarded DEF DiscardedStaysDiscarded
<1> QED
  BY <1>1, PartsRunApart, PTL

(* No press of the client is made up, whatever its pad's owner is busy with, *)
(* and scripted taps are told apart by a menu loop that is not away for the  *)
(* gap between them (pad_poll(), pad_take_press(), script_step(),            *)
(* pad_repeat()).                                                            *)
THEOREM ClientPressesSound == ClientSpec => []Pad!TypeOK /\ PressesSound
<1>1. Pad!Spec => [](Pad!DownIsHeld /\ Pad!StalePressChangesNothing)
  BY PartsAssumption, NoPhantomPress
<1>2. Pad!Spec => []Pad!TypeOK
  BY PartsAssumption, PadTypeCorrect
<1>3. Taps!Spec => Taps!TapIsOneTick /\ Taps!NoBurst
  BY PartsAssumption, TapTicksOnce, HeldTicksAreSpaced
<1>4. Pad!DownIsHeld /\ Pad!StalePressChangesNothing
        => (part = "pad" => Pad!DownIsHeld /\ Pad!StalePressChangesNothing)
  OBVIOUS
<1> QED
  BY <1>1, <1>2, <1>3, <1>4, PartsRunApart, PTL DEF PressesSound

(* The client keeps its sign-in and asks for its account from one thread at  *)
(* a time (SignInIsKept, OneThreadAtATime).                                  *)
THEOREM ClientSignIn == ClientSpec => [](TypeOK /\ KeptSignedIn /\ AuthNotShared)
  BY PartsRunApart, TypeCorrect, SignInIsKept, OneThreadAtATime, PTL

(* Every variable of every part of the client keeps its type.               *)
THEOREM ClientTypesCorrect == ClientSpec => []PartsTypeOK
<1>1. Names!Spec => []Names!TypeOK
  BY PartsAssumption, NamesTypeCorrect
<1>2. Art!Spec => [](Art!TypeOK /\ Art!ArtAccounted)
  BY PartsAssumption, PicturesAccounted
<1>3. Menu!Spec => []Menu!TypeOK
  BY PartsAssumption, MenuTypeCorrect
<1>4. Pad!Spec => []Pad!TypeOK
  BY PartsAssumption, PadTypeCorrect
<1>5. TypeOK /\ Audio!TypeOK /\ Names!TypeOK /\ Art!TypeOK /\ Library!TypeOK /\ Menu!TypeOK
        /\ Pad!TypeOK => PartsTypeOK
  BY DEF PartsTypeOK
<1> QED
  BY <1>1, <1>2, <1>3, <1>4, <1>5, ClientSignIn, ClientSoundKept, ClientCursorSound,
     PartsRunApart, PTL
=============================================================================
