--------------------------- MODULE RoutingProofs ----------------------------
(***************************************************************************)
(* Theorems about the comparisons and the lookup of Routing, for strings   *)
(* and lists of any length.                                                *)
(***************************************************************************)
EXTENDS Routing, WellFoundedInduction, SequenceTheorems, TLAPS

Strings == Seq(Int)

-----------------------------------------------------------------------------
\* A set of positions has a first one.
LEMMA FirstIsLeast ==
  ASSUME NEW S, S \subseteq Nat, S # {}
  PROVE  First(S) \in S /\ \A j \in S : First(S) <= j
<1>1. \E i \in S : \A j \in S : i <= j
  <2>1. PICK i \in S : \A j \in S : <<j, i>> \notin OpToRel(<, Nat)
    BY WFMin, NatLessThanWellFounded
  <2>2. \A j \in S : ~(j < i)
    BY <2>1 DEF OpToRel
  <2> QED
    BY <2>2
<1> QED
  BY <1>1 DEF First

\* Whichever way round two strings are compared, they differ at the same
\* positions.
LEMMA DifferencesCommute ==
  ASSUME NEW a \in Strings, NEW b \in Strings
  PROVE  Differences(a, b) = Differences(b, a)
BY DEF Differences, Strings

\* What the loop of sc_strcmp returns from, if it does.
LEMMA AtFirstDifference ==
  ASSUME NEW a \in Strings, NEW b \in Strings, Differences(a, b) # {}
  PROVE  LET i == First(Differences(a, b)) IN
         /\ i \in 1 .. Len(a) /\ i \in 1 .. Len(b) /\ a[i] # b[i]
         /\ a[i] \in Int /\ b[i] \in Int
         /\ \A j \in 1 .. i - 1 : a[j] = b[j]
<1> DEFINE D == Differences(a, b)
           i == First(D)
<1>1. D \subseteq Nat
  BY DEF Differences, Strings
<1>2. i \in D /\ \A j \in D : i <= j
  BY <1>1, FirstIsLeast
<1>3. i \in 1 .. Len(a) /\ i <= Len(b) /\ a[i] # b[i]
  BY <1>2 DEF Differences
<1>4. Len(a) \in Nat /\ Len(b) \in Nat
  BY DEF Strings
<1>5. \A j \in 1 .. i - 1 : a[j] = b[j]
  <2> SUFFICES ASSUME NEW j \in 1 .. i - 1 PROVE a[j] = b[j]
    OBVIOUS
  <2>1. j \in 1 .. Len(a) /\ j <= Len(b) /\ ~(i <= j)
    BY <1>3, <1>4
  <2> QED
    BY <1>2, <2>1 DEF Differences
<1>6. a[i] \in Int /\ b[i] \in Int
  BY <1>3, <1>4 DEF Strings
<1> QED
  BY <1>3, <1>4, <1>5, <1>6

\* sc_strcmp is not positive if one string is the smaller at the first
\* position at which they differ, or the first is how the second begins.
Smaller(a, b) ==
  \E i \in 1 .. Len(a) :
    i <= Len(b) /\ a[i] < b[i] /\ \A j \in 1 .. i - 1 : a[j] = b[j]
Begins(a, b) == Len(a) <= Len(b) /\ \A j \in 1 .. Len(a) : a[j] = b[j]

LEMMA NotPositive ==
  ASSUME NEW a \in Strings, NEW b \in Strings
  PROVE  sc_strcmp(a, b) <= 0 <=> Smaller(a, b) \/ Begins(a, b)
<1>0. Len(a) \in Nat /\ Len(b) \in Nat
  BY DEF Strings
<1>1. CASE Differences(a, b) # {}
  <2> DEFINE i == First(Differences(a, b))
  <2>1. /\ i \in 1 .. Len(a) /\ i \in 1 .. Len(b) /\ a[i] # b[i]
        /\ a[i] \in Int /\ b[i] \in Int
        /\ \A j \in 1 .. i - 1 : a[j] = b[j]
    BY <1>1, AtFirstDifference
  <2>2. sc_strcmp(a, b) = IF a[i] < b[i] THEN -1 ELSE 1
    BY <1>1 DEF sc_strcmp
  <2> HIDE DEF i
  <2>3. ~Begins(a, b)
    BY <2>1 DEF Begins
  <2>4. a[i] < b[i] => Smaller(a, b)
    BY <2>1, <1>0 DEF Smaller
  <2>5. ASSUME Smaller(a, b) PROVE a[i] < b[i]
    <3>1. PICK k \in 1 .. Len(a) :
            k <= Len(b) /\ a[k] < b[k] /\ \A j \in 1 .. k - 1 : a[j] = b[j]
      BY <2>5 DEF Smaller
    <3>2. ~(i < k)
      BY <3>1, <2>1
    <3>3. a[k] \in Int /\ b[k] \in Int
      BY <3>1, <1>0 DEF Strings
    <3>4. ~(k < i)
      BY <3>1, <3>3, <2>1
    <3>5. k = i
      BY <3>2, <3>4, <2>1, <1>0
    <3> QED
      BY <3>1, <3>5
  <2> QED
    BY <2>2, <2>3, <2>4, <2>5
<1>2. CASE Differences(a, b) = {}
  <2>1. \A j \in 1 .. Len(a) : j <= Len(b) => a[j] = b[j]
    BY <1>2 DEF Differences
  <2>2. ~Smaller(a, b)
    <3> SUFFICES ASSUME NEW k \in 1 .. Len(a), k <= Len(b), a[k] < b[k] PROVE FALSE
      BY DEF Smaller
    <3>1. a[k] = b[k] /\ a[k] \in Int
      BY <2>1, <1>0 DEF Strings
    <3> QED
      BY <3>1
  <2>3. Begins(a, b) <=> Len(a) <= Len(b)
    BY <2>1, <1>0 DEF Begins
  <2> QED
    BY <1>2, <2>2, <2>3, <1>0 DEF sc_strcmp
<1> QED
  BY <1>1, <1>2

LEMMA CmpValues ==
  ASSUME NEW a \in Strings, NEW b \in Strings
  PROVE  /\ sc_strcmp(a, b) \in {-1, 0, 1}
         /\ sc_strcmp(a, b) = 0 <=> Differences(a, b) = {} /\ Len(a) = Len(b)
<1>1. Len(a) \in Nat /\ Len(b) \in Nat
  BY DEF Strings
<1> QED
  BY <1>1 DEF sc_strcmp

LEMMA CmpZero ==
  ASSUME NEW a \in Strings, NEW b \in Strings
  PROVE  sc_strcmp(a, b) = 0 <=> a = b
<1>1. ASSUME sc_strcmp(a, b) = 0 PROVE a = b
  <2>1. Differences(a, b) = {} /\ Len(a) = Len(b)
    BY <1>1, CmpValues
  <2>2. \A i \in 1 .. Len(a) : a[i] = b[i]
    BY <2>1 DEF Differences, Strings
  <2> QED
    BY <2>1, <2>2, SeqEqual DEF Strings
<1>2. sc_strcmp(a, a) = 0
  <2>1. Differences(a, a) = {}
    BY DEF Differences
  <2> QED
    BY <2>1, CmpValues
<1> QED
  BY <1>1, <1>2

LEMMA CmpSwaps ==
  ASSUME NEW a \in Strings, NEW b \in Strings
  PROVE  sc_strcmp(a, b) = -sc_strcmp(b, a)
<1>1. Len(a) \in Nat /\ Len(b) \in Nat
  BY DEF Strings
<1>2. Differences(a, b) = Differences(b, a)
  BY DifferencesCommute
<1>3. CASE Differences(a, b) # {}
  <2> DEFINE i == First(Differences(a, b))
  <2>1. a[i] \in Int /\ b[i] \in Int /\ a[i] # b[i]
    BY <1>3, AtFirstDifference
  <2>2. /\ sc_strcmp(a, b) = IF a[i] < b[i] THEN -1 ELSE 1
        /\ sc_strcmp(b, a) = IF b[i] < a[i] THEN -1 ELSE 1
    BY <1>2, <1>3 DEF sc_strcmp
  <2> HIDE DEF i
  <2> QED
    BY <2>1, <2>2
<1>4. CASE Differences(a, b) = {}
  BY <1>1, <1>2, <1>4 DEF sc_strcmp
<1> QED
  BY <1>3, <1>4

LEMMA CmpPasses ==
  ASSUME NEW a \in Strings, NEW b \in Strings, NEW c \in Strings,
         sc_strcmp(a, b) <= 0, sc_strcmp(b, c) <= 0
  PROVE  sc_strcmp(a, c) <= 0
<1>0. /\ Len(a) \in Nat /\ Len(b) \in Nat /\ Len(c) \in Nat
      /\ \A i \in 1 .. Len(a) : a[i] \in Int
      /\ \A i \in 1 .. Len(b) : b[i] \in Int
      /\ \A i \in 1 .. Len(c) : c[i] \in Int
  BY DEF Strings
<1>1. Smaller(a, b) \/ Begins(a, b)
  BY NotPositive
<1>2. Smaller(b, c) \/ Begins(b, c)
  BY NotPositive
<1>3. CASE Smaller(a, b) /\ Smaller(b, c)
  <2>1. PICK i \in 1 .. Len(a) :
          i <= Len(b) /\ a[i] < b[i] /\ \A j \in 1 .. i - 1 : a[j] = b[j]
    BY <1>3 DEF Smaller
  <2>2. PICK k \in 1 .. Len(b) :
          k <= Len(c) /\ b[k] < c[k] /\ \A j \in 1 .. k - 1 : b[j] = c[j]
    BY <1>3 DEF Smaller
  <2>3. CASE i < k
    <3>1. i <= Len(c) /\ a[i] < c[i] /\ \A j \in 1 .. i - 1 : a[j] = c[j]
      BY <1>0, <2>1, <2>2, <2>3
    <3> QED
      BY <3>1, NotPositive DEF Smaller
  <2>4. CASE k <= i
    <3>1. k \in 1 .. Len(a) /\ a[k] <= b[k] /\ \A j \in 1 .. k - 1 : a[j] = c[j]
      BY <1>0, <2>1, <2>2, <2>4
    <3>2. a[k] < c[k]
      BY <1>0, <2>2, <3>1
    <3> QED
      BY <2>2, <3>1, <3>2, NotPositive DEF Smaller
  <2> QED
    BY <2>1, <2>2, <2>3, <2>4, <1>0
<1>4. CASE Smaller(a, b) /\ Begins(b, c)
  <2>1. PICK i \in 1 .. Len(a) :
          i <= Len(b) /\ a[i] < b[i] /\ \A j \in 1 .. i - 1 : a[j] = b[j]
    BY <1>4 DEF Smaller
  <2>2. i <= Len(c) /\ a[i] < c[i] /\ \A j \in 1 .. i - 1 : a[j] = c[j]
    BY <1>0, <1>4, <2>1 DEF Begins
  <2> QED
    BY <2>2, NotPositive DEF Smaller
<1>5. CASE Begins(a, b) /\ Smaller(b, c)
  <2>1. PICK k \in 1 .. Len(b) :
          k <= Len(c) /\ b[k] < c[k] /\ \A j \in 1 .. k - 1 : b[j] = c[j]
    BY <1>5 DEF Smaller
  <2>2. CASE k <= Len(a)
    <3>1. k \in 1 .. Len(a) /\ a[k] < c[k] /\ \A j \in 1 .. k - 1 : a[j] = c[j]
      BY <1>0, <1>5, <2>1, <2>2 DEF Begins
    <3> QED
      BY <2>1, <3>1, NotPositive DEF Smaller
  <2>3. CASE Len(a) < k
    <3>1. Begins(a, c)
      BY <1>0, <1>5, <2>1, <2>3 DEF Begins
    <3> QED
      BY <3>1, NotPositive
  <2> QED
    BY <1>0, <2>1, <2>2, <2>3
<1>6. CASE Begins(a, b) /\ Begins(b, c)
  <2>1. Begins(a, c)
    BY <1>0, <1>6 DEF Begins
  <2> QED
    BY <2>1, NotPositive
<1> QED
  BY <1>1, <1>2, <1>3, <1>4, <1>5, <1>6

\* sc_strcmp is a total order on all strings, and 0 only for the same one: a
\* hard endpoint answers its own URI and no other.
THEOREM IsOrder == StrcmpOrders
<1> SUFFICES ASSUME NEW a \in Names \cup Uris, NEW b \in Names \cup Uris,
                    NEW c \in Names \cup Uris
             PROVE  /\ sc_strcmp(a, b) = 0 <=> a = b
                    /\ sc_strcmp(a, b) = -sc_strcmp(b, a)
                    /\ sc_strcmp(a, b) <= 0 /\ sc_strcmp(b, c) <= 0
                         => sc_strcmp(a, c) <= 0
  BY DEF StrcmpOrders
<1>1. a \in Strings /\ b \in Strings /\ c \in Strings
  BY RoutingAssumption DEF Strings
<1> QED
  BY <1>1, CmpZero, CmpSwaps, CmpPasses

-----------------------------------------------------------------------------
\* memcmp over the length of the prefix finds what begins with it.
LEMMA PrefixIsBeginning ==
  ASSUME NEW u \in Strings, NEW v \in Strings
  PROVE  sc_strprefix(u, v) <=> \E n \in 0 .. Len(u) : v = SubSeq(u, 1, n)
<1>0. Len(u) \in Nat /\ Len(v) \in Nat
  BY DEF Strings
<1>1. ASSUME NEW n \in 0 .. Len(u)
      PROVE  /\ SubSeq(u, 1, n) \in Strings /\ Len(SubSeq(u, 1, n)) = n
             /\ \A i \in 1 .. n : SubSeq(u, 1, n)[i] = u[i]
  BY <1>0 DEF Strings
<1>2. ASSUME sc_strprefix(u, v) PROVE \E n \in 0 .. Len(u) : v = SubSeq(u, 1, n)
  <2>1. Len(v) \in 0 .. Len(u) /\ \A i \in 1 .. Len(v) : u[i] = v[i]
    BY <1>0, <1>2 DEF sc_strprefix
  <2>2. v = SubSeq(u, 1, Len(v))
    BY <1>1, <2>1, SeqEqual DEF Strings
  <2> QED
    BY <2>1, <2>2
<1>3. ASSUME NEW n \in 0 .. Len(u), v = SubSeq(u, 1, n) PROVE sc_strprefix(u, v)
  BY <1>0, <1>1, <1>3 DEF sc_strprefix
<1> QED
  BY <1>2, <1>3

\* The test sc_mgr_poll makes of an endpoint is what the documentation says
\* of it: the URI itself, or for a soft one any that starts with the text.
THEOREM MatchesWhatItIsFor ==
  ASSUME NEW e \in Endpoints, NEW u \in Uris
  PROVE  Matches(e, u) <=> For(e, u)
<1>1. e.val \in Strings /\ u \in Strings /\ e.soft \in BOOLEAN
  BY RoutingAssumption DEF Endpoints, Strings
<1>2. CASE e.soft
  <2>1. Matches(e, u) <=> \E n \in 0 .. Len(u) : e.val = SubSeq(u, 1, n)
    BY <1>1, <1>2, PrefixIsBeginning DEF Matches
  <2>2. u = SubSeq(u, 1, Len(u)) /\ Len(u) \in 0 .. Len(u)
    BY <1>1 DEF Strings
  <2> QED
    BY <1>2, <2>1, <2>2 DEF For
<1>3. CASE ~e.soft
  BY <1>1, <1>3, CmpZero DEF Matches, For
<1> QED
  BY <1>2, <1>3
=============================================================================
