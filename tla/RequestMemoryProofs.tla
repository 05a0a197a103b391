------------------------ MODULE RequestMemoryProofs -------------------------
(***************************************************************************)
(* Theorems about RequestMemory and Responses, for any memory, lists of    *)
(* any length and headers of any size.                                     *)
(***************************************************************************)
EXTENDS Responses, TLAPS, FiniteSetTheorems, WellFoundedInduction

\* What a request has let go of, by the place the program is at.
Released ==
  /\ pc = "idle" => msg = NULL /\ headers = <<>>
  /\ pc = "closing" => msg = NULL
  /\ pc \in {"idle", "parsing", "routing", "returned", "closing"} => own = <<>>
  /\ pc \notin {"sending", "dead"} => response = NULL

\* A list that is empty when sc_easy_send uses it is one malloc failed for.
EmptyForWant == pc \in {"building", "sending"} /\ own = <<>> => "malloc" \in happened

Inv ==
  /\ TypeOK /\ Released /\ EmptyForWant /\ OwnersApart
  /\ pc # "dead" => fault = "none"
  /\ NothingStale

-----------------------------------------------------------------------------
\* sc_header_append makes a list of the new block and those of the old list.
LEMMA Prepended ==
  ASSUME NEW b \in Blocks, NEW s \in Seq(Blocks)
  PROVE  /\ <<b>> \o s \in Seq(Blocks)
         /\ <<b>> \o s # <<>>
         /\ BlocksOf(<<b>> \o s) = {b} \cup BlocksOf(s)
<1> DEFINE t == <<b>> \o s
<1>1. /\ t \in Seq(Blocks) /\ Len(t) = Len(s) + 1
      /\ t[1] = b /\ \A i \in 1 .. Len(s) : t[i + 1] = s[i]
  OBVIOUS
<1>2. Len(s) \in Nat
  OBVIOUS
<1>3. \A i \in 2 .. Len(t) : i - 1 \in 1 .. Len(s) /\ t[i] = s[i - 1]
  <2> SUFFICES ASSUME NEW i \in 2 .. Len(t)
               PROVE  i - 1 \in 1 .. Len(s) /\ t[i] = s[i - 1]
    OBVIOUS
  <2> HIDE DEF t
  <2>1. i - 1 \in 1 .. Len(s) /\ (i - 1) + 1 = i
    BY <1>1, <1>2
  <2> QED
    BY <1>1, <2>1
<1> HIDE DEF t
<1>4. BlocksOf(t) \subseteq {b} \cup BlocksOf(s)
  <2> SUFFICES ASSUME NEW i \in 1 .. Len(t)
               PROVE  t[i] \in {b} \cup BlocksOf(s)
    BY DEF BlocksOf
  <2>1. CASE i = 1
    BY <2>1, <1>1
  <2>2. CASE i # 1
    BY <2>2, <1>1, <1>2, <1>3 DEF BlocksOf
  <2> QED
    BY <2>1, <2>2
<1>5. {b} \cup BlocksOf(s) \subseteq BlocksOf(t)
  <2>1. b \in BlocksOf(t)
    BY <1>1, <1>2 DEF BlocksOf
  <2>2. ASSUME NEW i \in 1 .. Len(s) PROVE s[i] \in BlocksOf(t)
    <3>1. i + 1 \in 1 .. Len(t) /\ t[i + 1] = s[i]
      BY <1>1, <1>2
    <3> QED
      BY <3>1 DEF BlocksOf
  <2> QED
    BY <2>1, <2>2 DEF BlocksOf
<1>6. t # <<>>
  BY <1>1, <1>2
<1> QED
  BY <1>1, <1>4, <1>5, <1>6 DEF t

LEMMA NoBlocks == BlocksOf(<<>>) = {} /\ <<>> \in Seq(Blocks)
BY DEF BlocksOf

LEMMA BlocksAreBlocks ==
  ASSUME NEW s \in Seq(Blocks) PROVE BlocksOf(s) \subseteq Blocks
BY DEF BlocksOf

-----------------------------------------------------------------------------
LEMMA InitInv == Init => Inv
BY MemoryAssumption, NoBlocks
   DEF Init, Inv, TypeOK, Pcs, Released, EmptyForWant, OwnersApart, NothingStale, Held

LEMMA StepInv == Inv /\ [Next]_vars => Inv'
<1> SUFFICES ASSUME Inv, [Next]_vars PROVE Inv'
  OBVIOUS
<1> USE MemoryAssumption, NoBlocks
    DEF Inv, TypeOK, Pcs, Released, EmptyForWant, OwnersApart, NothingStale, Held
<1>1. CASE ReadLine
  BY <1>1 DEF ReadLine, Unallocated
<1>2. CASE CopyDies
  BY <1>2 DEF CopyDies, Dies, Happens, EnvEvents
<1>3. CASE ReadHeader
  <2>1. PICK b \in Unallocated : headers' = <<b>> \o headers /\ live' = live \cup {b}
    BY <1>3 DEF ReadHeader
  <2> QED
    BY <1>3, <2>1, Prepended DEF ReadHeader, Unallocated
<1>4. CASE ReadHeaderFails
  BY <1>4 DEF ReadHeaderFails, Happens, EnvEvents
<1>5. CASE ReadEnds
  BY <1>5 DEF ReadEnds
<1>6. CASE ReadGivesUp
  BY <1>6 DEF ReadGivesUp, Happens, EnvEvents
<1>7. CASE Found
  BY <1>7 DEF Found
<1>8. CASE FoundStale
  BY <1>8 DEF FoundStale, Dies
<1>9. CASE NotFound
  BY <1>9 DEF NotFound, Happens, EnvEvents
<1>10. CASE OwnHeader
  <2>1. PICK b \in Unallocated : own' = <<b>> \o own /\ live' = live \cup {b}
    BY <1>10 DEF OwnHeader
  <2> QED
    BY <1>10, <2>1, Prepended DEF OwnHeader, Unallocated
<1>11. CASE AddContentType
  <2>1. PICK b \in Unallocated : own' = <<b>> \o own /\ live' = live \cup {b}
    BY <1>11 DEF AddContentType
  <2> QED
    BY <1>11, <2>1, Prepended DEF AddContentType, Unallocated
<1>12. CASE AddContentTypeFails
  BY <1>12 DEF AddContentTypeFails, Happens, EnvEvents
<1>13. CASE Build
  BY <1>13, BlocksAreBlocks DEF Build, Unallocated
<1>14. CASE BuildFails
  BY <1>14 DEF BuildFails, Dies, Happens, EnvEvents
<1>15. CASE Send
  BY <1>15 DEF Send, Returns
<1>16. CASE SendFails
  BY <1>16 DEF SendFails, Returns, Happens, EnvEvents
<1>17. CASE FreeMessage
  BY <1>17 DEF FreeMessage
<1>18. CASE FreeHeaders
  BY <1>18 DEF FreeHeaders
<1>19. CASE FreeHeadersAgain
  BY <1>19 DEF FreeHeadersAgain, Dies
<1>20. CASE UNCHANGED vars
  BY <1>20 DEF vars
<1> QED
  BY <1>1, <1>2, <1>3, <1>4, <1>5, <1>6, <1>7, <1>8, <1>9, <1>10, <1>11,
     <1>12, <1>13, <1>14, <1>15, <1>16, <1>17, <1>18, <1>19, <1>20 DEF Next

LEMMA Invariance == Spec => []Inv
BY InitInv, StepInv, PTL DEF Spec

-----------------------------------------------------------------------------
\* The state of requests keeps its types, however many follow one another:
\* each list is of blocks, NULL never among them (sc_header_append).
THEOREM TypeCorrect == Spec => []TypeOK
BY Invariance, PTL DEF Inv

\* Without given-up header lines, no path of sc_mgr_poll, an endpoint function
\* and sc_easy_send uses memory after it was freed, or frees it twice, whatever
\* mallocs and sends fail.
THEOREM NeverStale == Spec => []NothingStale
BY Invariance, PTL DEF Inv

\* Without given-up header lines, the lists, the message and the response
\* point to live blocks and share none, whatever mallocs and sends fail.
THEOREM KeptApart == Spec => []OwnersApart
BY Invariance, PTL DEF Inv

\* Only a 404, a failed send or a failed malloc makes a request leak: on every
\* other path, given-up header lines included, what sc_str_copy_n,
\* sc_header_append and sc_easy_request_build allocated keeps an owner.
THEOREM LeaksOnlyThere == Spec => NothingLeaks
<1> DEFINE Loses == ~(live' \ Held' \subseteq live \ Held)
           Excuse == happened' \cap {"notfound", "send", "malloc"} # {}
<1>1. ASSUME Inv, Next, Loses PROVE Excuse
  <2> USE <1>1, MemoryAssumption, NoBlocks DEF Inv, TypeOK, Released, EmptyForWant, Held
  <2>1. CASE ReadLine
    BY <2>1 DEF ReadLine, Unallocated
  <2>2. CASE ReadHeader
    <3>1. PICK b \in Unallocated : headers' = <<b>> \o headers /\ live' = live \cup {b}
      BY <2>2 DEF ReadHeader
    <3> QED
      BY <2>2, <3>1, Prepended DEF ReadHeader, Unallocated
  <2>3. CASE OwnHeader \/ AddContentType
    <3>1. PICK b \in Unallocated : own' = <<b>> \o own /\ live' = live \cup {b}
      BY <2>3 DEF OwnHeader, AddContentType
    <3> QED
      BY <2>3, <3>1, Prepended DEF OwnHeader, AddContentType, Unallocated
  <2>4. CASE Build
    BY <2>4 DEF Build, Unallocated
  <2>5. CASE Send \/ SendFails
    BY <2>5 DEF Send, SendFails, Returns, Happens
  <2>6. CASE FreeMessage \/ FreeHeaders \/ ReadGivesUp
    BY <2>6 DEF FreeMessage, FreeHeaders, ReadGivesUp
  <2>7. CASE CopyDies \/ FoundStale \/ FreeHeadersAgain \/ ReadEnds \/ Found
    BY <2>7 DEF CopyDies, FoundStale, FreeHeadersAgain, Dies, ReadEnds, Found
  <2>8. CASE ReadHeaderFails \/ NotFound \/ AddContentTypeFails \/ BuildFails
    BY <2>8 DEF ReadHeaderFails, NotFound, AddContentTypeFails, BuildFails, Happens
  <2> QED
    BY <2>1, <2>2, <2>3, <2>4, <2>5, <2>6, <2>7, <2>8 DEF Next
<1>2. Inv /\ [Next]_vars => [~Loses \/ Excuse]_vars
  BY <1>1
<1> QED
  BY <1>2, Invariance, PTL DEF Spec, NothingLeaks

-----------------------------------------------------------------------------
(* The sums of module Responses.                                           *)

LEMMA MinIsLeast ==
  ASSUME NEW S \in SUBSET Nat, S # {}
  PROVE  Min(S) \in S /\ \A j \in S : Min(S) <= j
<1>1. PICK m \in S : \A j \in S : ~ (<<j, m>> \in OpToRel(<, Nat))
  BY NatLessThanWellFounded, WFMin
<1>2. \A j \in S : m <= j
  <2> SUFFICES ASSUME NEW j \in S PROVE m <= j
    OBVIOUS
  <2>1. <<j, m>> \in Nat \X Nat /\ <<j, m>>[1] = j /\ <<j, m>>[2] = m
    OBVIOUS
  <2>2. ~ (j < m)
    BY <1>1, <2>1 DEF OpToRel
  <2> QED
    BY <2>2, SMT
<1> QED
  BY <1>2 DEF Min

Pick(s) == CHOOSE x \in s : TRUE

\* g adds up the lengths of the headers of any of these sets, and as much more
\* for each.
Adds(g, list, extra, Sets) ==
  g = [s \in Sets |->
         IF s = {} THEN 0
         ELSE (len[list[Pick(s)]] + extra) + g[s \ {Pick(s)}]]

LEMMA TotalIs ==
  ASSUME NEW list, NEW S, NEW extra
  PROVE  Total(list, S, extra) = (CHOOSE g : Adds(g, list, extra, SUBSET S))[S]
BY DEF Total, MapThenSumSet, MapThenFoldSet, Adds, Pick

LEMMA PickRemoves ==
  ASSUME NEW s, IsFiniteSet(s), s # {}
  PROVE  /\ Pick(s) \in s /\ IsFiniteSet(s \ {Pick(s)})
         /\ Cardinality(s) \in Nat \ {0} /\ Cardinality(s) - 1 \in Nat
         /\ Cardinality(s \ {Pick(s)}) = Cardinality(s) - 1
<1>1. Pick(s) \in s
  BY DEF Pick
<1>2. Cardinality(s) \in Nat /\ Cardinality(s) # 0
  BY FS_CardinalityType, FS_EmptySet
<1>3. /\ IsFiniteSet(s \ {Pick(s)})
      /\ Cardinality(s \ {Pick(s)}) = Cardinality(s) - 1
  BY <1>1, FS_RemoveElement
<1>4. Cardinality(s) \in Nat \ {0} /\ Cardinality(s) - 1 \in Nat
  BY <1>2
<1> QED
  BY <1>1, <1>3, <1>4

\* Such a sum there is, for the sets of any size.
LEMMA SumExists ==
  ASSUME NEW list, NEW extra, NEW S, IsFiniteSet(S)
  PROVE  \E g : Adds(g, list, extra, SUBSET S)
<1> DEFINE N == Cardinality(S)
           Small(n) == {s \in SUBSET S : Cardinality(s) <= n}
           Bad == {n \in 0 .. N : ~ \E g : Adds(g, list, extra, Small(n))}
<1>1. N \in Nat
  BY FS_CardinalityType
<1>2. \A s \in SUBSET S : IsFiniteSet(s) /\ Cardinality(s) \in Nat /\ Cardinality(s) <= N
  BY FS_Subset, FS_CardinalityType
<1>3. Small(N) = SUBSET S
  BY <1>2
<1>4. Bad \in SUBSET Nat
  BY <1>1
<1>5. Bad = {}
  <2> SUFFICES ASSUME Bad # {} PROVE FALSE
    OBVIOUS
  <2> DEFINE b == Min(Bad)
  <2>1. b \in Bad /\ \A j \in Bad : b <= j
    BY <1>4, MinIsLeast
  <2>2. b \in 0 .. N /\ ~ \E g : Adds(g, list, extra, Small(b))
    BY <2>1
  <2> HIDE DEF b
  <2>3. CASE b = 0
    <3> DEFINE g == [s \in Small(0) |-> 0]
    <3>1. \A s \in Small(0) : s = {}
      BY <1>2, FS_EmptySet
    <3>2. Adds(g, list, extra, Small(0))
      BY <3>1 DEF Adds
    <3> QED
      BY <2>2, <2>3, <3>2
  <2>4. CASE b # 0
    <3>1. b - 1 \in 0 .. N /\ b - 1 \notin Bad /\ b \in Nat
      <4> HIDE DEF N, Bad
      <4>1. b - 1 \in 0 .. N /\ b \in Nat /\ ~ (b <= b - 1)
        BY <1>1, <2>2, <2>4
      <4> QED
        BY <2>1, <4>1
    <3>2. PICK g : Adds(g, list, extra, Small(b - 1))
      BY <3>1
    <3> DEFINE Sum(h, s) == IF s = {} THEN 0
                            ELSE (len[list[Pick(s)]] + extra) + h[s \ {Pick(s)}]
               G == [s \in Small(b) |-> Sum(g, s)]
    <3>3. \A s \in Small(b - 1) : g[s] = Sum(g, s) /\ s \in Small(b)
      <4>1. \A s \in Small(b - 1) : g[s] = Sum(g, s)
        BY <3>2 DEF Adds
      <4>2. \A s \in Small(b - 1) : s \in Small(b)
        BY <1>2, <3>1
      <4> QED
        BY <4>1, <4>2
    <3>4. ASSUME NEW s \in Small(b), s # {} PROVE s \ {Pick(s)} \in Small(b - 1)
      <4>1. IsFiniteSet(s) /\ Cardinality(s) <= b
        BY <1>2
      <4>2. /\ Cardinality(s) \in Nat
            /\ Cardinality(s \ {Pick(s)}) = Cardinality(s) - 1
        BY <3>4, <4>1, PickRemoves
      <4>3. Cardinality(s \ {Pick(s)}) <= b - 1
        BY <3>1, <4>1, <4>2
      <4>4. s \ {Pick(s)} \in SUBSET S
        OBVIOUS
      <4> QED
        BY <4>3, <4>4
    <3>5. \A s \in Small(b - 1) : G[s] = g[s]
      BY <3>3
    <3> HIDE DEF Small, G
    <3>6. \A s \in Small(b) : Sum(G, s) = Sum(g, s)
      BY <3>4, <3>5
    <3>7. G = [s \in Small(b) |-> Sum(G, s)]
      <4> HIDE DEF Sum
      <4> QED
        BY <3>6 DEF G
    <3>8. Adds(G, list, extra, Small(b))
      BY <3>7 DEF Adds
    <3> QED
      BY <2>2, <3>8
  <2> QED
    BY <2>3, <2>4
<1>6. N \in 0 .. N
  BY <1>1
<1> QED
  BY <1>3, <1>5, <1>6

\* Sums of lengths are numbers, and with more for each they are not less.
LEMMA SumsGrow ==
  ASSUME NEW list, NEW S, IsFiniteSet(S), \A x \in S : len[list[x]] \in Nat,
         NEW d \in Nat, NEW e \in Nat, d <= e,
         NEW g, Adds(g, list, d, SUBSET S), NEW h, Adds(h, list, e, SUBSET S)
  PROVE  /\ g[S] \in Nat /\ h[S] \in Nat /\ g[S] <= h[S]
         /\ S = {} => g[S] = 0
<1> DEFINE Good(s) == g[s] \in Nat /\ h[s] \in Nat /\ g[s] <= h[s]
           Bad == {s \in SUBSET S : ~ Good(s)}
           Counts == {Cardinality(s) : s \in Bad}
<1>1. \A s \in SUBSET S : IsFiniteSet(s) /\ Cardinality(s) \in Nat
  BY FS_Subset, FS_CardinalityType
<1>2. \A s \in SUBSET S :
        /\ g[s] = IF s = {} THEN 0
                  ELSE (len[list[Pick(s)]] + d) + g[s \ {Pick(s)}]
        /\ h[s] = IF s = {} THEN 0
                  ELSE (len[list[Pick(s)]] + e) + h[s \ {Pick(s)}]
  BY DEF Adds
<1>3. Bad = {}
  <2> SUFFICES ASSUME Bad # {} PROVE FALSE
    OBVIOUS
  <2>1. Counts \in SUBSET Nat /\ Counts # {}
    BY <1>1
  <2> DEFINE b == Min(Counts)
  <2>2. b \in Counts /\ \A j \in Counts : b <= j
    BY <2>1, MinIsLeast
  <2> HIDE DEF b
  <2>3. PICK s \in Bad : Cardinality(s) = b
    BY <2>2
  <2>4. s # {}
    <3> SUFFICES ASSUME s = {} PROVE FALSE
      OBVIOUS
    <3>1. g[s] = 0 /\ h[s] = 0
      BY <1>2
    <3>2. Good(s)
      BY <3>1
    <3> QED
      BY <2>3, <3>2
  <2> DEFINE t == s \ {Pick(s)}
  <2>5. /\ Pick(s) \in s /\ Cardinality(t) = b - 1 /\ b \in Nat
    BY <1>1, <2>3, <2>4, PickRemoves
  <2>6. t \in SUBSET S /\ t \notin Bad
    <3>1. ~ (b <= b - 1)
      BY <2>5
    <3>2. Cardinality(t) \notin Counts
      BY <2>2, <2>5, <3>1
    <3> QED
      BY <3>2
  <2>7. Good(t)
    BY <2>6
  <2>8. len[list[Pick(s)]] \in Nat
    BY <2>5
  <2>9. /\ g[s] = (len[list[Pick(s)]] + d) + g[t]
        /\ h[s] = (len[list[Pick(s)]] + e) + h[t]
    BY <1>2, <2>4
  <2> HIDE DEF t
  <2>10. Good(s)
    BY <2>7, <2>8, <2>9
  <2> QED
    BY <2>3, <2>10
<1>4. Good(S)
  BY <1>3
<1>5. S = {} => g[S] = 0
  BY <1>2
<1> QED
  BY <1>4, <1>5

LEMMA TotalsGrow ==
  ASSUME NEW list, NEW S, IsFiniteSet(S), \A x \in S : len[list[x]] \in Nat,
         NEW d \in Nat, NEW e \in Nat, d <= e
  PROVE  /\ Total(list, S, d) \in Nat /\ Total(list, S, e) \in Nat
         /\ Total(list, S, d) <= Total(list, S, e)
         /\ S = {} => Total(list, S, d) = 0
<1> DEFINE g == CHOOSE f : Adds(f, list, d, SUBSET S)
           h == CHOOSE f : Adds(f, list, e, SUBSET S)
<1>1. Adds(g, list, d, SUBSET S) /\ Adds(h, list, e, SUBSET S)
  BY SumExists, Zenon
<1>2. Total(list, S, d) = g[S] /\ Total(list, S, e) = h[S]
  BY TotalIs, Zenon
<1> HIDE DEF g, h
<1>3. /\ g[S] \in Nat /\ h[S] \in Nat /\ g[S] <= h[S]
      /\ S = {} => g[S] = 0
  BY <1>1, SumsGrow
<1> QED
  BY <1>2, <1>3

-----------------------------------------------------------------------------
(* What module Responses writes.                                           *)

\* The sizes are of type size_t, of no more than 20 digits.
SizesFit == \A n \in 0 .. BODY_BUF : n < 10 ^ 20

RInv == Inv /\ ResponsesTypeOK /\ BuffersHold

LEMMA LengthsKnown ==
  ASSUME ResponsesTypeOK
  PROVE  /\ \A i \in 1 .. Len(headers) : len[headers[i]] \in Nat
         /\ \A i \in 1 .. Len(own) : len[own[i]] \in Nat
BY DEF ResponsesTypeOK, BlocksOf

\* The page that is shown leaves room for its end.
LEMMA PageFits ==
  ASSUME TypeOK, ResponsesTypeOK
  PROVE  BodySize(Shown) + Outro \in Nat /\ BodySize(Shown) + Outro < BODY_BUF
<1> DEFINE n == Len(headers)
           Fine(k) == /\ \A i \in 1 .. k : HeaderFits(i)
                      /\ k < n => ~ HeaderFits(k + 1)
           Bad == {k \in 1 .. n : ~ HeaderFits(k)}
<1>1. n \in Nat
  BY DEF TypeOK
<1>2. \A i \in 1 .. n : len[headers[i]] \in Nat
  BY LengthsKnown
<1>3. ASSUME NEW k \in 0 .. n
      PROVE  BodySize(k) \in Nat /\ (k = 0 => BodySize(k) = Intro)
  <2>1. \A i \in 1 .. k : len[headers[i]] \in Nat
    BY <1>1, <1>2
  <2>2. IsFiniteSet(1 .. k) /\ (k = 0 => 1 .. k = {})
    BY <1>1, FS_Interval
  <2>3. Paragraph \in Nat /\ Paragraph <= Paragraph
    BY DEF Paragraph
  <2> HIDE DEF n
  <2>4. /\ Total(headers, 1 .. k, Paragraph) \in Nat
        /\ k = 0 => Total(headers, 1 .. k, Paragraph) = 0
    BY <2>1, <2>2, <2>3, TotalsGrow
  <2> QED
    BY <2>4 DEF BodySize, Intro
<1> HIDE DEF n
<1>4. \E k \in 0 .. n : Fine(k)
  <2>1. CASE Bad = {}
    <3>1. n \in 0 .. n /\ ~ (n < n)
      BY <1>1
    <3> QED
      BY <2>1, <3>1
  <2>2. CASE Bad # {}
    <3> DEFINE b == Min(Bad)
    <3>1. Bad \in SUBSET Nat
      BY <1>1
    <3>2. b \in Bad /\ \A j \in Bad : b <= j
      BY <2>2, <3>1, MinIsLeast
    <3>3. b \in 1 .. n /\ ~ HeaderFits(b)
      BY <3>2
    <3> HIDE DEF b
    <3>4. b - 1 \in 0 .. n /\ (b - 1) + 1 = b
      BY <1>1, <3>3
    <3>5. \A i \in 1 .. b - 1 : i \in 1 .. n /\ ~ (b <= i)
      BY <1>1, <3>3
    <3>6. \A i \in 1 .. b - 1 : HeaderFits(i)
      BY <3>2, <3>5
    <3> QED
      BY <3>3, <3>4, <3>6
  <2> QED
    BY <2>1, <2>2
<1>5. Shown \in 0 .. n /\ Fine(Shown)
  BY <1>4, Zenon DEF Shown, n
<1>6. BodySize(Shown) \in Nat /\ (Shown = 0 => BodySize(Shown) = Intro)
  BY <1>3, <1>5
<1>7. Shown # 0 => BodySize(Shown) + Outro + 1 < BODY_BUF
  <2>1. Shown # 0 => Shown \in 1 .. Shown
    BY <1>1, <1>5
  <2> QED
    BY <1>5, <2>1 DEF HeaderFits
<1> QED
  BY <1>6, <1>7, ResponseAssumption DEF Outro, Intro

LEMMA FewDigits ==
  ASSUME NEW n, n < 10 ^ 20
  PROVE  Digits(n) \in 1 .. 20
<1> DEFINE Below(d) == n < 10 ^ d
           D == {d \in 1 .. 20 : Below(d)}
           b == Min(D)
<1>1. Below(20)
  OBVIOUS
<1>2. Digits(n) = CHOOSE d \in 1 .. 20 :
                    Below(d) /\ \A e \in 1 .. d - 1 : ~ Below(e)
  BY DEF Digits
<1> HIDE DEF Below
<1>3. D \in SUBSET Nat /\ 20 \in D
  BY <1>1
<1>4. b \in D /\ \A j \in D : b <= j
  BY <1>3, MinIsLeast
<1>5. b \in 1 .. 20 /\ Below(b)
  BY <1>4
<1>6. \A e \in 1 .. 20 : e \notin D <=> ~ Below(e)
  OBVIOUS
<1> HIDE DEF b, D
<1>7. \A e \in 1 .. b - 1 : e \in 1 .. 20 /\ ~ (b <= e)
  BY <1>5
<1>8. \A e \in 1 .. b - 1 : ~ Below(e)
  BY <1>4, <1>6, <1>7
<1> QED
  BY <1>2, <1>5, <1>8

\* response_len is enough.
LEMMA ResponseFits ==
  ASSUME SizesFit, TypeOK, ResponsesTypeOK, page < BODY_BUF
  PROVE  LET t == Written + Total(own, 1 .. Len(own), 0) + CRLFLength + page
         IN  t \in Nat /\ ResponseLen + 1 \in Nat /\ t < ResponseLen + 1
<1> DEFINE S == 1 .. Len(own)
           a == Total(own, S, 0)
           b == Total(own, S, 1)
           d == Digits(page)
           w == Template - Directives + CodeLength + CodeStrLength + d
<1>1. a \in Nat /\ b \in Nat /\ a <= b
  <2>1. Len(own) \in Nat
    BY DEF TypeOK
  <2>2. IsFiniteSet(S)
    BY <2>1, FS_Interval
  <2>3. \A x \in S : len[own[x]] \in Nat
    BY LengthsKnown
  <2> HIDE DEF S
  <2>4. 0 \in Nat /\ 1 \in Nat /\ 0 <= 1
    OBVIOUS
  <2> QED
    BY <2>2, <2>3, <2>4, TotalsGrow
<1>2. page \in Nat
  BY DEF ResponsesTypeOK
<1>3. d \in 1 .. 20
  <2>1. page \in 0 .. BODY_BUF
    BY <1>2, ResponseAssumption
  <2>2. page < 10 ^ 20
    BY <2>1 DEF SizesFit
  <2> QED
    BY <2>2, FewDigits
<1>4. ResponseLen = 86 + b + page
  <2>1. ResponseLen = Template + CodeStrLength + CodeLength + 16 + 4 + b + page
    BY DEF ResponseLen
  <2> HIDE DEF b
  <2> QED
    BY <1>1, <1>2, <2>1 DEF Template, CodeStrLength, CodeLength
<1> HIDE DEF d, b, a
<1>5. w \in Nat /\ w <= 79 /\ ResponseLen - 1 \in Nat
  BY <1>1, <1>2, <1>3, <1>4
     DEF Template, Directives, CodeLength, CodeStrLength
<1> HIDE DEF w
<1>6. Written \in Nat /\ Written <= 79
  <2> DEFINE M == {w, ResponseLen - 1}
  <2>1. M \in SUBSET Nat /\ M # {} /\ w \in M
    BY <1>5
  <2>2. Min(M) \in Nat /\ Min(M) <= w
    BY <2>1, MinIsLeast
  <2>3. Written = Min(M)
    BY DEF Written, w, d
  <2> QED
    BY <1>5, <2>2, <2>3
<1> HIDE DEF S
<1>7. LET t == Written + a + CRLFLength + page
      IN  t \in Nat /\ ResponseLen + 1 \in Nat /\ t < ResponseLen + 1
  BY <1>1, <1>2, <1>4, <1>6 DEF CRLFLength
<1> QED
  BY <1>7 DEF a, S

LEMMA LengthsStay ==
  ASSUME ResponsesTypeOK, NEW n \in Nat, Lengths(n)
  PROVE  /\ DOMAIN len' = BlocksOf(headers') \cup BlocksOf(own')
         /\ \A b \in DOMAIN len' : len'[b] \in Nat
BY DEF Lengths, ResponsesTypeOK

\* Each step of Responses is a step of RequestMemory.
LEMMA StepsOfMemory == [RNext]_rvars => [Next]_vars
BY DEF RNext, rvars, HeaderOfRequest, HeaderOfResponse, WritePage, WriteResponse,
       Return, Elsewhere, Next

LEMMA InitR == RInit => RInv
<1> SUFFICES ASSUME RInit PROVE RInv
  OBVIOUS
<1>1. Inv
  BY InitInv DEF RInit
<1>2. ResponsesTypeOK
  BY NoBlocks DEF RInit, Init, ResponsesTypeOK
<1>3. BuffersHold
  BY ResponseAssumption DEF RInit, Init, BuffersHold, Intro, Outro
<1> QED
  BY <1>1, <1>2, <1>3 DEF RInv

LEMMA StepR == SizesFit /\ RInv /\ [RNext]_rvars => RInv'
<1> SUFFICES ASSUME SizesFit, RInv, [RNext]_rvars PROVE RInv'
  OBVIOUS
<1>1. /\ TypeOK /\ ResponsesTypeOK /\ page < BODY_BUF /\ Released
      /\ page \in Nat /\ room \in Nat /\ text \in Nat
      /\ BuffersHold
  BY DEF RInv, Inv, ResponsesTypeOK, BuffersHold
<1>2. Inv'
  BY StepsOfMemory, StepInv DEF RInv
<1>3. ASSUME UNCHANGED <<headers, own, len>>
      PROVE  /\ DOMAIN len' = BlocksOf(headers') \cup BlocksOf(own')
             /\ \A b \in DOMAIN len' : len'[b] \in Nat
  BY <1>1, <1>3 DEF ResponsesTypeOK
<1>4. CASE HeaderOfRequest \/ HeaderOfResponse
  <2>1. PICK n \in Nat : Lengths(n)
    <3>1. \A n \in LineLengths : /\ Terminated(n, FALSE) \in Nat
                                 /\ Terminated(n, TRUE) \in Nat
      BY ResponseAssumption DEF Terminated, CRLFLength
    <3> QED
      BY <1>4, <3>1 DEF HeaderOfRequest, HeaderOfResponse
  <2>2. /\ DOMAIN len' = BlocksOf(headers') \cup BlocksOf(own')
        /\ \A b \in DOMAIN len' : len'[b] \in Nat
    BY <1>1, <2>1, LengthsStay
  <2>3. UNCHANGED Sizes /\ pc' # "sending"
    BY <1>4 DEF HeaderOfRequest, HeaderOfResponse, ReadHeader, OwnHeader,
                AddContentType
  <2> QED
    BY <1>1, <1>2, <2>2, <2>3 DEF RInv, ResponsesTypeOK, BuffersHold, Sizes
<1>5. CASE WritePage
  <2>1. UNCHANGED <<headers, own, len, room, text>> /\ pc' # "sending"
        /\ page' = BodySize(Shown) + Outro
    BY <1>5 DEF WritePage, Found
  <2>2. page' \in Nat /\ page' < BODY_BUF
    BY <1>1, <2>1, PageFits
  <2> QED
    BY <1>1, <1>2, <1>3, <2>1, <2>2 DEF RInv, ResponsesTypeOK, BuffersHold
<1>6. CASE WriteResponse
  <2> DEFINE t == Written + Total(own, 1 .. Len(own), 0) + CRLFLength + page
  <2>1. UNCHANGED <<headers, own, len, page>>
        /\ room' = ResponseLen + 1 /\ text' = t
    BY <1>6 DEF WriteResponse, Build
  <2>2. t \in Nat /\ ResponseLen + 1 \in Nat /\ t < ResponseLen + 1
    BY <1>1, ResponseFits
  <2> HIDE DEF t
  <2>3. text' \in Nat /\ room' \in Nat /\ text' < room'
    BY <2>1, <2>2
  <2> QED
    BY <1>1, <1>2, <1>3, <2>1, <2>3 DEF RInv, ResponsesTypeOK, BuffersHold
<1>7. CASE Return
  <2>1. Lengths(0) /\ page' = 0 /\ room' = 0 /\ text' = 0 /\ pc' # "sending"
    BY <1>7 DEF Return, Send, SendFails, Returns
  <2>2. 0 < BODY_BUF
    BY ResponseAssumption DEF Intro, Outro
  <2> QED
    BY <1>1, <1>2, <2>1, <2>2, LengthsStay DEF RInv, ResponsesTypeOK, BuffersHold
<1>8. CASE Elsewhere
  <2>1. Lengths(0) /\ UNCHANGED Sizes
    BY <1>8 DEF Elsewhere
  <2>2. pc' = "sending" => response' = NULL
    <3>1. CASE BuildFails
      BY <1>1, <3>1 DEF BuildFails, Released, Dies
    <3>2. CASE ~ BuildFails
      BY <1>8, <3>2
         DEF Elsewhere, ReadLine, CopyDies, Dies, ReadHeaderFails, ReadEnds,
             ReadGivesUp, FoundStale, NotFound, AddContentTypeFails, FreeMessage,
             FreeHeaders, FreeHeadersAgain
    <3> QED
      BY <3>1, <3>2
  <2> QED
    BY <1>1, <1>2, <2>1, <2>2, LengthsStay
       DEF RInv, ResponsesTypeOK, BuffersHold, Sizes
<1>9. CASE UNCHANGED rvars
  BY <1>1, <1>2, <1>3, <1>9 DEF rvars, vars, RInv, ResponsesTypeOK, BuffersHold
<1> QED
  BY <1>4, <1>5, <1>6, <1>7, <1>8, <1>9 DEF RNext

\* Module Responses adds sizes to RequestMemory, and no behaviour: all that is
\* proved of the memory of requests holds of the responses.
THEOREM ResponsesKeepMemory == RSpec => Spec
<1>1. RInit => Init
  BY DEF RInit
<1> QED
  BY <1>1, StepsOfMemory, PTL DEF RSpec, Spec

\* Every header that is on a list has a length, and only those.
THEOREM ResponsesTyped ==
  ASSUME SizesFit PROVE RSpec => []ResponsesTypeOK
<1>1. RInv => ResponsesTypeOK
  BY DEF RInv
<1>2. RInv /\ [RNext]_rvars => RInv'
  BY StepR
<1> QED
  BY <1>1, <1>2, InitR, PTL DEF RSpec

\* The page that root_handler puts together fits its buffer, and the response
\* what sc_easy_request_build allocated, whatever headers there are.
THEOREM ResponsesFit ==
  ASSUME SizesFit PROVE RSpec => []BuffersHold
<1>1. RInv => BuffersHold
  BY DEF RInv
<1>2. RInv /\ [RNext]_rvars => RInv'
  BY StepR
<1> QED
  BY <1>1, <1>2, InitR, PTL DEF RSpec
=============================================================================
