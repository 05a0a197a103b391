------------------------ MODULE RequestParserProofs -------------------------
(***************************************************************************)
(* What holds of the parser for every sequence of requests, every size of  *)
(* its buffers and every way the bytes come: the types, that header_buf    *)
(* has room for its terminator, that a header is what one call of          *)
(* next_header read, of one line, that every turn of the loop is progress; *)
(* and, while requests come whole, where in the text a header begins, and  *)
(* that requests that fit are given back as they were sent.                *)
(***************************************************************************)
EXTENDS RequestParser, TLAPS, SequenceTheorems, WellFoundedInduction

-----------------------------------------------------------------------------
(* Sequences.                                                              *)

\* A set of numbers that is not empty has a least one.
LEMMA LeastIsLeast ==
  ASSUME NEW S \in SUBSET Nat, S # {}
  PROVE  Least(S) \in S /\ \A j \in S : Least(S) <= j
<1>1. PICK m \in S : \A j \in S : ~ (<<j, m>> \in OpToRel(<, Nat))
  BY NatLessThanWellFounded, WFMin
<1>2. \A j \in S : m <= j
  <2> SUFFICES ASSUME NEW j \in S PROVE m <= j
    OBVIOUS
  <2>1. <<j, m>> \in Nat \X Nat /\ <<j, m>>[1] = j /\ <<j, m>>[2] = m
    OBVIOUS
  <2>2. ~ (j < m)
    BY <1>1, <2>1 DEF OpToRel
  <2> QED
    BY <2>2, SMT
<1> QED
  BY <1>2 DEF Least

LEMMA FunctionIsSeq ==
  ASSUME NEW S, NEW n \in Nat, NEW f \in [1 .. n -> S]
  PROVE  f \in Seq(S) /\ Len(f) = n
BY SeqDef

\* A piece of a sequence, and its elements.
LEMMA SliceProperties ==
  ASSUME NEW S, NEW s \in Seq(S),
         NEW m \in 1 .. Len(s) + 1, NEW n \in m - 1 .. Len(s)
  PROVE  /\ SubSeq(s, m, n) \in Seq(S)
         /\ Len(SubSeq(s, m, n)) = n - m + 1
         /\ \A i \in 1 .. n - m + 1 : SubSeq(s, m, n)[i] = s[m + i - 1]
<1>1. Len(s) \in Nat /\ \A i \in 1 .. Len(s) : s[i] \in S
  BY LenProperties, ElementOfSeq
<1>2. m \in Int /\ n \in Int /\ \A i \in m .. n : s[i] \in S
  BY <1>1
<1>3. /\ SubSeq(s, m, n) \in Seq(S)
      /\ Len(SubSeq(s, m, n)) = IF m <= n THEN n - m + 1 ELSE 0
      /\ \A i \in 1 .. n - m + 1 : SubSeq(s, m, n)[i] = s[m + i - 1]
  BY <1>2, SubSeqProperties
<1>4. ~ (m <= n) => n - m + 1 = 0
  BY <1>1
<1> QED
  BY <1>3, <1>4

LEMMA PrefixProperties ==
  ASSUME NEW S, NEW s \in Seq(S), NEW n \in 0 .. Len(s)
  PROVE  /\ SubSeq(s, 1, n) \in Seq(S)
         /\ Len(SubSeq(s, 1, n)) = n
         /\ \A i \in 1 .. n : SubSeq(s, 1, n)[i] = s[i]
<1>1. Len(s) \in Nat
  BY LenProperties
<1>2. 1 \in 1 .. Len(s) + 1 /\ n \in 1 - 1 .. Len(s)
  BY <1>1
<1>3. /\ SubSeq(s, 1, n) \in Seq(S)
      /\ Len(SubSeq(s, 1, n)) = n - 1 + 1
      /\ \A i \in 1 .. n - 1 + 1 : SubSeq(s, 1, n)[i] = s[1 + i - 1]
  BY <1>2, SliceProperties
<1> QED
  BY <1>1, <1>3, SMT

\* A sequence behind another, and its elements.
LEMMA ConcatPoints ==
  ASSUME NEW S, NEW s \in Seq(S), NEW t \in Seq(S)
  PROVE  /\ s \o t \in Seq(S) /\ Len(s \o t) = Len(s) + Len(t)
         /\ Len(s) \in Nat /\ Len(t) \in Nat
         /\ \A i \in 1 .. Len(s) : (s \o t)[i] = s[i]
         /\ \A i \in 1 .. Len(t) : (s \o t)[Len(s) + i] = t[i]
<1> DEFINE c == s \o t
           m == Len(s)
           n == Len(t)
<1>1. m \in Nat /\ n \in Nat
  BY LenProperties
<1>2. /\ c \in Seq(S) /\ Len(c) = m + n
      /\ \A i \in 1 .. m + n : c[i] = IF i <= m THEN s[i] ELSE t[i - m]
  BY ConcatProperties
<1> HIDE DEF c, m, n
<1>3. \A i \in 1 .. m : c[i] = s[i]
  BY <1>1, <1>2
<1>4. ASSUME NEW i \in 1 .. n PROVE c[m + i] = t[i]
  <2> DEFINE k == m + i
  <2>1. k \in 1 .. m + n /\ ~ (k <= m) /\ k - m = i
    BY <1>1
  <2> HIDE DEF k
  <2>2. c[k] = t[k - m]
    BY <1>2, <2>1
  <2> QED
    BY <2>1, <2>2 DEF k
<1> QED
  BY <1>1, <1>2, <1>3, <1>4 DEF c, m, n

\* f[i] is the first i of the sequences ss strung together, for i up to m: what
\* FlattenSeq defines by recursion.
Strung(f, ss, m) ==
  f = [i \in 1 .. m |-> IF i = 1 THEN ss[i] ELSE f[i - 1] \o ss[i]]

LEMMA StrungPoints ==
  ASSUME NEW m \in Nat, NEW ss, NEW f, Strung(f, ss, m)
  PROVE  \A i \in 1 .. m : f[i] = IF i = 1 THEN ss[i] ELSE f[i - 1] \o ss[i]
<1> DEFINE g == [i \in 1 .. m |-> IF i = 1 THEN ss[i] ELSE f[i - 1] \o ss[i]]
<1>1. f = g
  BY DEF Strung
<1>2. \A i \in 1 .. m : g[i] = IF i = 1 THEN ss[i] ELSE f[i - 1] \o ss[i]
  OBVIOUS
<1> HIDE DEF g
<1> QED
  BY <1>1, <1>2

\* There is such an f.  (The induction is by the least place where it fails.)
LEMMA StrungExists ==
  ASSUME NEW n \in Nat, NEW ss
  PROVE  \E f : Strung(f, ss, n)
<1> DEFINE Bad == {m \in 0 .. n : ~ \E f : Strung(f, ss, m)}
<1>1. Bad \subseteq 0 .. n
  OBVIOUS
<1>2. \A i \in 0 .. n : i \notin Bad <=> \E f : Strung(f, ss, i)
  OBVIOUS
<1> HIDE DEF Bad
<1>3. Bad = {}
  <2> SUFFICES ASSUME Bad # {} PROVE FALSE
    OBVIOUS
  <2>1. Bad \in SUBSET Nat
    BY <1>1, SMT
  <2> DEFINE m == Least(Bad)
  <2>2. m \in Bad /\ \A j \in Bad : m <= j
    BY <2>1, LeastIsLeast
  <2> HIDE DEF m
  <2>3. m # 0
    <3> DEFINE e == [i \in 1 .. 0 |-> IF i = 1 THEN ss[i] ELSE 0]
    <3>1. 1 .. 0 = {} /\ 0 \in 0 .. n
      BY SMT
    <3>2. Strung(e, ss, 0)
      BY <3>1 DEF Strung
    <3> QED
      BY <2>2, <1>2, <3>1, <3>2
  <2>4. m \in 0 .. n /\ m - 1 \in 0 .. n /\ m \in Nat /\ m - 1 \notin Bad
    BY <1>1, <2>2, <2>3, SMT
  <2>5. PICK f : Strung(f, ss, m - 1)
    BY <2>4, <1>2
  <2> DEFINE g == [i \in 1 .. m |-> IF i = 1 THEN ss[i] ELSE f[i - 1] \o ss[i]]
  <2>6. \A i \in 1 .. m - 1 : g[i] = f[i]
    <3>1. \A i \in 1 .. m - 1 : i \in 1 .. m
      BY <2>4, SMT
    <3>2. m - 1 \in Nat
      BY <2>4, SMT
    <3>3. \A i \in 1 .. m - 1 : f[i] = IF i = 1 THEN ss[i] ELSE f[i - 1] \o ss[i]
      BY <2>5, <3>2, StrungPoints
    <3> QED
      BY <3>1, <3>3
  <2>7. \A i \in 1 .. m : i # 1 => i - 1 \in 1 .. m - 1
    BY <2>4, SMT
  <2>8. Strung(g, ss, m)
    BY <2>6, <2>7 DEF Strung
  <2> QED
    BY <2>2, <2>4, <1>2, <2>8
<1>4. n \in 0 .. n
  BY SMT
<1> QED
  BY <1>2, <1>3, <1>4

\* And only one, of which each place depends on no later sequence.
LEMMA StrungUnique ==
  ASSUME NEW m \in Nat, NEW k \in Nat, m <= k,
         NEW ss, NEW f, Strung(f, ss, m), NEW g, Strung(g, ss, k)
  PROVE  \A i \in 1 .. m : f[i] = g[i]
<1> DEFINE Bad == {i \in 1 .. m : f[i] # g[i]}
<1>1. Bad \subseteq 1 .. m /\ \A i \in 1 .. m : i \notin Bad <=> f[i] = g[i]
  OBVIOUS
<1> HIDE DEF Bad
<1> SUFFICES ASSUME Bad # {} PROVE FALSE
  BY <1>1
<1>2. Bad \in SUBSET Nat
  BY <1>1, SMT
<1> DEFINE b == Least(Bad)
<1>3. b \in Bad /\ \A j \in Bad : b <= j
  BY <1>2, LeastIsLeast
<1> HIDE DEF b
<1>4. /\ b \in 1 .. m /\ b \in 1 .. k
      /\ b # 1 => b - 1 \in 1 .. m /\ b - 1 \notin Bad
  BY <1>1, <1>3, SMT
<1>5. f[b] = IF b = 1 THEN ss[b] ELSE f[b - 1] \o ss[b]
  BY <1>4, StrungPoints
<1>6. g[b] = IF b = 1 THEN ss[b] ELSE g[b - 1] \o ss[b]
  BY <1>4, StrungPoints
<1>7. f[b] = g[b]
  BY <1>1, <1>4, <1>5, <1>6
<1> QED
  BY <1>1, <1>3, <1>4, <1>7

LEMMA StrungSame ==
  ASSUME NEW m, NEW ss, NEW tt, \A i \in 1 .. m : ss[i] = tt[i],
         NEW f, Strung(f, ss, m)
  PROVE  Strung(f, tt, m)
BY DEF Strung

LEMMA FlattenIs ==
  ASSUME NEW ss, Len(ss) \in Nat \ {0}, NEW f, Strung(f, ss, Len(ss))
  PROVE  FlattenSeq(ss) = f[Len(ss)]
<1> DEFINE n == Len(ss)
           flatten[i \in 1 .. n] == IF i = 1 THEN ss[i]
                                    ELSE flatten[i - 1] \o ss[i]
<1>1. n \in Nat /\ n \in 1 .. n /\ n <= n /\ n # 0
  BY SMT
<1>2. FlattenSeq(ss) = flatten[n]
  BY <1>1 DEF FlattenSeq, flatten
<1>3. Strung(flatten, ss, n)
  <2>1. \E g : Strung(g, ss, n)
    BY <1>1, StrungExists
  <2> QED
    BY <2>1 DEF Strung
<1> HIDE DEF flatten
<1>4. flatten[n] = f[n]
  BY <1>1, <1>3, StrungUnique
<1> QED
  BY <1>2, <1>4

LEMMA FlattenEmpty == FlattenSeq(<<>>) = <<>>
<1>1. Len(<<>>) = 0
  BY EmptySeq
<1> QED
  BY <1>1 DEF FlattenSeq

\* One more sequence is put behind what those before it are.
LEMMA FlattenStep ==
  ASSUME NEW S, NEW ss \in Seq(Seq(S)), NEW k \in 1 .. Len(ss)
  PROVE  FlattenSeq(SubSeq(ss, 1, k)) = FlattenSeq(SubSeq(ss, 1, k - 1)) \o ss[k]
<1>1. Len(ss) \in Nat /\ ss[k] \in Seq(S) /\ k \in Nat /\ k # 0
  BY LenProperties, ElementOfSeq
<1> DEFINE s == SubSeq(ss, 1, k)
           t == SubSeq(ss, 1, k - 1)
<1>2. k \in 0 .. Len(ss) /\ k - 1 \in 0 .. Len(ss) /\ k - 1 \in Nat
  BY <1>1
<1>3. Len(s) = k /\ \A i \in 1 .. k : s[i] = ss[i]
  BY <1>2, PrefixProperties
<1>4. /\ t \in Seq(Seq(S)) /\ Len(t) = k - 1
      /\ \A i \in 1 .. k - 1 : t[i] = ss[i]
  BY <1>2, PrefixProperties
<1> HIDE DEF s, t
<1>5. PICK f : Strung(f, s, k)
  BY <1>1, StrungExists
<1>6. PICK g : Strung(g, t, k - 1)
  BY <1>2, StrungExists
<1>7. FlattenSeq(s) = f[k]
  BY <1>1, <1>3, <1>5, FlattenIs
<1>8. k \in 1 .. k
  BY <1>1
<1>9. f[k] = IF k = 1 THEN ss[k] ELSE f[k - 1] \o ss[k]
  BY <1>1, <1>3, <1>5, <1>8, StrungPoints
<1>10. CASE k = 1
  <2>1. t = <<>>
    BY <1>4, <1>10, EmptySeq
  <2>2. <<>> \o ss[k] = ss[k]
    BY <1>1, ConcatEmptySeq
  <2> QED
    BY <1>7, <1>9, <1>10, <2>1, <2>2, FlattenEmpty DEF s, t
<1>11. CASE k # 1
  <2>1. k - 1 \in Nat \ {0} /\ k - 1 \in 1 .. k - 1 /\ k - 1 <= k
    BY <1>1, <1>11
  <2>2. FlattenSeq(t) = g[k - 1]
    BY <1>4, <1>6, <2>1, FlattenIs
  <2> DEFINE m == k - 1
  <2>3. m \in Nat /\ m <= k /\ m \in 1 .. m /\ Strung(g, t, m)
    BY <1>2, <1>6, <2>1
  <2>4. \A i \in 1 .. m : t[i] = s[i]
    <3>1. \A i \in 1 .. k - 1 : i \in 1 .. k
      BY <1>1
    <3> QED
      BY <1>3, <1>4, <3>1
  <2> HIDE DEF m
  <2>5. Strung(g, s, m)
    BY <2>3, <2>4, StrungSame
  <2>6. g[m] = f[m]
    BY <1>1, <1>5, <2>3, <2>5, StrungUnique
  <2>7. g[k - 1] = f[k - 1]
    BY <2>6 DEF m
  <2> QED
    BY <1>7, <1>9, <1>11, <2>1, <2>2, <2>7 DEF s, t
<1> QED
  BY <1>10, <1>11

\* What the first k are, and so all of them, is a sequence.
LEMMA FlattenTypes ==
  ASSUME NEW S, NEW ss \in Seq(Seq(S))
  PROVE  \A k \in 0 .. Len(ss) : FlattenSeq(SubSeq(ss, 1, k)) \in Seq(S)
<1> DEFINE F(k) == FlattenSeq(SubSeq(ss, 1, k))
           Bad == {k \in 0 .. Len(ss) : F(k) \notin Seq(S)}
<1>1. /\ Bad \subseteq 0 .. Len(ss)
      /\ \A k \in 0 .. Len(ss) : k \notin Bad <=> F(k) \in Seq(S)
  OBVIOUS
<1>2. Len(ss) \in Nat
  BY LenProperties
<1>3. F(0) = <<>>
  <2>1. 1 \in Int /\ 0 \in Int /\ 0 < 1
    OBVIOUS
  <2>2. SubSeq(ss, 1, 0) = <<>>
    BY <2>1, SubSeqEmpty, Zenon
  <2> QED
    BY <2>2, FlattenEmpty
<1>4. \A k \in 1 .. Len(ss) : F(k) = F(k - 1) \o ss[k]
  BY FlattenStep
<1> HIDE DEF Bad, F
<1> SUFFICES ASSUME Bad # {} PROVE FALSE
  BY <1>1 DEF F
<1>5. Bad \in SUBSET Nat
  BY <1>1, <1>2
<1> DEFINE b == Least(Bad)
<1>6. b \in Bad /\ \A j \in Bad : b <= j
  BY <1>5, LeastIsLeast
<1> HIDE DEF b
<1>7. b # 0
  <2>1. 0 \in 0 .. Len(ss)
    BY <1>2
  <2>2. F(0) \in Seq(S)
    BY <1>3, EmptySeq, Zenon
  <2> QED
    BY <1>1, <1>6, <2>1, <2>2
<1>8. b \in 1 .. Len(ss) /\ b - 1 \in 0 .. Len(ss) /\ b - 1 \notin Bad
  BY <1>1, <1>2, <1>6, <1>7
<1>9. F(b - 1) \in Seq(S) /\ ss[b] \in Seq(S)
  BY <1>1, <1>8, ElementOfSeq
<1>10. F(b) \in Seq(S)
  BY <1>4, <1>8, <1>9, ConcatProperties
<1>11. b \in 0 .. Len(ss)
  BY <1>2, <1>8
<1> QED
  BY <1>1, <1>6, <1>10, <1>11

LEMMA FlattenType ==
  ASSUME NEW S, NEW ss \in Seq(Seq(S))
  PROVE  FlattenSeq(ss) \in Seq(S)
<1>1. Len(ss) \in 0 .. Len(ss) /\ SubSeq(ss, 1, Len(ss)) = ss
  BY LenProperties, SubSeqFull
<1> QED
  BY <1>1, FlattenTypes

-----------------------------------------------------------------------------
(* What a client sends is bytes.                                           *)

LEMMA HeadersType ==
  ASSUME NEW hs \in Seq(Seq({"x", "k", "a"}) \ {<<>>})
  PROVE  /\ Len(hs) \in Nat /\ DOMAIN hs = 1 .. Len(hs)
         /\ \A i \in 1 .. Len(hs) : hs[i] \in Seq(Byte)
         /\ hs \in Seq(Seq(Byte))
         /\ [i \in DOMAIN hs |-> hs[i] \o CRLF] \in Seq(Seq(Byte))
<1>1. Len(hs) \in Nat /\ DOMAIN hs = 1 .. Len(hs)
  BY LenProperties
<1>2. {"x", "k", "a"} \subseteq Byte
  BY DEF Byte
<1>3. \A i \in 1 .. Len(hs) : hs[i] \in Seq(Byte)
  <2> SUFFICES ASSUME NEW i \in 1 .. Len(hs) PROVE hs[i] \in Seq(Byte)
    OBVIOUS
  <2>1. hs[i] \in Seq({"x", "k", "a"})
    BY ElementOfSeq
  <2> QED
    BY <1>2, <2>1, SeqMonotonic
<1>4. CRLF \in Seq(Byte)
  BY SMT DEF CRLF, Byte
<1>5. hs \in Seq(Seq(Byte))
  <2>1. hs \in [1 .. Len(hs) -> Seq(Byte)]
    BY <1>1, <1>3, LenProperties
  <2> QED
    BY <1>1, <2>1, FunctionIsSeq
<1>6. [i \in DOMAIN hs |-> hs[i] \o CRLF] \in [1 .. Len(hs) -> Seq(Byte)]
  BY <1>1, <1>3, <1>4, ConcatProperties
<1>7. [i \in DOMAIN hs |-> hs[i] \o CRLF] \in Seq(Seq(Byte))
  BY <1>1, <1>6, SeqDef
<1> QED
  BY <1>1, <1>3, <1>5, <1>7

LEMMA EncodeType ==
  ASSUME NEW r \in Requests
  PROVE  /\ r.method \in Seq(Byte) /\ r.uri \in Seq(Byte)
         /\ FlattenSeq([i \in DOMAIN r.headers |-> r.headers[i] \o CRLF])
              \in Seq(Byte)
         /\ Encode(r) \in Seq(Byte)
<1> DEFINE H == [i \in DOMAIN r.headers |-> r.headers[i] \o CRLF]
           F == FlattenSeq(H)
<1>1. /\ r.method \in Seq({"x"}) /\ r.uri \in Seq({"x"})
      /\ r.headers \in Seq(Seq({"x", "k", "a"}) \ {<<>>})
  BY DEF Requests
<1>2. {"x"} \subseteq Byte
  BY DEF Byte
<1>3. r.method \in Seq(Byte) /\ r.uri \in Seq(Byte)
  BY <1>1, <1>2, SeqMonotonic
<1>4. F \in Seq(Byte)
  <2>1. H \in Seq(Seq(Byte))
    BY <1>1, HeadersType
  <2> HIDE DEF H
  <2> QED
    BY <2>1, FlattenType
<1>5. CRLF \in Seq(Byte) /\ <<"sp">> \in Seq(Byte) /\ <<"sp", "x">> \in Seq(Byte)
  BY SMT DEF CRLF, Byte
<1> HIDE DEF F
<1> DEFINE s1 == r.method \o <<"sp">>
           s2 == s1 \o r.uri
           s3 == s2 \o <<"sp", "x">>
           s4 == s3 \o CRLF
           s5 == s4 \o F
<1>6. s1 \in Seq(Byte)
  BY <1>3, <1>5, ConcatProperties
<1> HIDE DEF s1
<1>7. s2 \in Seq(Byte)
  BY <1>3, <1>6, ConcatProperties
<1> HIDE DEF s2
<1>8. s3 \in Seq(Byte)
  BY <1>5, <1>7, ConcatProperties
<1> HIDE DEF s3
<1>9. s4 \in Seq(Byte)
  BY <1>5, <1>8, ConcatProperties
<1> HIDE DEF s4
<1>10. s5 \in Seq(Byte)
  BY <1>4, <1>9, ConcatProperties
<1> HIDE DEF s5
<1>11. s5 \o CRLF \in Seq(Byte)
  BY <1>5, <1>10, ConcatProperties
<1>12. Encode(r) = s5 \o CRLF
  BY DEF Encode, s1, s2, s3, s4, s5, F
<1> QED
  BY <1>3, <1>4, <1>11, <1>12 DEF F

LEMMA WireType ==
  ASSUME NEW rs \in Seq(Requests)
  PROVE  /\ [i \in DOMAIN rs |-> Encode(rs[i])] \in Seq(Seq(Byte))
         /\ WireOf(rs) \in Seq(Byte)
<1> DEFINE E == [i \in DOMAIN rs |-> Encode(rs[i])]
<1>1. Len(rs) \in Nat /\ DOMAIN rs = 1 .. Len(rs)
  BY LenProperties
<1>2. \A i \in 1 .. Len(rs) : Encode(rs[i]) \in Seq(Byte)
  BY ElementOfSeq, EncodeType
<1>3. E \in [1 .. Len(rs) -> Seq(Byte)]
  BY <1>1, <1>2
<1>4. E \in Seq(Seq(Byte))
  BY <1>1, <1>3, SeqDef
<1>5. WireOf(rs) = FlattenSeq(E)
  BY DEF WireOf
<1> HIDE DEF E
<1>6. WireOf(rs) \in Seq(Byte)
  BY <1>4, <1>5, FlattenType
<1> QED
  BY <1>4, <1>6 DEF E

-----------------------------------------------------------------------------
(* Types.                                                                  *)

Outcomes == Errors \cup {"SC_OK", "SC_FINISHED"}

LEMMA SpacesType ==
  ASSUME NEW s \in Seq(Byte)
  PROVE  /\ MethodEnd(s) \in 1 .. Len(s) + 1
         /\ UriStart(s) \in MethodEnd(s) + 1 .. Len(s) \cup {Len(s) + 1}
         /\ UriEnd(s) \in 1 .. Len(s) + 1
<1>1. Len(s) \in Nat
  BY LenProperties
<1> DEFINE m == Spaces(s) \cup {Len(s) + 1}
<1>2. MethodEnd(s) \in m
  <2>1. m \in SUBSET Nat /\ m # {}
    BY <1>1 DEF Spaces
  <2> QED
    BY <2>1, LeastIsLeast DEF MethodEnd
<1>3. MethodEnd(s) \in 1 .. Len(s) + 1
  BY <1>1, <1>2 DEF Spaces
<1> DEFINE u == {i \in MethodEnd(s) + 1 .. Len(s) : s[i] # "sp"}
                  \cup {Len(s) + 1}
<1>4. UriStart(s) \in u
  <2>1. u \in SUBSET Nat /\ u # {}
    BY <1>1, <1>3
  <2> QED
    BY <2>1, LeastIsLeast DEF UriStart
<1> DEFINE e == {i \in Spaces(s) : i > UriStart(s)} \cup {Len(s) + 1}
<1>5. UriEnd(s) \in e
  <2>1. e \in SUBSET Nat /\ e # {}
    BY <1>1 DEF Spaces
  <2> QED
    BY <2>1, LeastIsLeast DEF UriEnd
<1>6. UriEnd(s) \in 1 .. Len(s) + 1
  BY <1>1, <1>5 DEF Spaces
<1> QED
  BY <1>3, <1>4, <1>6

\* What get_http_msg writes is text of the line.
LEMMA MessageType ==
  ASSUME NEW s \in Seq(Byte), IsRequestLine(s)
  PROVE  get_http_msg(s) \in Messages
<1>1. Len(s) \in Nat /\ \A i \in 1 .. Len(s) : s[i] \in Byte
  BY LenProperties, ElementOfSeq
<1>2. /\ MethodEnd(s) \in 1 .. Len(s) + 1 /\ MethodEnd(s) <= Len(s)
      /\ UriEnd(s) \in 1 .. Len(s) + 1 /\ UriEnd(s) <= Len(s)
      /\ UriStart(s) \in MethodEnd(s) + 1 .. Len(s) \cup {Len(s) + 1}
  BY SpacesType DEF IsRequestLine, MethodFits, UriFits
<1>3. SubSeq(s, 1, MethodLen(s)) \in Seq(Byte)
  <2>1. MethodLen(s) \in Int /\ MethodLen(s) <= Len(s)
    BY <1>1, <1>2 DEF MethodLen
  <2> QED
    BY <1>1, <2>1, SubSeqProperties
<1>4. SubSeq(s, UriStart(s), UriEnd(s) - 1) \in Seq(Byte)
  <2>1. UriStart(s) \in 1 .. Len(s) + 1 /\ UriEnd(s) - 1 \in 0 .. Len(s)
    BY <1>1, <1>2
  <2>2. \A i \in UriStart(s) .. UriEnd(s) - 1 : i \in 1 .. Len(s)
    BY <1>1, <2>1
  <2> QED
    BY <1>1, <2>1, <2>2, SubSeqProperties
<1> QED
  BY <1>3, <1>4 DEF get_http_msg, Messages

\* parse_all_headers, whatever next_header returns to it.
LEMMA HeaderReadType ==
  ASSUME TypeOK, NEW err \in Outcomes, NEW line \in Seq(Byte),
         HeaderRead(err, line)
  PROVE  /\ pc' \in {"idle", "line", "headers", "done"}
         /\ buf' = <<>>
         /\ error_count' \in 0 .. SC_MAX_HEADER_ERROR_COUNT - 1
         /\ msg' \in Messages
         /\ headers' \in Seq(Seq(Byte))
         /\ keep_alive' \in BOOLEAN
         /\ parsed' \in Seq(Results)
         /\ overrun' \in BOOLEAN
         /\ \/ headers' = headers \/ headers' = <<>>
            \/ headers' = <<line>> \o headers
<1> USE ParserAssumption
<1>1. UNSET \in Messages /\ <<>> \in Seq(Seq(Byte))
  BY EmptySeq DEF Messages
<1>2. ASSUME NEW how \in {"ok", "gaveup"}, Return(how, keep_alive)
      PROVE  /\ pc' \in {"idle", "line", "headers", "done"}
             /\ buf' = <<>>
             /\ error_count' \in 0 .. SC_MAX_HEADER_ERROR_COUNT - 1
             /\ msg' \in Messages
             /\ headers' \in Seq(Seq(Byte)) /\ headers' = <<>>
             /\ keep_alive' \in BOOLEAN
             /\ parsed' \in Seq(Results)
             /\ overrun' \in BOOLEAN
  <2>1. [how |-> how, msg |-> msg, headers |-> headers,
         keep_alive |-> keep_alive] \in Results
    BY DEF Results, TypeOK
  <2>2. parsed' \in Seq(Results)
    BY <1>2, <2>1, AppendProperties DEF Return, TypeOK
  <2>3. error_count' \in 0 .. SC_MAX_HEADER_ERROR_COUNT - 1
    BY <1>2 DEF Return
  <2>4. /\ pc' \in {"idle", "line", "headers", "done"}
        /\ keep_alive' \in BOOLEAN /\ overrun' \in BOOLEAN
    BY <1>2 DEF Return, TypeOK
  <2>5. buf' = <<>> /\ msg' = UNSET /\ headers' = <<>>
    BY <1>2 DEF Return
  <2> QED
    BY <1>1, <2>2, <2>3, <2>4, <2>5
<1>3. CASE LineFails(err, line)
  <2>1. [how |-> "refused", msg |-> UNSET, headers |-> <<>>,
         keep_alive |-> FALSE] \in Results
    BY <1>1 DEF Results
  <2>2. parsed' \in Seq(Results)
    BY <1>3, <2>1, AppendProperties DEF LineFails, TypeOK
  <2> QED
    BY <1>3, <2>2 DEF LineFails, TypeOK
<1>4. CASE LineDone(err, line)
  BY <1>4, MessageType DEF LineDone, NextCall, TypeOK
<1>5. CASE HeaderFails(err)
  <2>1. CASE error_count + 1 >= SC_MAX_HEADER_ERROR_COUNT
    BY <1>2, <1>5, <2>1 DEF HeaderFails
  <2>2. CASE ~ (error_count + 1 >= SC_MAX_HEADER_ERROR_COUNT)
    BY <1>5, <2>2 DEF HeaderFails, NextCall, TypeOK
  <2> QED
    BY <2>1, <2>2
<1>6. CASE HeaderDone(err, line)
  <2>1. headers' \in Seq(Seq(Byte))
    BY <1>6, ConcatProperties DEF HeaderDone, TypeOK
  <2>2. keep_alive' \in BOOLEAN
    BY <1>6 DEF HeaderDone, TypeOK, AsksKeepAlive
  <2> QED
    BY <1>6, <2>1, <2>2 DEF HeaderDone, NextCall, TypeOK
<1>7. CASE HeadersDone(err)
  BY <1>2, <1>7 DEF HeadersDone
<1> QED
  BY <1>3, <1>4, <1>5, <1>6, <1>7 DEF HeaderRead

\* What next_header calls parse_all_headers with.
LEMMA OutcomeType ==
  ASSUME NEW line
  PROVE  Outcome(line) \in Outcomes
BY DEF Outcome, Outcomes

LEMMA FrontType ==
  ASSUME NEW s \in Seq(Byte), s # <<>>
  PROVE  /\ Front(s) \in Seq(Byte) /\ Len(Front(s)) = Len(s) - 1
         /\ \A i \in 1 .. Len(s) - 1 : Front(s)[i] = s[i]
         /\ Len(s) \in Nat \ {0} /\ Last(s) = s[Len(s)]
<1>1. Len(s) \in Nat \ {0} /\ \A i \in 1 .. Len(s) : s[i] \in Byte
  BY EmptySeq, LenProperties, ElementOfSeq
<1>2. /\ SubSeq(s, 1, Len(s) - 1) \in Seq(Byte)
      /\ Len(SubSeq(s, 1, Len(s) - 1)) = Len(s) - 1
      /\ \A i \in 1 .. Len(s) - 1 : SubSeq(s, 1, Len(s) - 1)[i] = s[i]
  <2>1. Len(s) - 1 \in 0 .. Len(s)
    BY <1>1
  <2> QED
    BY <2>1, PrefixProperties
<1> QED
  BY <1>1, <1>2 DEF Front, Last

\* Every step of the parser that calls parse_all_headers, in one.
LEMMA Calls ==
  ASSUME TypeOK, Overflow \/ ReadLineEnd \/ ReadNothing \/ ReadFails
  PROVE  /\ UNCHANGED <<sent, wire>>
         /\ \E err \in Outcomes : \E line \in Seq(Byte) :
              /\ HeaderRead(err, line)
              /\ line = buf \/ (buf # <<>> /\ line = Front(buf))
<1>1. "SC_BUFFER_OVERFLOW_ERR" \in Outcomes /\ "SC_READ_ERR" \in Outcomes
  BY DEF Outcomes, Errors
<1>2. buf \in Seq(Byte)
  BY DEF TypeOK
<1>3. CASE Overflow
  BY <1>1, <1>2, <1>3 DEF Overflow, client
<1>4. CASE ReadLineEnd
  BY <1>2, <1>4, FrontType, OutcomeType DEF ReadLineEnd, AtLineEnd, client
<1>5. CASE ReadNothing
  BY <1>2, <1>5, OutcomeType DEF ReadNothing, client
<1>6. CASE ReadFails
  BY <1>1, <1>2, <1>6 DEF ReadFails
<1> QED
  BY <1>3, <1>4, <1>5, <1>6

LEMMA SentType ==
  ASSUME sent \in Sendable, wire = WireOf(sent)
  PROVE  sent \in Seq(Requests) /\ wire \in Seq(Byte) /\ Len(wire) \in Nat
BY ParserAssumption, WireType, LenProperties

LEMMA InitTyped == Init => TypeOK
<1> SUFFICES ASSUME Init PROVE TypeOK
  OBVIOUS
<1>1. wire \in Seq(Byte) /\ Len(wire) \in Nat
  BY SentType DEF Init
<1>2. /\ <<>> \in Seq(Byte) /\ <<>> \in Seq(Seq(Byte)) /\ <<>> \in Seq(Results)
  BY EmptySeq
<1>3. error_count \in 0 .. SC_MAX_HEADER_ERROR_COUNT - 1
  BY ParserAssumption DEF Init
<1>4. segments \in 0 .. MaxSegments
  BY ParserAssumption DEF Init
<1>5. pos \in 0 .. arrived /\ arrived \in 0 .. Len(wire)
  BY <1>1 DEF Init
<1> QED
  BY <1>2, <1>3, <1>4, <1>5 DEF Init, TypeOK, Messages

LEMMA StaysTyped == TypeOK /\ [Next]_vars => TypeOK'
<1> SUFFICES ASSUME TypeOK, [Next]_vars PROVE TypeOK'
  OBVIOUS
<1>1. wire \in Seq(Byte) /\ Len(wire) \in Nat
  BY SentType DEF TypeOK
<1>2. CASE Arrive
  <2>1. arrived' \in 0 .. Len(wire) /\ pos \in 0 .. arrived'
    BY <1>1, <1>2 DEF Arrive, TypeOK
  <2>2. segments' \in 0 .. MaxSegments
    BY <1>2, ParserAssumption DEF Arrive, TypeOK
  <2>3. whole' \in BOOLEAN
    BY <1>2 DEF Arrive, TypeOK
  <2> QED
    BY <1>2, <2>1, <2>2, <2>3 DEF Arrive, TypeOK, parser
<1>3. CASE End
  BY <1>3 DEF End, TypeOK, parser
<1>4. CASE Begin
  BY <1>4 DEF Begin, TypeOK, client
<1>5. CASE HangUp
  BY <1>5 DEF HangUp, TypeOK, client
<1>6. CASE ReadByte
  <2>1. pos + 1 \in 0 .. arrived /\ pos + 1 \in 1 .. Len(wire)
    BY <1>1, <1>6 DEF ReadByte, CanRead, TypeOK
  <2>2. wire[pos + 1] \in Byte
    BY <1>1, <2>1, ElementOfSeq
  <2>3. Append(buf, wire[pos + 1]) \in Seq(Byte)
    BY <2>2, AppendProperties DEF TypeOK
  <2> QED
    BY <1>6, <2>1, <2>3 DEF ReadByte, TypeOK, client
<1>7. CASE Overflow \/ ReadLineEnd \/ ReadNothing \/ ReadFails
  <2>1. PICK err \in Outcomes : \E line \in Seq(Byte) : HeaderRead(err, line)
    BY <1>7, Calls
  <2>2. PICK line \in Seq(Byte) : HeaderRead(err, line)
    BY <2>1
  <2>3. /\ pc' \in {"idle", "line", "headers", "done"}
        /\ buf' = <<>>
        /\ error_count' \in 0 .. SC_MAX_HEADER_ERROR_COUNT - 1
        /\ msg' \in Messages
        /\ headers' \in Seq(Seq(Byte))
        /\ keep_alive' \in BOOLEAN
        /\ parsed' \in Seq(Results)
        /\ overrun' \in BOOLEAN
    BY <2>2, HeaderReadType
  <2>4. <<>> \in Seq(Byte)
    BY EmptySeq
  <2>5. /\ sent' \in Sendable /\ wire' = WireOf(sent')
        /\ segments' \in 0 .. MaxSegments
        /\ ended' \in {"open", "fin", "rst"}
        /\ whole' \in BOOLEAN
    BY <1>7 DEF Overflow, ReadLineEnd, ReadNothing, ReadFails, client, TypeOK
  <2>6. pos' \in 0 .. arrived' /\ arrived' \in 0 .. Len(wire')
    BY <1>1, <1>7 DEF Overflow, ReadLineEnd, ReadNothing, ReadFails, CanRead,
                      client, TypeOK
  <2> QED
    BY <2>3, <2>4, <2>5, <2>6 DEF TypeOK
<1>8. CASE UNCHANGED vars
  BY <1>8 DEF vars, client, parser, TypeOK
<1> QED
  BY <1>2, <1>3, <1>4, <1>5, <1>6, <1>7, <1>8 DEF Next, Parse

\* Every variable of the parser stays in its range, whatever is sent and
\* however it comes: in particular parse_all_headers never counts as many
\* errors as it gives up at.
THEOREM ParserTyped == Spec => []TypeOK
<1>1. Init => TypeOK
  BY InitTyped
<1>2. TypeOK /\ [Next]_vars => TypeOK'
  BY StaysTyped
<1> QED
  BY <1>1, <1>2, PTL DEF Spec

\* A byte is read into header_buf only where its terminator still has room
\* behind it: next_header's length test, and the fresh buffer of every call.
THEOREM ParserBuffer == Spec => []BufferHolds
<1>1. Init => BufferHolds
  BY ParserAssumption, EmptySeq DEF Init, BufferHolds
<1>2. TypeOK /\ BufferHolds /\ [Next]_vars => BufferHolds'
  <2> SUFFICES ASSUME TypeOK, BufferHolds, [Next]_vars PROVE BufferHolds'
    OBVIOUS
  <2>1. CASE ReadByte
    <3>1. Len(wire) \in Nat /\ wire \in Seq(Byte)
      BY SentType DEF TypeOK
    <3>2. pos + 1 \in 1 .. Len(wire)
      BY <2>1, <3>1 DEF ReadByte, CanRead, TypeOK
    <3>3. Len(buf) \in Nat /\ Len(buf') = Len(buf) + 1
      BY <2>1, <3>1, <3>2, ElementOfSeq, AppendProperties, LenProperties
      DEF ReadByte, TypeOK
    <3> QED
      BY <2>1, <3>3, ParserAssumption DEF ReadByte, CanRead, Full, BufferHolds
  <2>2. CASE Overflow \/ ReadLineEnd \/ ReadNothing \/ ReadFails
    <3>1. buf' = <<>>
      BY <2>2, Calls, HeaderReadType
    <3> QED
      BY <3>1, EmptySeq, ParserAssumption DEF BufferHolds
  <2>3. CASE Arrive \/ End \/ Begin \/ HangUp \/ UNCHANGED vars
    <3>1. buf' = buf
      BY <2>3 DEF Arrive, End, Begin, HangUp, vars, parser
    <3> QED
      BY <3>1 DEF BufferHolds
  <2> QED
    BY <2>1, <2>2, <2>3 DEF Next, Parse
<1> QED
  BY <1>1, <1>2, ParserTyped, PTL DEF Spec

-----------------------------------------------------------------------------
(* What header_buf holds.                                                  *)

\* What is in header_buf is the last that was read, and no end of a line.
Gathered ==
  /\ Len(buf) <= pos
  /\ \A i \in 1 .. Len(buf) : buf[i] = wire[pos - Len(buf) + i]
  /\ \A j \in 1 .. Len(buf) - 1 : ~ (buf[j] = "cr" /\ buf[j + 1] = "lf")

LEMMA EmptyIsGathered ==
  ASSUME TypeOK, buf = <<>>
  PROVE  Gathered
BY SentType, EmptySeq, SMT DEF TypeOK, Gathered

LEMMA StaysGathered ==
  TypeOK /\ Gathered /\ [Next]_vars => Gathered'
<1> SUFFICES ASSUME TypeOK, Gathered, [Next]_vars PROVE Gathered'
  OBVIOUS
<1>1. wire \in Seq(Byte) /\ Len(wire) \in Nat /\ Len(buf) \in Nat
  BY SentType, LenProperties DEF TypeOK
<1>2. TypeOK'
  BY StaysTyped
<1>3. CASE ReadByte
  <2>1. pos \in Nat /\ pos + 1 \in 1 .. Len(wire)
    BY <1>1, <1>3 DEF ReadByte, CanRead, TypeOK
  <2> DEFINE c == wire[pos + 1]
  <2>2. c \in Byte
    BY <1>1, <2>1, ElementOfSeq
  <2>3. /\ buf' = Append(buf, c) /\ pos' = pos + 1 /\ wire' = wire
        /\ ~ (buf # <<>> /\ Last(buf) = "cr" /\ c = "lf")
    BY <1>3 DEF ReadByte, AtLineEnd, client
  <2>4. /\ Len(buf') = Len(buf) + 1 /\ buf'[Len(buf) + 1] = c
        /\ \A i \in 1 .. Len(buf) : buf'[i] = buf[i]
    BY <2>2, <2>3, AppendProperties DEF TypeOK
  <2>5. Len(buf) # 0 => buf # <<>> /\ Last(buf) = buf[Len(buf)]
    BY EmptySeq DEF Last
  <2> HIDE DEF c
  <2>6. \A i \in 1 .. Len(buf') : buf'[i] = wire'[pos' - Len(buf') + i]
    <3> SUFFICES ASSUME NEW i \in 1 .. Len(buf')
                 PROVE  buf'[i] = wire'[pos' - Len(buf') + i]
      OBVIOUS
    <3>1. pos' - Len(buf') + i = pos - Len(buf) + i
      BY <1>1, <2>1, <2>3, <2>4
    <3>2. CASE i = Len(buf) + 1
      <4>1. pos - Len(buf) + i = pos + 1
        BY <1>1, <2>1, <3>2
      <4> QED
        BY <2>3, <2>4, <3>1, <3>2, <4>1 DEF c
    <3>3. CASE i \in 1 .. Len(buf)
      BY <2>3, <2>4, <3>1, <3>3 DEF Gathered
    <3> QED
      BY <1>1, <2>4, <3>2, <3>3
  <2>7. \A j \in 1 .. Len(buf') - 1 :
          ~ (buf'[j] = "cr" /\ buf'[j + 1] = "lf")
    <3> SUFFICES ASSUME NEW j \in 1 .. Len(buf') - 1
                 PROVE  ~ (buf'[j] = "cr" /\ buf'[j + 1] = "lf")
      OBVIOUS
    <3>1. CASE j = Len(buf)
      BY <1>1, <2>3, <2>4, <2>5, <3>1
    <3>2. CASE j \in 1 .. Len(buf) - 1
      <4>1. j \in 1 .. Len(buf) /\ j + 1 \in 1 .. Len(buf)
        BY <1>1, <3>2
      <4> QED
        BY <2>4, <3>2, <4>1 DEF Gathered
    <3> QED
      BY <1>1, <2>4, <3>1, <3>2
  <2>8. Len(buf') <= pos'
    BY <1>1, <2>1, <2>3, <2>4 DEF Gathered
  <2> QED
    BY <2>6, <2>7, <2>8 DEF Gathered
<1>4. CASE Overflow \/ ReadLineEnd \/ ReadNothing \/ ReadFails
  <2>1. buf' = <<>>
    BY <1>4, Calls, HeaderReadType
  <2>2. Len(buf') = 0 /\ pos' \in Nat
    BY <1>2, <2>1, EmptySeq DEF TypeOK
  <2> QED
    BY <2>2 DEF Gathered
<1>5. CASE Arrive \/ End \/ Begin \/ HangUp \/ UNCHANGED vars
  <2>1. UNCHANGED <<buf, pos, wire>>
    BY <1>5 DEF Arrive, End, Begin, HangUp, vars, parser, client
  <2> QED
    BY <2>1 DEF Gathered
<1> QED
  BY <1>3, <1>4, <1>5 DEF Next, Parse

-----------------------------------------------------------------------------
(* Where the sequences are that are strung together.                       *)

\* Where the first k of the sequences ss end.
EndOf(ss, k) == Len(FlattenSeq(SubSeq(ss, 1, k)))

LEMMA FlattenEnds ==
  ASSUME NEW S, NEW ss \in Seq(Seq(S))
  PROVE  /\ Len(ss) \in Nat
         /\ EndOf(ss, 0) = 0
         /\ \A k \in 0 .. Len(ss) : EndOf(ss, k) \in Nat
         /\ \A k \in 1 .. Len(ss) :
              /\ ss[k] \in Seq(S) /\ Len(ss[k]) \in Nat
              /\ EndOf(ss, k) = EndOf(ss, k - 1) + Len(ss[k])
         /\ EndOf(ss, Len(ss)) = Len(FlattenSeq(ss))
<1>1. Len(ss) \in Nat
  BY LenProperties
<1>2. EndOf(ss, 0) = 0
  <2>1. SubSeq(ss, 1, 0) = <<>>
    BY <1>1, PrefixProperties, EmptySeq
  <2> QED
    BY <2>1, FlattenEmpty, EmptySeq DEF EndOf
<1>3. \A k \in 0 .. Len(ss) : EndOf(ss, k) \in Nat
  BY FlattenTypes, LenProperties DEF EndOf
<1>4. ASSUME NEW k \in 1 .. Len(ss)
      PROVE  /\ ss[k] \in Seq(S) /\ Len(ss[k]) \in Nat
             /\ EndOf(ss, k) = EndOf(ss, k - 1) + Len(ss[k])
  <2>1. k - 1 \in 0 .. Len(ss)
    BY <1>1
  <2>2. ss[k] \in Seq(S) /\ Len(ss[k]) \in Nat
    BY ElementOfSeq, LenProperties
  <2> DEFINE a == FlattenSeq(SubSeq(ss, 1, k - 1))
             b == FlattenSeq(SubSeq(ss, 1, k))
  <2>3. a \in Seq(S)
    BY <2>1, FlattenTypes
  <2>4. b = a \o ss[k]
    BY FlattenStep
  <2>5. EndOf(ss, k) = Len(b) /\ EndOf(ss, k - 1) = Len(a)
    BY DEF EndOf
  <2> HIDE DEF a, b
  <2>6. Len(b) = Len(a) + Len(ss[k])
    BY <2>2, <2>3, <2>4, ConcatProperties
  <2> QED
    BY <2>2, <2>5, <2>6
<1>5. EndOf(ss, Len(ss)) = Len(FlattenSeq(ss))
  BY SubSeqFull DEF EndOf
<1> QED
  BY <1>1, <1>2, <1>3, <1>4, <1>5

\* More sequences behind them change nothing about the first.
LEMMA FlattenPrefix ==
  ASSUME NEW S, NEW ss \in Seq(Seq(S)), NEW j \in 0 .. Len(ss)
  PROVE  \A k \in j .. Len(ss) :
           /\ EndOf(ss, j) <= EndOf(ss, k)
           /\ \A i \in 1 .. EndOf(ss, j) :
                FlattenSeq(SubSeq(ss, 1, k))[i] = FlattenSeq(SubSeq(ss, 1, j))[i]
<1> DEFINE F(k) == FlattenSeq(SubSeq(ss, 1, k))
           n == EndOf(ss, j)
           Good(k) == n <= EndOf(ss, k) /\ \A i \in 1 .. n : F(k)[i] = F(j)[i]
           Bad == {k \in j .. Len(ss) : ~ Good(k)}
<1>1. Bad \subseteq j .. Len(ss) /\ \A k \in j .. Len(ss) : k \notin Bad <=> Good(k)
  OBVIOUS
<1>2. Len(ss) \in Nat /\ n \in Nat
  BY FlattenEnds
<1>3. \A k \in 0 .. Len(ss) : F(k) \in Seq(S) /\ EndOf(ss, k) = Len(F(k))
  BY FlattenTypes DEF EndOf
<1>4. \A k \in 1 .. Len(ss) : F(k) = F(k - 1) \o ss[k] /\ ss[k] \in Seq(S)
  BY FlattenStep, ElementOfSeq
<1>5. Good(j)
  BY <1>2
<1> HIDE DEF Bad, F, n
<1> SUFFICES ASSUME Bad # {} PROVE FALSE
  BY <1>1 DEF F, n
<1>6. Bad \in SUBSET Nat
  BY <1>1, <1>2
<1> DEFINE b == Least(Bad)
<1>7. b \in Bad /\ \A i \in Bad : b <= i
  BY <1>6, LeastIsLeast
<1> HIDE DEF b
<1>8. b \in j .. Len(ss) /\ b # j
  BY <1>1, <1>5, <1>7
<1>9. b \in 1 .. Len(ss) /\ b - 1 \in j .. Len(ss) /\ b - 1 \in 0 .. Len(ss)
      /\ b \in 0 .. Len(ss) /\ b - 1 \notin Bad
  BY <1>2, <1>7, <1>8
<1> DEFINE p == F(b - 1)
           q == ss[b]
           r == F(b)
<1>10. n <= EndOf(ss, b - 1) /\ \A i \in 1 .. n : p[i] = F(j)[i]
  BY <1>1, <1>9
<1>11. /\ p \in Seq(S) /\ EndOf(ss, b - 1) = Len(p) /\ q \in Seq(S)
       /\ EndOf(ss, b) = Len(r) /\ r = p \o q
  BY <1>3, <1>4, <1>9
<1> HIDE DEF p, q, r
<1>12. /\ Len(r) = Len(p) + Len(q) /\ Len(p) \in Nat /\ Len(q) \in Nat
       /\ \A i \in 1 .. Len(p) + Len(q) :
            r[i] = IF i <= Len(p) THEN p[i] ELSE q[i - Len(p)]
  BY <1>11, ConcatProperties, LenProperties
<1>13. \A i \in 1 .. n : r[i] = p[i]
  BY <1>2, <1>10, <1>11, <1>12
<1>14. Good(b)
  BY <1>2, <1>10, <1>11, <1>12, <1>13 DEF r
<1> QED
  BY <1>1, <1>7, <1>8, <1>14

\* Each of them is where those before it end.
LEMMA FlattenText ==
  ASSUME NEW S, NEW ss \in Seq(Seq(S)), NEW k \in 1 .. Len(ss)
  PROVE  /\ EndOf(ss, k) <= Len(FlattenSeq(ss))
         /\ \A i \in 1 .. Len(ss[k]) :
              FlattenSeq(ss)[EndOf(ss, k - 1) + i] = ss[k][i]
<1> DEFINE all == FlattenSeq(ss)
           a == FlattenSeq(SubSeq(ss, 1, k - 1))
           b == FlattenSeq(SubSeq(ss, 1, k))
           n == EndOf(ss, k - 1)
           e == EndOf(ss, k)
<1>1. /\ Len(ss) \in Nat /\ k \in 0 .. Len(ss) /\ k - 1 \in 0 .. Len(ss)
      /\ Len(ss) \in k .. Len(ss)
  BY LenProperties
<1>2. a \in Seq(S) /\ ss[k] \in Seq(S) /\ n = Len(a) /\ n \in Nat
  BY <1>1, FlattenTypes, ElementOfSeq, LenProperties DEF EndOf
<1>3. b = a \o ss[k] /\ e = n + Len(ss[k])
  BY FlattenStep, FlattenEnds
<1>4. SubSeq(ss, 1, Len(ss)) = ss
  BY SubSeqFull
<1>5. e <= EndOf(ss, Len(ss)) /\ \A i \in 1 .. e : all[i] = b[i]
  BY <1>1, <1>4, FlattenPrefix
<1>6. EndOf(ss, Len(ss)) = Len(all)
  BY <1>4 DEF EndOf
<1> HIDE DEF a, b, n, e, all
<1>7. /\ Len(ss[k]) \in Nat
      /\ \A i \in 1 .. Len(a) + Len(ss[k]) :
           b[i] = IF i <= Len(a) THEN a[i] ELSE ss[k][i - Len(a)]
  BY <1>2, <1>3, ConcatProperties, LenProperties
<1>8. ASSUME NEW i \in 1 .. Len(ss[k])
      PROVE  all[n + i] = ss[k][i]
  <2> DEFINE m == n + i
  <2>1. m \in 1 .. e /\ m \in 1 .. Len(a) + Len(ss[k])
        /\ ~ (m <= Len(a)) /\ m - Len(a) = i
    BY <1>2, <1>3, <1>7
  <2> HIDE DEF m
  <2>2. b[m] = ss[k][m - Len(a)]
    BY <1>7, <2>1
  <2>3. all[m] = ss[k][i]
    BY <1>5, <2>1, <2>2
  <2> QED
    BY <2>3 DEF m
<1> QED
  BY <1>5, <1>6, <1>8 DEF all, e, n

-----------------------------------------------------------------------------
(* The lines of a request.                                                 *)

RequestLine(r) == r.method \o <<"sp">> \o r.uri \o <<"sp", "x">>
HeaderLines(r) == [i \in DOMAIN r.headers |-> r.headers[i] \o CRLF]

\* The request line is line 0, and behind the headers comes an empty line.
LineOf(r, j) ==
  IF j = 0 THEN RequestLine(r)
  ELSE IF j <= Len(r.headers) THEN r.headers[j] ELSE <<>>
LineBegin(r, j) ==
  IF j = 0 THEN 0 ELSE Len(RequestLine(r)) + 2 + EndOf(HeaderLines(r), j - 1)

\* What a line is made of.
Text == {"x", "sp", "k", "a"}

LEMMA Marks ==
  /\ Text \subseteq Byte /\ CRLF \in Seq(Byte) /\ Len(CRLF) = 2
  /\ CRLF[1] = "cr" /\ CRLF[2] = "lf"
  /\ <<"sp">> \in Seq(Text) /\ Len(<<"sp">>) = 1 /\ <<"sp">>[1] = "sp"
  /\ <<"sp", "x">> \in Seq(Text) /\ Len(<<"sp", "x">>) = 2
  /\ <<"sp", "x">>[1] = "sp" /\ <<"sp", "x">>[2] = "x"
BY SMT DEF Text, Byte, CRLF

LEMMA RequestType ==
  ASSUME NEW r \in Requests
  PROVE  /\ r.method \in Seq(Text) /\ r.uri \in Seq(Text)
         /\ Len(r.method) \in Nat /\ Len(r.uri) \in Nat
         /\ \A i \in 1 .. Len(r.method) : r.method[i] = "x"
         /\ \A i \in 1 .. Len(r.uri) : r.uri[i] = "x"
         /\ Len(r.headers) \in Nat
         /\ \A i \in 1 .. Len(r.headers) :
              r.headers[i] \in Seq(Text) /\ r.headers[i] # <<>>
<1>1. /\ r.method \in Seq({"x"}) /\ r.uri \in Seq({"x"})
      /\ r.headers \in Seq(Seq({"x", "k", "a"}) \ {<<>>})
  BY DEF Requests
<1>2. {"x"} \subseteq Text /\ {"x", "k", "a"} \subseteq Text
  BY DEF Text
<1>3. r.method \in Seq(Text) /\ r.uri \in Seq(Text)
  BY <1>1, <1>2, SeqMonotonic
<1>4. /\ \A i \in 1 .. Len(r.method) : r.method[i] = "x"
      /\ \A i \in 1 .. Len(r.uri) : r.uri[i] = "x"
  BY <1>1, ElementOfSeq
<1>5. \A i \in 1 .. Len(r.headers) :
        r.headers[i] \in Seq({"x", "k", "a"}) /\ r.headers[i] # <<>>
  BY <1>1, ElementOfSeq
<1>6. \A i \in 1 .. Len(r.headers) : r.headers[i] \in Seq(Text)
  BY <1>2, <1>5, SeqMonotonic
<1>7. Len(r.method) \in Nat /\ Len(r.uri) \in Nat /\ Len(r.headers) \in Nat
  BY <1>1, LenProperties
<1> QED
  BY <1>3, <1>4, <1>5, <1>6, <1>7

LEMMA RequestLineIs ==
  ASSUME NEW r \in Requests
  PROVE  LET m == Len(r.method)
             u == Len(r.uri)
             s == RequestLine(r)
         IN  /\ s \in Seq(Text) /\ Len(s) = m + u + 3
             /\ \A i \in 1 .. m : s[i] = r.method[i]
             /\ s[m + 1] = "sp"
             /\ \A i \in 1 .. u : s[m + 1 + i] = r.uri[i]
             /\ s[m + u + 2] = "sp" /\ s[m + u + 3] = "x"
<1> DEFINE a == r.method
           b == r.uri
           m == Len(a)
           u == Len(b)
           sp == <<"sp">>
           end == <<"sp", "x">>
           p == a \o sp
           q == p \o b
           s == q \o end
<1>1. a \in Seq(Text) /\ b \in Seq(Text) /\ m \in Nat /\ u \in Nat
  BY RequestType
<1>2. s = RequestLine(r)
  BY DEF RequestLine
<1>3. /\ sp \in Seq(Text) /\ Len(sp) = 1 /\ sp[1] = "sp"
      /\ end \in Seq(Text) /\ Len(end) = 2 /\ end[1] = "sp" /\ end[2] = "x"
  BY Marks
<1> HIDE DEF a, b, sp, end
<1>4. p \in Seq(Text) /\ q \in Seq(Text)
  <2>1. a \in Seq(Text) /\ b \in Seq(Text) /\ sp \in Seq(Text)
    BY <1>1, <1>3
  <2>2. p \in Seq(Text)
    BY <2>1, ConcatPoints
  <2> HIDE DEF p
  <2> QED
    BY <2>1, <2>2, ConcatPoints
<1>5. /\ Len(p) = m + 1
      /\ \A i \in 1 .. m : p[i] = a[i]
      /\ \A i \in 1 .. 1 : p[m + i] = sp[i]
  <2>1. a \in Seq(Text) /\ sp \in Seq(Text)
    BY <1>1, <1>3
  <2>2. /\ Len(p) = Len(a) + Len(sp)
        /\ \A i \in 1 .. Len(a) : p[i] = a[i]
        /\ \A i \in 1 .. Len(sp) : p[Len(a) + i] = sp[i]
    BY <2>1, ConcatPoints
  <2> HIDE DEF p
  <2> QED
    BY <1>3, <2>2
<1> HIDE DEF p
<1>6. /\ Len(q) = Len(p) + u
      /\ \A i \in 1 .. Len(p) : q[i] = p[i]
      /\ \A i \in 1 .. u : q[Len(p) + i] = b[i]
  <2>1. p \in Seq(Text) /\ b \in Seq(Text)
    BY <1>1, <1>4
  <2> QED
    BY <2>1, ConcatPoints
<1> HIDE DEF q
<1>7. /\ s \in Seq(Text) /\ Len(s) = Len(q) + Len(end)
      /\ \A i \in 1 .. Len(q) : s[i] = q[i]
      /\ \A i \in 1 .. Len(end) : s[Len(q) + i] = end[i]
  <2>1. q \in Seq(Text) /\ end \in Seq(Text)
    BY <1>3, <1>4
  <2> QED
    BY <2>1, ConcatPoints
<1> HIDE DEF s, m, u
<1>8. Len(s) = m + u + 3 /\ Len(q) = m + u + 1
  BY <1>1, <1>3, <1>5, <1>6, <1>7
<1>9. ASSUME NEW i \in 1 .. m PROVE s[i] = a[i]
  <2>1. i \in 1 .. Len(p) /\ i \in 1 .. Len(q)
    BY <1>1, <1>5, <1>8
  <2> QED
    BY <1>5, <1>6, <1>7, <2>1
<1>10. s[m + 1] = "sp"
  <2>1. m + 1 \in 1 .. Len(p) /\ m + 1 \in 1 .. Len(q) /\ 1 \in 1 .. 1
    BY <1>1, <1>5, <1>8
  <2>2. p[m + 1] = sp[1]
    BY <1>5, <2>1
  <2> QED
    BY <1>3, <1>6, <1>7, <2>1, <2>2
<1>11. ASSUME NEW i \in 1 .. u PROVE s[m + 1 + i] = b[i]
  <2>1. Len(p) + i \in 1 .. Len(q) /\ Len(p) + i = m + 1 + i
    BY <1>1, <1>5, <1>8
  <2>2. q[Len(p) + i] = b[i]
    BY <1>6
  <2>3. s[Len(p) + i] = q[Len(p) + i]
    BY <1>7, <2>1
  <2> QED
    BY <2>1, <2>2, <2>3
<1>12. s[m + u + 2] = "sp" /\ s[m + u + 3] = "x"
  <2>1. /\ 1 \in 1 .. Len(end) /\ 2 \in 1 .. Len(end)
        /\ Len(q) + 1 = m + u + 2 /\ Len(q) + 2 = m + u + 3
    BY <1>1, <1>3, <1>8
  <2>2. s[Len(q) + 1] = end[1] /\ s[Len(q) + 2] = end[2]
    BY <1>7, <2>1
  <2> QED
    BY <1>3, <2>1, <2>2
<1> QED
  BY <1>2, <1>7, <1>8, <1>9, <1>10, <1>11, <1>12 DEF a, b, m, u

LEMMA LineType ==
  ASSUME NEW r \in Requests, NEW j \in 0 .. Len(r.headers) + 1
  PROVE  /\ LineOf(r, j) \in Seq(Text) /\ LineOf(r, j) \in Seq(Byte)
         /\ Len(LineOf(r, j)) \in Nat
         /\ \A i \in 1 .. Len(LineOf(r, j)) : LineOf(r, j)[i] \in Text
         /\ LineOf(r, j) = <<>> <=> j = Len(r.headers) + 1
<1>1. RequestLine(r) \in Seq(Text) /\ RequestLine(r) # <<>>
  <2>1. /\ RequestLine(r) \in Seq(Text)
        /\ Len(RequestLine(r)) = Len(r.method) + Len(r.uri) + 3
    BY RequestLineIs, Zenon
  <2>2. Len(r.method) \in Nat /\ Len(r.uri) \in Nat
    BY RequestType
  <2>3. Len(RequestLine(r)) # 0
    <3> DEFINE m == Len(r.method)
               u == Len(r.uri)
    <3>1. m \in Nat /\ u \in Nat /\ Len(RequestLine(r)) = m + u + 3
      BY <2>1, <2>2
    <3> HIDE DEF m, u
    <3> QED
      BY <3>1
  <2> QED
    BY <2>1, <2>3, EmptySeq
<1>2. /\ Len(r.headers) \in Nat /\ <<>> \in Seq(Text)
      /\ \A i \in 1 .. Len(r.headers) :
           r.headers[i] \in Seq(Text) /\ r.headers[i] # <<>>
  BY RequestType, EmptySeq
<1>3. /\ LineOf(r, j) \in Seq(Text)
      /\ LineOf(r, j) = <<>> <=> j = Len(r.headers) + 1
  <2> HIDE DEF RequestLine
  <2>1. CASE j = 0
    BY <1>1, <1>2, <2>1 DEF LineOf
  <2>2. CASE j \in 1 .. Len(r.headers)
    <3>1. LineOf(r, j) = r.headers[j]
      BY <1>2, <2>2 DEF LineOf
    <3> QED
      BY <1>2, <2>2, <3>1
  <2>3. CASE j = Len(r.headers) + 1
    <3>1. LineOf(r, j) = <<>>
      BY <1>2, <2>3 DEF LineOf
    <3> QED
      BY <1>2, <2>3, <3>1
  <2> QED
    BY <1>2, <2>1, <2>2, <2>3
<1>4. LineOf(r, j) \in Seq(Byte)
  BY <1>3, Marks, SeqMonotonic
<1> QED
  BY <1>3, <1>4, LenProperties, ElementOfSeq

\* A line and its end, as next_header finds them.
LEMMA EndedLine ==
  ASSUME NEW r \in Requests, NEW j \in 0 .. Len(r.headers) + 1
  PROVE  LET s == LineOf(r, j)
             t == LineOf(r, j) \o CRLF
         IN  /\ t \in Seq(Byte) /\ Len(t) = Len(s) + 2
             /\ \A i \in 1 .. Len(s) : t[i] = s[i] /\ t[i] \notin {"cr", "lf"}
             /\ t[Len(s) + 1] = "cr" /\ t[Len(s) + 2] = "lf"
<1> DEFINE s == LineOf(r, j)
           t == s \o CRLF
           n == Len(s)
<1>1. /\ s \in Seq(Byte) /\ n \in Nat /\ \A i \in 1 .. n : s[i] \in Text
  BY LineType
<1> HIDE DEF s
<1>2. CRLF \in Seq(Byte) /\ Len(CRLF) = 2 /\ CRLF[1] = "cr" /\ CRLF[2] = "lf"
  BY Marks
<1>3. /\ t \in Seq(Byte) /\ Len(t) = n + Len(CRLF)
      /\ \A i \in 1 .. n : t[i] = s[i]
      /\ \A i \in 1 .. Len(CRLF) : t[n + i] = CRLF[i]
  <2>1. s \in Seq(Byte) /\ CRLF \in Seq(Byte)
    BY <1>1, <1>2
  <2> QED
    BY <2>1, ConcatPoints
<1> HIDE DEF t, n
<1>4. t[n + 1] = "cr" /\ t[n + 2] = "lf"
  <2>1. 1 \in 1 .. Len(CRLF) /\ 2 \in 1 .. Len(CRLF)
    BY <1>2
  <2> QED
    BY <1>2, <1>3, <2>1
<1>5. \A i \in 1 .. n : t[i] \notin {"cr", "lf"}
  BY <1>1, <1>3 DEF Text, n
<1> QED
  BY <1>2, <1>3, <1>4, <1>5 DEF s, t, n

LEMMA HeaderLinesType ==
  ASSUME NEW r \in Requests
  PROVE  /\ HeaderLines(r) \in Seq(Seq(Byte))
         /\ Len(HeaderLines(r)) = Len(r.headers)
         /\ \A i \in 1 .. Len(r.headers) :
              HeaderLines(r)[i] = LineOf(r, i) \o CRLF
<1>1. /\ r.headers \in Seq(Seq({"x", "k", "a"}) \ {<<>>})
      /\ Len(r.headers) \in Nat /\ DOMAIN r.headers = 1 .. Len(r.headers)
  BY HeadersType DEF Requests
<1>2. HeaderLines(r) \in Seq(Seq(Byte))
  BY <1>1, HeadersType DEF HeaderLines
<1>3. \A i \in 1 .. Len(r.headers) : LineOf(r, i) = r.headers[i]
  BY <1>1 DEF LineOf
<1>4. \A i \in 1 .. Len(r.headers) : HeaderLines(r)[i] = LineOf(r, i) \o CRLF
  BY <1>1, <1>3 DEF HeaderLines
<1>5. \A i \in 1 .. Len(r.headers) : r.headers[i] \o CRLF \in Seq(Byte)
  BY <1>1, HeadersType, Marks, ConcatProperties
<1>6. HeaderLines(r) \in [1 .. Len(r.headers) -> Seq(Byte)]
  BY <1>1, <1>5 DEF HeaderLines
<1>7. Len(HeaderLines(r)) = Len(r.headers)
  BY <1>1, <1>6, FunctionIsSeq
<1> QED
  BY <1>2, <1>4, <1>7

\* The lines follow each other, and the last ends the request.
LEMMA LinesFollow ==
  ASSUME NEW r \in Requests
  PROVE  /\ \A j \in 0 .. Len(r.headers) + 1 : LineBegin(r, j) \in Nat
         /\ \A j \in 0 .. Len(r.headers) :
              LineBegin(r, j + 1) = LineBegin(r, j) + Len(LineOf(r, j)) + 2
         /\ LineBegin(r, Len(r.headers) + 1) =
              Len(RequestLine(r)) + 2 + Len(FlattenSeq(HeaderLines(r)))
<1> DEFINE h == Len(r.headers)
           H == HeaderLines(r)
           l == Len(RequestLine(r))
<1>1. h \in Nat /\ LineOf(r, 0) = RequestLine(r) /\ l \in Nat
  <2>1. h \in Nat
    BY RequestType
  <2>2. LineOf(r, 0) = RequestLine(r) /\ 0 \in 0 .. h + 1
    BY <2>1 DEF LineOf
  <2> QED
    BY <2>1, <2>2, LineType
<1>2. H \in Seq(Seq(Byte)) /\ Len(H) = h
  BY HeaderLinesType
<1>3. /\ EndOf(H, 0) = 0
      /\ \A k \in 0 .. h : EndOf(H, k) \in Nat
      /\ \A k \in 1 .. h : EndOf(H, k) = EndOf(H, k - 1) + Len(H[k])
      /\ EndOf(H, h) = Len(FlattenSeq(H))
  BY <1>2, FlattenEnds
<1>4. \A k \in 1 .. h : Len(H[k]) = Len(LineOf(r, k)) + 2
                          /\ Len(LineOf(r, k)) \in Nat
  <2> SUFFICES ASSUME NEW k \in 1 .. h
               PROVE  Len(H[k]) = Len(LineOf(r, k)) + 2
                        /\ Len(LineOf(r, k)) \in Nat
    OBVIOUS
  <2>1. k \in 0 .. h + 1
    BY <1>1
  <2>2. H[k] = LineOf(r, k) \o CRLF
    BY HeaderLinesType
  <2>3. Len(LineOf(r, k) \o CRLF) = Len(LineOf(r, k)) + 2
    BY <2>1, EndedLine
  <2> QED
    BY <2>1, <2>2, <2>3, LineType
<1>5. /\ LineBegin(r, 0) = 0
      /\ \A j \in 1 .. h + 1 : LineBegin(r, j) = l + 2 + EndOf(H, j - 1)
  BY <1>1 DEF LineBegin
<1> HIDE DEF h, H, l
<1>6. \A j \in 0 .. h + 1 : LineBegin(r, j) \in Nat
  <2> SUFFICES ASSUME NEW j \in 0 .. h + 1 PROVE LineBegin(r, j) \in Nat
    OBVIOUS
  <2>1. CASE j = 0
    BY <1>5, <2>1
  <2>2. CASE j # 0
    <3>1. j \in 1 .. h + 1 /\ j - 1 \in 0 .. h
      BY <1>1, <2>2
    <3> QED
      BY <1>1, <1>3, <1>5, <3>1
  <2> QED
    BY <2>1, <2>2
<1>7. ASSUME NEW j \in 0 .. h
      PROVE  LineBegin(r, j + 1) = LineBegin(r, j) + Len(LineOf(r, j)) + 2
  <2>1. j + 1 \in 1 .. h + 1 /\ j + 1 - 1 = j
    BY <1>1
  <2>2. LineBegin(r, j + 1) = l + 2 + EndOf(H, j)
    BY <1>5, <2>1
  <2>3. CASE j = 0
    BY <1>1, <1>3, <1>5, <2>2, <2>3 DEF l
  <2>4. CASE j # 0
    <3>1. j \in 1 .. h /\ j \in 1 .. h + 1 /\ j - 1 \in 0 .. h
      BY <1>1, <2>4
    <3>2. LineBegin(r, j) = l + 2 + EndOf(H, j - 1) /\ EndOf(H, j - 1) \in Nat
      BY <1>3, <1>5, <3>1
    <3>3. EndOf(H, j) = EndOf(H, j - 1) + Len(LineOf(r, j)) + 2
      BY <1>3, <1>4, <3>1, <3>2
    <3>4. Len(LineOf(r, j)) \in Nat
      BY <1>4, <3>1
    <3> QED
      BY <1>1, <2>2, <3>2, <3>3, <3>4
  <2> QED
    BY <2>3, <2>4
<1>8. LineBegin(r, h + 1) = l + 2 + Len(FlattenSeq(H))
  <2> DEFINE k == h + 1
  <2>1. k \in 1 .. h + 1 /\ k - 1 = h
    BY <1>1
  <2> HIDE DEF k
  <2>2. LineBegin(r, k) = l + 2 + EndOf(H, k - 1)
    BY <1>5, <2>1
  <2> QED
    BY <1>3, <2>1, <2>2 DEF k
<1> QED
  BY <1>6, <1>7, <1>8 DEF h, H, l

\* Where a line is in the text of its request.
LEMMA LineText ==
  ASSUME NEW r \in Requests, NEW j \in 0 .. Len(r.headers) + 1
  PROVE  LET s == LineOf(r, j)
         IN  /\ Encode(r) \in Seq(Byte)
             /\ LineBegin(r, j) \in Nat
             /\ LineBegin(r, j) + Len(s) + 2 <= Len(Encode(r))
             /\ j = Len(r.headers) + 1 =>
                  LineBegin(r, j) + Len(s) + 2 = Len(Encode(r))
             /\ \A i \in 1 .. Len(s) + 2 :
                  Encode(r)[LineBegin(r, j) + i] = (s \o CRLF)[i]
<1> DEFINE h == Len(r.headers)
           H == HeaderLines(r)
           A == RequestLine(r) \o CRLF
           F == FlattenSeq(H)
           p == A \o F
           c == p \o CRLF
           s == LineOf(r, j)
           t == s \o CRLF
           n == Len(s)
           b == LineBegin(r, j)
<1>1. c = Encode(r)
  BY DEF Encode, RequestLine, HeaderLines
<1>2. h \in Nat /\ 0 \in 0 .. h + 1 /\ h + 1 \in 0 .. h + 1
  BY RequestType
<1>3. /\ A \in Seq(Byte) /\ Len(A) = Len(RequestLine(r)) + 2
      /\ Len(RequestLine(r)) \in Nat
  <2>1. LineOf(r, 0) = RequestLine(r)
    BY DEF LineOf
  <2> QED
    BY <1>2, <2>1, EndedLine, LineType
<1>4. /\ H \in Seq(Seq(Byte)) /\ Len(H) = h
      /\ \A i \in 1 .. h : H[i] = LineOf(r, i) \o CRLF
  BY HeaderLinesType
<1>5. F \in Seq(Byte)
  BY <1>4, FlattenType
<1>6. CRLF \in Seq(Byte) /\ Len(CRLF) = 2
  BY Marks
<1>7. t \in Seq(Byte) /\ Len(t) = n + 2 /\ n \in Nat
  BY EndedLine, LineType
<1>8. b \in Nat /\ LineBegin(r, h + 1) = Len(A) + Len(F)
  <2>1. b \in Nat
    BY LinesFollow
  <2>2. LineBegin(r, h + 1) = Len(RequestLine(r)) + 2 + Len(F)
    BY LinesFollow
  <2> QED
    BY <1>3, <2>1, <2>2
<1> HIDE DEF A, F
<1>9. /\ p \in Seq(Byte) /\ Len(p) = Len(A) + Len(F)
      /\ Len(A) \in Nat /\ Len(F) \in Nat
      /\ \A i \in 1 .. Len(A) : p[i] = A[i]
      /\ \A i \in 1 .. Len(F) : p[Len(A) + i] = F[i]
  <2>1. A \in Seq(Byte) /\ F \in Seq(Byte)
    BY <1>3, <1>5
  <2> QED
    BY <2>1, ConcatPoints
<1> HIDE DEF p
<1>10. /\ c \in Seq(Byte) /\ Len(c) = Len(p) + Len(CRLF)
       /\ \A i \in 1 .. Len(p) : c[i] = p[i]
       /\ \A i \in 1 .. Len(CRLF) : c[Len(p) + i] = CRLF[i]
  <2>1. p \in Seq(Byte) /\ CRLF \in Seq(Byte)
    BY <1>6, <1>9
  <2> QED
    BY <2>1, ConcatPoints
<1> HIDE DEF c, n, b
<1>11. CASE j = 0
  <2>1. t = A /\ b = 0 /\ n + 2 = Len(A)
    BY <1>7, <1>11 DEF A, LineOf, LineBegin, b
  <2>2. b + n + 2 <= Len(c)
    BY <1>6, <1>7, <1>9, <1>10, <2>1
  <2>3. \A i \in 1 .. n + 2 : b + i \in 1 .. Len(p) /\ b + i \in 1 .. Len(A)
                                /\ b + i = i
    BY <1>7, <1>9, <2>1
  <2>4. \A i \in 1 .. n + 2 : c[b + i] = t[i]
    BY <1>9, <1>10, <2>1, <2>3
  <2>5. j # h + 1
    BY <1>2, <1>11
  <2> QED
    BY <1>1, <1>8, <1>10, <2>2, <2>4, <2>5 DEF s, t, n, b, h
<1>12. CASE j \in 1 .. h
  <2>1. t = H[j]
    BY <1>4, <1>12
  <2>2. /\ EndOf(H, j) <= Len(F)
        /\ \A i \in 1 .. Len(H[j]) : F[EndOf(H, j - 1) + i] = H[j][i]
    BY <1>4, <1>12, FlattenText DEF F
  <2>3. /\ EndOf(H, j - 1) \in Nat
        /\ EndOf(H, j) = EndOf(H, j - 1) + Len(H[j])
    <3>1. j - 1 \in 0 .. h
      BY <1>2, <1>12
    <3> QED
      BY <1>4, <1>12, <3>1, FlattenEnds
  <2>4. b = Len(A) + EndOf(H, j - 1)
    <3>1. j # 0
      BY <1>12
    <3> QED
      BY <1>3, <3>1 DEF LineBegin, b
  <2> DEFINE e == EndOf(H, j - 1)
  <2>5. /\ e \in Nat /\ b = Len(A) + e /\ e + n + 2 <= Len(F)
        /\ \A i \in 1 .. n + 2 : F[e + i] = t[i]
    BY <1>7, <2>1, <2>2, <2>3, <2>4
  <2> HIDE DEF e, t
  <2>6. b + n + 2 <= Len(c)
    BY <1>6, <1>7, <1>9, <1>10, <2>5
  <2>7. ASSUME NEW i \in 1 .. n + 2 PROVE c[b + i] = t[i]
    <3>1. e + i \in 1 .. Len(F) /\ b + i \in 1 .. Len(p)
          /\ b + i = Len(A) + (e + i)
      <4>1. /\ n \in Nat /\ Len(A) \in Nat /\ Len(F) \in Nat /\ e \in Nat
            /\ Len(p) = Len(A) + Len(F) /\ b = Len(A) + e
            /\ e + n + 2 <= Len(F)
        BY <1>7, <1>9, <2>5
      <4> QED
        BY <4>1
    <3>2. p[Len(A) + (e + i)] = F[e + i]
      BY <1>9, <3>1
    <3>3. c[b + i] = p[b + i]
      BY <1>10, <3>1
    <3> QED
      BY <2>5, <3>1, <3>2, <3>3
  <2>8. j # h + 1
    BY <1>2, <1>12
  <2> QED
    BY <1>1, <1>8, <1>10, <2>6, <2>7, <2>8 DEF s, t, n, b, h
<1>13. CASE j = h + 1
  <2>1. s = <<>> /\ n = 0
    <3>1. ~ (j = 0) /\ ~ (j <= h)
      BY <1>2, <1>13
    <3>2. s = <<>>
      BY <3>1 DEF LineOf
    <3> QED
      BY <3>2, EmptySeq DEF n
  <2>2. t = CRLF
    BY <1>6, <2>1, ConcatEmptySeq
  <2>3. b = Len(p)
    BY <1>8, <1>9, <1>13 DEF b
  <2>4. b + n + 2 = Len(c)
    BY <1>6, <1>9, <1>10, <2>1, <2>3
  <2>5. \A i \in 1 .. n + 2 : c[b + i] = t[i]
    BY <1>6, <1>10, <2>1, <2>2, <2>3
  <2>6. b + n + 2 <= Len(c)
    BY <1>6, <1>9, <1>10, <2>4
  <2> QED
    BY <1>1, <1>8, <1>10, <2>4, <2>5, <2>6 DEF s, t, n, b, h
<1>14. j = 0 \/ j \in 1 .. h \/ j = h + 1
  BY <1>2
<1> QED
  BY <1>11, <1>12, <1>13, <1>14

-----------------------------------------------------------------------------
(* What get_http_msg makes of a request line.                              *)

LEMMA LeastIs ==
  ASSUME NEW S \in SUBSET Nat, NEW e \in S, \A j \in S : e <= j
  PROVE  Least(S) = e
<1> DEFINE l == Least(S)
<1>1. l \in S /\ l <= e /\ e <= l
  BY LeastIsLeast
<1>2. l \in Nat /\ e \in Nat
  BY <1>1
<1> HIDE DEF l
<1>3. l = e
  BY <1>1, <1>2
<1> QED
  BY <1>3 DEF l

LEMMA RequestLineParts ==
  ASSUME NEW r \in Requests
  PROVE  LET s == RequestLine(r)
             m == Len(r.method)
             u == Len(r.uri)
         IN  /\ Len(s) = m + u + 3
             /\ MethodEnd(s) = m + 1
             /\ u = 0 => UriStart(s) = m + 3 /\ UriEnd(s) = Len(s) + 1
             /\ u # 0 => UriStart(s) = m + 2 /\ UriEnd(s) = m + u + 2
<1> DEFINE s == RequestLine(r)
           m == Len(r.method)
           u == Len(r.uri)
<1>1. m \in Nat /\ u \in Nat
  BY RequestType
<1>2. /\ Len(s) = m + u + 3
      /\ s[m + 1] = "sp" /\ s[m + u + 2] = "sp" /\ s[m + u + 3] = "x"
  BY RequestLineIs
<1>3. \A i \in 1 .. m : s[i] = "x"
  <2>1. \A i \in 1 .. m : s[i] = r.method[i]
    BY RequestLineIs
  <2>2. \A i \in 1 .. m : r.method[i] = "x"
    BY RequestType
  <2> QED
    BY <2>1, <2>2
<1>4. \A i \in 1 .. u : s[m + 1 + i] = "x"
  <2>1. \A i \in 1 .. u : s[m + 1 + i] = r.uri[i]
    BY RequestLineIs
  <2>2. \A i \in 1 .. u : r.uri[i] = "x"
    BY RequestType
  <2> QED
    BY <2>1, <2>2
<1> HIDE DEF s, m, u
<1>5. \A i \in m + 2 .. m + u + 1 : s[i] = "x"
  <2> SUFFICES ASSUME NEW i \in m + 2 .. m + u + 1 PROVE s[i] = "x"
    OBVIOUS
  <2>1. i - m - 1 \in 1 .. u /\ m + 1 + (i - m - 1) = i
    BY <1>1
  <2> QED
    BY <1>4, <2>1
<1>6. Spaces(s) = {m + 1, m + u + 2}
  <2>1. \A i \in 1 .. Len(s) : \/ i \in 1 .. m \/ i = m + 1
                               \/ i \in m + 2 .. m + u + 1
                               \/ i = m + u + 2 \/ i = m + u + 3
    BY <1>1, <1>2
  <2>2. m + 1 \in 1 .. Len(s) /\ m + u + 2 \in 1 .. Len(s)
    BY <1>1, <1>2
  <2> QED
    BY <1>2, <1>3, <1>5, <2>1, <2>2 DEF Spaces
<1>7. MethodEnd(s) = m + 1
  <2> DEFINE S == {m + 1, m + u + 2, Len(s) + 1}
  <2>1. S \in SUBSET Nat /\ m + 1 \in S /\ \A j \in S : m + 1 <= j
    BY <1>1, <1>2
  <2>2. Spaces(s) \cup {Len(s) + 1} = S
    BY <1>6
  <2> HIDE DEF S
  <2> QED
    BY <2>1, <2>2, LeastIs DEF MethodEnd
<1> DEFINE T == {i \in m + 1 + 1 .. Len(s) : s[i] # "sp"} \cup {Len(s) + 1}
<1>8. UriStart(s) = Least(T) /\ T \in SUBSET Nat
  BY <1>1, <1>2, <1>7 DEF UriStart
<1>9. CASE u = 0
  <2>1. m + 3 \in T /\ \A j \in T : m + 3 <= j
    <3>1. m + 3 \in m + 1 + 1 .. Len(s) /\ s[m + 3] # "sp"
      BY <1>1, <1>2, <1>9
    <3>2. m + 2 \notin T
      BY <1>1, <1>2, <1>9
    <3>3. \A j \in T : j \in Nat /\ m + 2 <= j
      BY <1>1, <1>2
    <3>4. \A j \in T : m + 3 <= j
      BY <1>1, <3>2, <3>3
    <3> QED
      BY <3>1, <3>4
  <2>2. UriStart(s) = m + 3
    BY <1>8, <2>1, LeastIs
  <2>3. {i \in Spaces(s) : i > m + 3} = {}
    BY <1>1, <1>6, <1>9
  <2>4. Least({Len(s) + 1}) = Len(s) + 1
    <3> DEFINE E == {Len(s) + 1}
               e == Len(s) + 1
    <3>1. E \in SUBSET Nat /\ e \in E /\ \A j \in E : e <= j
      BY <1>1, <1>2
    <3> HIDE DEF E, e
    <3>2. Least(E) = e
      BY <3>1, LeastIs
    <3> QED
      BY <3>2 DEF E, e
  <2>5. UriEnd(s) = Least({i \in Spaces(s) : i > m + 3} \cup {Len(s) + 1})
    BY <2>2 DEF UriEnd
  <2>6. {i \in Spaces(s) : i > m + 3} \cup {Len(s) + 1} = {Len(s) + 1}
    BY <2>3
  <2>7. UriEnd(s) = Len(s) + 1
    BY <2>4, <2>5, <2>6
  <2> QED
    BY <1>2, <1>7, <1>9, <2>2, <2>7 DEF s, m, u
<1>10. CASE u # 0
  <2>1. m + 2 \in T /\ \A j \in T : m + 2 <= j
    <3>1. m + 2 \in m + 2 .. m + u + 1
      BY <1>1, <1>10
    <3>2. m + 2 \in m + 1 + 1 .. Len(s) /\ s[m + 2] # "sp"
      BY <1>1, <1>2, <1>5, <3>1
    <3>3. \A j \in T : m + 2 <= j
      BY <1>1, <1>2
    <3> QED
      BY <3>2, <3>3
  <2>2. UriStart(s) = m + 2
    BY <1>8, <2>1, LeastIs
  <2> DEFINE E == {m + u + 2, Len(s) + 1}
             e == m + u + 2
  <2>3. {i \in Spaces(s) : i > m + 2} \cup {Len(s) + 1} = E
    <3>1. {i \in Spaces(s) : i > m + 2} = {m + u + 2}
      BY <1>1, <1>6, <1>10
    <3> QED
      BY <3>1
  <2>4. E \in SUBSET Nat /\ e \in E /\ \A j \in E : e <= j
    BY <1>1, <1>2
  <2> HIDE DEF E, e
  <2>5. UriEnd(s) = e
    BY <2>2, <2>3, <2>4, LeastIs DEF UriEnd
  <2> QED
    BY <1>2, <1>7, <1>10, <2>2, <2>5 DEF s, m, u, e
<1> QED
  BY <1>9, <1>10

\* A request line that is accepted gives back the method and the URI, one that
\* fits is accepted, and only a method or a URI of the size of its buffer has
\* its terminator written past it.
LEMMA RequestLineRead ==
  ASSUME NEW r \in Requests
  PROVE  LET s == RequestLine(r)
         IN  /\ IsRequestLine(s) =>
                  get_http_msg(s) = [method |-> r.method, uri |-> r.uri]
             /\ Fits(r) => IsRequestLine(s)
             /\ WritesPast(s) => \/ Len(r.method) = METHOD_BUF_SIZE
                                 \/ Len(r.uri) = URL_BUF_SIZE
<1> USE ParserAssumption
<1> DEFINE s == RequestLine(r)
           m == Len(r.method)
           u == Len(r.uri)
<1>1. m \in Nat /\ u \in Nat
  BY RequestType
<1>2. /\ Len(s) = m + u + 3 /\ MethodEnd(s) = m + 1
      /\ u = 0 => UriStart(s) = m + 3 /\ UriEnd(s) = Len(s) + 1
      /\ u # 0 => UriStart(s) = m + 2 /\ UriEnd(s) = m + u + 2
  BY RequestLineParts
<1>3. /\ s \in Seq(Text) /\ r.method \in Seq(Text) /\ r.uri \in Seq(Text)
      /\ \A i \in 1 .. m : s[i] = r.method[i]
      /\ \A i \in 1 .. u : s[m + 1 + i] = r.uri[i]
  BY RequestType, RequestLineIs
<1>4. Fits(r) => m \in 1 .. METHOD_BUF_SIZE - 1 /\ u \in 1 .. URL_BUF_SIZE - 1
  BY DEF Fits
<1> HIDE DEF s, m, u
<1>5. MethodLen(s) = m /\ (u # 0 => UriLen(s) = u)
  BY <1>1, <1>2 DEF MethodLen, UriLen
<1>6. MethodFits(s) <=> m \in 1 .. METHOD_BUF_SIZE
  BY <1>1, <1>2, <1>5 DEF MethodFits
<1>7. UriFits(s) <=> u \in 1 .. URL_BUF_SIZE
  <2>1. CASE u = 0
    BY <1>1, <1>2, <2>1 DEF UriFits
  <2>2. CASE u # 0
    BY <1>1, <1>2, <1>5, <2>2 DEF UriFits
  <2> QED
    BY <2>1, <2>2
<1>8. ASSUME IsRequestLine(s)
      PROVE  get_http_msg(s) = [method |-> r.method, uri |-> r.uri]
  <2>1. u # 0 /\ UriStart(s) = m + 2 /\ UriEnd(s) - 1 = m + u + 1
    BY <1>1, <1>2, <1>7, <1>8 DEF IsRequestLine
  <2> DEFINE a == SubSeq(s, 1, m)
             k == m + 2
             l == m + u + 1
             b == SubSeq(s, k, l)
  <2>2. /\ a \in Seq(Text) /\ Len(a) = m
        /\ \A i \in 1 .. m : a[i] = s[i]
    <3>1. m \in 0 .. Len(s)
      BY <1>1, <1>2
    <3> QED
      BY <1>3, <3>1, PrefixProperties
  <2>3. a = r.method
    <3> HIDE DEF a
    <3>1. /\ Len(a) = Len(r.method)
          /\ \A i \in 1 .. Len(a) : a[i] = r.method[i]
      BY <1>3, <2>2 DEF m
    <3> QED
      BY <1>3, <2>2, <3>1, SeqEqual
  <2>4. k \in 1 .. Len(s) + 1 /\ l \in k - 1 .. Len(s) /\ l - k + 1 = u
    BY <1>1, <1>2
  <2>5. \A i \in 1 .. u : k + i - 1 = m + 1 + i
    BY <1>1
  <2> HIDE DEF k, l
  <2>6. /\ b \in Seq(Text) /\ Len(b) = u
        /\ \A i \in 1 .. u : b[i] = s[k + i - 1]
    <3>1. /\ b \in Seq(Text) /\ Len(b) = l - k + 1
          /\ \A i \in 1 .. l - k + 1 : b[i] = s[k + i - 1]
      BY <1>3, <2>4, SliceProperties
    <3> QED
      BY <2>4, <3>1
  <2>7. b = r.uri
    <3> HIDE DEF b
    <3>1. /\ Len(b) = Len(r.uri)
          /\ \A i \in 1 .. Len(b) : b[i] = r.uri[i]
      BY <1>3, <2>5, <2>6 DEF u
    <3> QED
      BY <1>3, <2>6, <3>1, SeqEqual
  <2> QED
    BY <1>5, <2>1, <2>3, <2>7 DEF get_http_msg, k, l
<1>9. ASSUME Fits(r) PROVE IsRequestLine(s)
  BY <1>1, <1>4, <1>6, <1>7, <1>9 DEF IsRequestLine
<1>10. ASSUME WritesPast(s) PROVE m = METHOD_BUF_SIZE \/ u = URL_BUF_SIZE
  BY <1>1, <1>5, <1>6, <1>7, <1>10 DEF WritesPast
<1> QED
  BY <1>8, <1>9, <1>10 DEF s, m, u

-----------------------------------------------------------------------------
(* Where the requests are in what the client sends.                        *)

\* Where the first n requests end.
RequestEnd(n) == Len(WireOf(SubSeq(sent, 1, n)))

LEMMA RequestsFollow ==
  ASSUME sent \in Sendable, wire = WireOf(sent)
  PROVE  /\ Len(sent) \in Nat
         /\ RequestEnd(0) = 0 /\ RequestEnd(Len(sent)) = Len(wire)
         /\ \A n \in 0 .. Len(sent) : RequestEnd(n) \in Nat
         /\ \A n \in 0 .. Len(sent) : \A m \in 0 .. n :
              RequestEnd(m) <= RequestEnd(n)
         /\ \A n \in 0 .. Len(sent) : n # Len(sent) =>
              LET r == sent[n + 1]
              IN  /\ r \in Requests
                  /\ RequestEnd(n + 1) = RequestEnd(n) + Len(Encode(r))
                  /\ \A i \in 1 .. Len(Encode(r)) :
                       wire[RequestEnd(n) + i] = Encode(r)[i]
<1> DEFINE N == Len(sent)
           E == [i \in DOMAIN sent |-> Encode(sent[i])]
<1>1. sent \in Seq(Requests)
  BY ParserAssumption
<1>2. N \in Nat /\ DOMAIN sent = 1 .. N
  BY <1>1, LenProperties
<1>3. E \in Seq(Seq(Byte)) /\ Len(E) = N /\ \A i \in 1 .. N : E[i] = Encode(sent[i])
  <2>1. E \in Seq(Seq(Byte))
    BY <1>1, WireType
  <2>2. DOMAIN E = 1 .. N
    BY <1>2
  <2>3. DOMAIN E = 1 .. Len(E) /\ Len(E) \in Nat
    BY <2>1, LenProperties
  <2>4. Len(E) = N
    <3> HIDE DEF E, N
    <3> QED
      BY <1>2, <2>2, <2>3
  <2>5. \A i \in 1 .. N : E[i] = Encode(sent[i])
    BY <1>2
  <2> QED
    BY <2>1, <2>4, <2>5
<1>4. wire = FlattenSeq(E)
  BY DEF WireOf
<1> HIDE DEF E
<1>5. ASSUME NEW n \in 0 .. N
      PROVE  RequestEnd(n) = EndOf(E, n)
  <2> DEFINE p == SubSeq(sent, 1, n)
             q == SubSeq(E, 1, n)
             e == [i \in DOMAIN p |-> Encode(p[i])]
  <2>1. p \in Seq(Requests) /\ Len(p) = n /\ \A i \in 1 .. n : p[i] = sent[i]
    BY <1>1, PrefixProperties
  <2>2. q \in Seq(Seq(Byte)) /\ Len(q) = n /\ \A i \in 1 .. n : q[i] = E[i]
    <3>1. E \in Seq(Seq(Byte)) /\ n \in 0 .. Len(E)
      BY <1>3
    <3> QED
      BY <3>1, PrefixProperties
  <2>3. DOMAIN p = 1 .. n /\ DOMAIN q = 1 .. n
    BY <2>1, <2>2, LenProperties
  <2>4. q = [i \in 1 .. n |-> q[i]]
    BY <2>2, <2>3, LenProperties
  <2>5. \A i \in 1 .. n : i \in 1 .. N
    BY <1>2
  <2>6. \A i \in 1 .. n : q[i] = Encode(p[i])
    BY <1>3, <2>1, <2>2, <2>5
  <2> HIDE DEF p, q
  <2>7. e = q
    BY <2>3, <2>4, <2>6
  <2>8. WireOf(p) = FlattenSeq(q)
    BY <2>7 DEF WireOf
  <2> QED
    BY <2>8 DEF RequestEnd, EndOf, p, q
<1>6. /\ EndOf(E, 0) = 0
      /\ \A k \in 0 .. N : EndOf(E, k) \in Nat
      /\ \A k \in 1 .. N : EndOf(E, k) = EndOf(E, k - 1) + Len(E[k])
      /\ EndOf(E, N) = Len(wire)
  BY <1>3, <1>4, FlattenEnds
<1>7. /\ RequestEnd(0) = 0 /\ RequestEnd(N) = Len(wire)
      /\ \A n \in 0 .. N : RequestEnd(n) \in Nat
  <2>1. 0 \in 0 .. N /\ N \in 0 .. N
    BY <1>2
  <2> QED
    BY <1>5, <1>6, <2>1
<1>8. ASSUME NEW n \in 0 .. N, NEW m \in 0 .. n
      PROVE  RequestEnd(m) <= RequestEnd(n)
  <2>1. m \in 0 .. N /\ n \in m .. N
    BY <1>2
  <2>2. EndOf(E, m) <= EndOf(E, n)
    BY <1>3, <2>1, FlattenPrefix
  <2> QED
    BY <1>5, <2>1, <2>2
<1>9. ASSUME NEW n \in 0 .. N, n # N
      PROVE  LET r == sent[n + 1]
             IN  /\ r \in Requests
                 /\ RequestEnd(n + 1) = RequestEnd(n) + Len(Encode(r))
                 /\ \A i \in 1 .. Len(Encode(r)) :
                      wire[RequestEnd(n) + i] = Encode(r)[i]
  <2> DEFINE k == n + 1
             c == Encode(sent[k])
  <2>1. k \in 1 .. N /\ k \in 0 .. N /\ k - 1 = n
    <3> HIDE DEF N
    <3> QED
      BY <1>2, <1>9
  <2> HIDE DEF k
  <2>2. sent[k] \in Requests
    BY <1>1, <2>1, ElementOfSeq
  <2>3. E[k] = c
    BY <1>3, <2>1
  <2>4. \A i \in 1 .. Len(c) : wire[EndOf(E, n) + i] = c[i]
    <3>1. E \in Seq(Seq(Byte)) /\ k \in 1 .. Len(E)
      BY <1>3, <2>1
    <3>2. \A i \in 1 .. Len(E[k]) :
            FlattenSeq(E)[EndOf(E, k - 1) + i] = E[k][i]
      BY <3>1, FlattenText
    <3> QED
      BY <1>4, <2>1, <2>3, <3>2
  <2>5. EndOf(E, k) = EndOf(E, n) + Len(c)
    BY <1>6, <2>1, <2>3
  <2>6. RequestEnd(k) = EndOf(E, k) /\ RequestEnd(n) = EndOf(E, n)
    BY <1>5, <2>1
  <2> HIDE DEF c
  <2> QED
    BY <2>2, <2>4, <2>5, <2>6 DEF c, k
<1> QED
  BY <1>2, <1>7, <1>8, <1>9

-----------------------------------------------------------------------------
(* In step with the client.                                                *)

\* The first n requests, as many of them as there are, fit header_buf.
Framed(n) == \A i \in 1 .. Len(sent) : i <= n => LinesFit(sent[i])

\* The request that is being parsed, and which line of it is being read.
Request == sent[Len(parsed) + 1]
LineNo == IF pc = "line" THEN 0 ELSE Len(headers) + 1

\* Reading has come to a place in line j, and header_buf has the line so far.
InLine(j) ==
  /\ pos = RequestEnd(Len(parsed)) + LineBegin(Request, j) + Len(buf)
  /\ Len(buf) <= Len(LineOf(Request, j)) + 1
  /\ \A i \in 1 .. Len(buf) : buf[i] = (LineOf(Request, j) \o CRLF)[i]

\* The headers so far are the first of the request, last first.
HeadersSoFar ==
  /\ Len(headers) <= Len(Request.headers)
  /\ \A i \in 1 .. Len(headers) :
       headers[i] = Request.headers[Len(headers) + 1 - i]
  /\ keep_alive = \E i \in 1 .. Len(headers) : AsksKeepAlive(Request.headers[i])

\* Where the parser is between two requests, and where it is in one.
Between == Len(parsed) <= Len(sent) /\ pos = RequestEnd(Len(parsed))
Within ==
  /\ Len(parsed) < Len(sent) /\ RequestEnd(Len(parsed) + 1) <= arrived
  /\ pc = "headers" => HeadersSoFar
  /\ pc = "headers" => msg = [method |-> Request.method, uri |-> Request.uri]
  /\ InLine(LineNo)

\* Each request begins afresh.
Fresh ==
  /\ pc \in {"idle", "line"} => headers = <<>> /\ keep_alive = FALSE
  /\ pc = "idle" => buf = <<>>

\* What has arrived ends with a request, and the parser is in step with the
\* requests for as long as they fit.
InStep ==
  whole =>
    /\ ended # "rst"
    /\ arrived = 0 \/ arrived \in RequestEnds
    /\ pc = "idle" /\ Framed(Len(parsed)) => Between
    /\ Reading /\ Framed(Len(parsed) + 1) => Within

LEMMA ParsedType ==
  ASSUME TypeOK
  PROVE  /\ Len(parsed) \in Nat /\ Len(headers) \in Nat /\ Len(buf) \in Nat
         /\ Len(wire) \in Nat /\ Len(sent) \in Nat
         /\ sent \in Seq(Requests) /\ wire \in Seq(Byte)
         /\ pos \in Nat /\ arrived \in Nat
<1>1. sent \in Seq(Requests) /\ wire \in Seq(Byte)
  BY SentType DEF TypeOK
<1>2. parsed \in Seq(Results) /\ headers \in Seq(Seq(Byte)) /\ buf \in Seq(Byte)
  BY DEF TypeOK
<1>3. /\ Len(parsed) \in Nat /\ Len(headers) \in Nat /\ Len(buf) \in Nat
      /\ Len(wire) \in Nat /\ Len(sent) \in Nat
  BY <1>1, <1>2, LenProperties
<1>4. pos \in Nat /\ arrived \in Nat
  BY <1>3 DEF TypeOK
<1> QED
  BY <1>1, <1>3, <1>4

\* The place in the request that the parser is at.
LEMMA WithinRequest ==
  ASSUME TypeOK, Reading, Within
  PROVE  LET r == Request
             s == LineOf(r, LineNo)
             b == RequestEnd(Len(parsed)) + LineBegin(r, LineNo)
         IN  /\ r \in Requests /\ LineNo \in 0 .. Len(r.headers) + 1
             /\ Len(r.headers) \in Nat
             /\ Len(parsed) + 1 \in 1 .. Len(sent)
             /\ b \in Nat /\ Len(s) \in Nat /\ pos = b + Len(buf)
             /\ LineNo <= Len(r.headers) =>
                  b + Len(s) + 2 = RequestEnd(Len(parsed)) + LineBegin(r, LineNo + 1)
             /\ LineNo = Len(r.headers) + 1 =>
                  b + Len(s) + 2 = RequestEnd(Len(parsed) + 1)
             /\ b + Len(s) + 2 <= arrived
             /\ \A i \in 1 .. Len(s) + 2 : wire[b + i] = (s \o CRLF)[i]
<1> DEFINE n == Len(parsed)
           r == Request
           j == LineNo
           s == LineOf(r, j)
           t == s \o CRLF
           c == Encode(r)
           e == RequestEnd(n)
           l == LineBegin(r, j)
           b == e + l
<1>1. n \in Nat /\ Len(sent) \in Nat /\ Len(headers) \in Nat /\ arrived \in Nat
  BY ParsedType
<1>2. n \in 0 .. Len(sent) /\ n # Len(sent) /\ n + 1 \in 1 .. Len(sent)
  BY <1>1 DEF Within
<1>3. /\ r \in Requests /\ RequestEnd(n + 1) = e + Len(c) /\ e \in Nat
      /\ \A i \in 1 .. Len(c) : wire[e + i] = c[i]
  <2>1. sent \in Sendable /\ wire = WireOf(sent)
    BY DEF TypeOK
  <2> HIDE DEF n
  <2> QED
    BY <1>2, <2>1, RequestsFollow DEF Request, n
<1>4. Len(r.headers) \in Nat
  BY <1>3, RequestType
<1>5. j \in 0 .. Len(r.headers) + 1
  <2>1. CASE pc = "line"
    BY <1>4, <2>1 DEF LineNo
  <2>2. CASE pc = "headers"
    BY <1>1, <1>4, <2>2 DEF LineNo, Within, HeadersSoFar
  <2> QED
    BY <2>1, <2>2 DEF Reading
<1> HIDE DEF r, j, n
<1>6. /\ c \in Seq(Byte) /\ l \in Nat
      /\ l + Len(s) + 2 <= Len(c)
      /\ j = Len(r.headers) + 1 => l + Len(s) + 2 = Len(c)
      /\ \A i \in 1 .. Len(s) + 2 : c[l + i] = t[i]
  BY <1>3, <1>5, LineText
<1>7. Len(s) \in Nat /\ Len(c) \in Nat
  BY <1>3, <1>5, <1>6, LineType, LenProperties
<1>8. j <= Len(r.headers) => LineBegin(r, j + 1) = l + Len(s) + 2
  <2>1. ASSUME j <= Len(r.headers) PROVE j \in 0 .. Len(r.headers)
    BY <1>4, <1>5, <2>1
  <2> QED
    BY <1>3, <2>1, LinesFollow
<1>9. pos = b + Len(buf)
  BY DEF Within, InLine, r, j, n
<1>10. RequestEnd(n + 1) <= arrived
  BY DEF Within, n
<1> HIDE DEF s, c, e, l
<1>11. b \in Nat /\ b + Len(s) + 2 <= arrived
  <2>1. e + Len(c) <= arrived
    BY <1>3, <1>10
  <2> QED
    BY <1>1, <1>3, <1>6, <1>7, <2>1
<1>12. ASSUME NEW i \in 1 .. Len(s) + 2 PROVE wire[b + i] = t[i]
  <2>1. l + i \in 1 .. Len(c) /\ e + (l + i) = b + i
    BY <1>3, <1>6, <1>7
  <2>2. wire[e + (l + i)] = c[l + i]
    BY <1>3, <2>1
  <2> QED
    BY <1>6, <2>1, <2>2
<1>13. j <= Len(r.headers) => b + Len(s) + 2 = e + LineBegin(r, j + 1)
  BY <1>3, <1>6, <1>7, <1>8
<1>14. j = Len(r.headers) + 1 => b + Len(s) + 2 = RequestEnd(n + 1)
  BY <1>3, <1>6, <1>7
<1> QED
  BY <1>2, <1>3, <1>4, <1>5, <1>7, <1>9, <1>11, <1>12, <1>13, <1>14
  DEF r, j, n, s, e, l

\* Reading goes on to the end of the line, which is found there and nowhere
\* before, and then the line is what was sent.
LEMMA WithinReads ==
  ASSUME TypeOK, Reading, Within
  PROVE  LET s == LineOf(Request, LineNo)
         IN  /\ pos < arrived
             /\ wire[pos + 1] = (s \o CRLF)[Len(buf) + 1]
             /\ AtLineEnd <=> Len(buf) = Len(s) + 1
             /\ AtLineEnd => buf # <<>> /\ Front(buf) = s
<1> DEFINE r == Request
           j == LineNo
           s == LineOf(r, j)
           t == s \o CRLF
           n == Len(s)
           b == RequestEnd(Len(parsed)) + LineBegin(r, j)
           k == Len(buf)
<1>1. /\ r \in Requests /\ j \in 0 .. Len(r.headers) + 1
      /\ b \in Nat /\ n \in Nat /\ pos = b + k /\ b + n + 2 <= arrived
      /\ \A i \in 1 .. n + 2 : wire[b + i] = t[i]
  BY WithinRequest
<1>2. /\ buf \in Seq(Byte) /\ k \in Nat /\ arrived \in Nat
      /\ k <= n + 1 /\ \A i \in 1 .. k : buf[i] = t[i]
  BY ParsedType DEF TypeOK, Within, InLine
<1>3. /\ \A i \in 1 .. n : t[i] = s[i] /\ t[i] \notin {"cr", "lf"}
      /\ t[n + 1] = "cr" /\ t[n + 2] = "lf"
  BY <1>1, EndedLine
<1>4. s \in Seq(Byte)
  BY <1>1, LineType
<1> HIDE DEF s, t, n, b, k, r, j
<1>5. k + 1 \in 1 .. n + 2 /\ b + (k + 1) = pos + 1
  BY <1>1, <1>2
<1>6. wire[pos + 1] = t[k + 1]
  <2> DEFINE q == k + 1
  <2>1. q \in 1 .. n + 2 /\ b + q = pos + 1
    BY <1>5
  <2> HIDE DEF q
  <2>2. wire[b + q] = t[q]
    BY <1>1, <2>1
  <2> QED
    BY <2>1, <2>2 DEF q
<1>7. pos < arrived
  BY <1>1, <1>2
<1>8. ASSUME AtLineEnd PROVE k = n + 1
  <2>1. buf # <<>> /\ Last(buf) = "cr" /\ wire[pos + 1] = "lf"
    BY <1>8 DEF AtLineEnd
  <2>2. k \in 1 .. k /\ buf[k] = "cr"
    BY <1>2, <2>1, FrontType DEF k
  <2>3. t[k] = "cr"
    BY <1>2, <2>2
  <2>4. k \notin 1 .. n
    BY <1>3, <2>3
  <2> QED
    BY <1>1, <1>2, <2>2, <2>4
<1>9. ASSUME k = n + 1 PROVE AtLineEnd /\ buf # <<>> /\ Front(buf) = s
  <2>1. k \in 1 .. k /\ k # 0 /\ k + 1 = n + 2
    BY <1>1, <1>9
  <2>2. buf # <<>>
    BY <2>1, EmptySeq DEF k
  <2>3. buf[k] = "cr"
    BY <1>2, <1>3, <1>9, <2>1
  <2>4. /\ Last(buf) = buf[k] /\ Front(buf) \in Seq(Byte)
        /\ Len(Front(buf)) = k - 1
        /\ \A i \in 1 .. k - 1 : Front(buf)[i] = buf[i]
    BY <1>2, <2>2, FrontType DEF k
  <2>5. wire[pos + 1] = "lf"
    BY <1>3, <1>6, <2>1
  <2>6. Len(Front(buf)) = Len(s)
    BY <1>1, <1>9, <2>4 DEF n
  <2>7. \A i \in 1 .. Len(Front(buf)) : Front(buf)[i] = s[i]
    <3>1. \A i \in 1 .. k - 1 : i \in 1 .. k /\ i \in 1 .. n
      BY <1>1, <1>9
    <3> QED
      BY <1>2, <1>3, <2>4, <3>1
  <2>8. Front(buf) = s
    BY <1>4, <2>4, <2>6, <2>7, SeqEqual
  <2> QED
    BY <2>2, <2>3, <2>4, <2>5, <2>8 DEF AtLineEnd
<1> QED
  BY <1>6, <1>7, <1>8, <1>9 DEF s, t, n, k, r, j

\* A line that fits never fills header_buf.
LEMMA WithinFits ==
  ASSUME TypeOK, Reading, Within, LinesFit(Request)
  PROVE  ~ Full
<1> USE ParserAssumption
<1> DEFINE r == Request
           j == LineNo
           n == Len(LineOf(r, j))
<1>1. /\ r \in Requests /\ j \in 0 .. Len(r.headers) + 1
      /\ Len(r.headers) \in Nat /\ n \in Nat
  BY WithinRequest
<1>2. /\ Len(RequestLine(r)) <= HEADER_BUF_SIZE - 3
      /\ \A i \in 1 .. Len(r.headers) : Len(r.headers[i]) <= HEADER_BUF_SIZE - 3
  <2>1. Len(CRLF) = 2
    BY Marks
  <2>2. /\ LineFits(Len(r.method) + Len(r.uri) + 3)
        /\ \A i \in 1 .. Len(r.headers) : LineFits(Len(r.headers[i]))
    BY DEF LinesFit
  <2>3. Len(RequestLine(r)) = Len(r.method) + Len(r.uri) + 3
    BY <1>1, RequestLineIs
  <2>4. LineFits(Len(RequestLine(r)))
    BY <2>2, <2>3
  <2>5. HEADER_BUF_SIZE - Len(CRLF) - 1 = HEADER_BUF_SIZE - 3
    BY <2>1
  <2> QED
    BY <2>2, <2>4, <2>5 DEF LineFits
<1>3. Len(RequestLine(r)) \in Nat
  <2>1. 0 \in 0 .. Len(r.headers) + 1 /\ LineOf(r, 0) = RequestLine(r)
    BY <1>1 DEF LineOf
  <2> QED
    BY <1>1, <2>1, LineType
<1>4. n <= HEADER_BUF_SIZE - 3
  <2>1. CASE j = 0
    BY <1>2, <2>1 DEF LineOf
  <2>2. CASE j \in 1 .. Len(r.headers)
    <3>1. LineOf(r, j) = r.headers[j]
      BY <1>1, <2>2 DEF LineOf
    <3> QED
      BY <1>2, <2>2, <3>1
  <2>3. CASE j = Len(r.headers) + 1
    <3>1. LineOf(r, j) = <<>>
      BY <1>1, <2>3, LineType
    <3>2. n = 0
      BY <3>1, EmptySeq
    <3> QED
      BY <1>2, <1>3, <3>2
  <2> QED
    BY <1>1, <2>1, <2>2, <2>3
<1>5. Len(buf) \in Nat /\ Len(buf) <= n + 1
  BY ParsedType DEF Within, InLine
<1> HIDE DEF n
<1> QED
  BY <1>1, <1>4, <1>5 DEF Full

\* While requests come whole and fit, next_header comes to the end of a line:
\* it neither runs out of room or of input, nor fails.
LEMMA OnlyLineEnds ==
  ASSUME TypeOK, InStep, whole, Reading, Framed(Len(parsed) + 1)
  PROVE  Within /\ ~ Overflow /\ ~ ReadNothing /\ ~ ReadFails
<1>1. Within /\ ended # "rst"
  BY DEF InStep
<1>2. LinesFit(Request)
  <2>1. Len(parsed) + 1 \in 1 .. Len(sent)
    BY <1>1, WithinRequest
  <2>2. Len(parsed) + 1 <= Len(parsed) + 1
    BY <2>1
  <2> QED
    BY <2>1, <2>2 DEF Framed, Request
<1>3. ~ Full
  BY <1>1, <1>2, WithinFits
<1>4. pos < arrived /\ pos \in Nat /\ arrived \in Nat
  BY <1>1, WithinReads, ParsedType
<1>5. ~ (pos = arrived)
  BY <1>4
<1> QED
  BY <1>1, <1>3, <1>5 DEF Overflow, ReadNothing, ReadFails

\* What parse_all_headers does then, at the end of each line.
LEMMA LineEnds ==
  ASSUME TypeOK, Reading, Within, ReadLineEnd
  PROVE  LET r == Request
             h == Len(headers)
         IN  /\ UNCHANGED client
             /\ \/ pc = "line" /\ LineFails("SC_OK", RequestLine(r))
                \/ /\ pc = "line" /\ LineDone("SC_OK", RequestLine(r))
                   /\ pos' = RequestEnd(Len(parsed)) + LineBegin(r, 1)
                \/ /\ pc = "headers" /\ h + 1 \in 1 .. Len(r.headers)
                   /\ HeaderDone("SC_OK", r.headers[h + 1])
                   /\ pos' = RequestEnd(Len(parsed)) + LineBegin(r, h + 2)
                \/ /\ pc = "headers" /\ h = Len(r.headers)
                   /\ HeadersDone("SC_FINISHED")
                   /\ pos' = RequestEnd(Len(parsed) + 1)
<1> DEFINE r == Request
           h == Len(headers)
           j == LineNo
           s == LineOf(r, j)
           b == RequestEnd(Len(parsed)) + LineBegin(r, j)
<1>1. /\ r \in Requests /\ j \in 0 .. Len(r.headers) + 1
      /\ Len(r.headers) \in Nat /\ b \in Nat /\ Len(s) \in Nat
      /\ pos = b + Len(buf)
      /\ j <= Len(r.headers) =>
           b + Len(s) + 2 = RequestEnd(Len(parsed)) + LineBegin(r, j + 1)
      /\ j = Len(r.headers) + 1 =>
           b + Len(s) + 2 = RequestEnd(Len(parsed) + 1)
  BY WithinRequest
<1>2. AtLineEnd /\ pos' = pos + 1 /\ HeaderRead(Outcome(Front(buf)), Front(buf))
      /\ UNCHANGED client
  BY DEF ReadLineEnd
<1>3. Len(buf) = Len(s) + 1 /\ Front(buf) = s
  BY <1>2, WithinReads
<1>4. pos' = b + Len(s) + 2
  BY <1>1, <1>2, <1>3
<1>5. s = <<>> <=> j = Len(r.headers) + 1
  BY <1>1, LineType
<1>6. HeaderRead(Outcome(s), s)
  BY <1>2, <1>3
<1>7. h \in Nat
  BY ParsedType
<1>8. CASE pc = "line"
  <2>1. j = 0 /\ s = RequestLine(r)
    BY <1>8 DEF LineNo, LineOf
  <2>2. s # <<>> /\ j <= Len(r.headers) /\ j + 1 = 1
    BY <1>1, <1>5, <2>1
  <2>3. Outcome(s) = "SC_OK"
    BY <2>2 DEF Outcome
  <2>4. LineFails("SC_OK", s) \/ LineDone("SC_OK", s)
    BY <1>6, <1>8, <2>3 DEF HeaderRead, HeaderFails, HeaderDone, HeadersDone
  <2>5. pos' = RequestEnd(Len(parsed)) + LineBegin(r, 1)
    BY <1>1, <1>4, <2>2
  <2> QED
    BY <1>2, <1>8, <2>1, <2>4, <2>5
<1>9. CASE pc = "headers"
  <2>1. j = h + 1
    BY <1>9 DEF LineNo
  <2>2. ~ LineFails(Outcome(s), s) /\ ~ LineDone(Outcome(s), s)
    BY <1>9 DEF LineFails, LineDone
  <2>3. CASE j = Len(r.headers) + 1
    <3>1. Outcome(s) = "SC_FINISHED" /\ h = Len(r.headers)
      BY <1>1, <1>5, <1>7, <2>1, <2>3 DEF Outcome
    <3>2. HeadersDone("SC_FINISHED")
      BY <1>6, <2>2, <3>1 DEF HeaderRead, HeaderFails, HeaderDone, Errors
    <3>3. pos' = RequestEnd(Len(parsed) + 1)
      BY <1>1, <1>4, <2>3
    <3> QED
      BY <1>2, <1>9, <3>1, <3>2, <3>3
  <2>4. CASE j # Len(r.headers) + 1
    <3>1. /\ h + 1 \in 1 .. Len(r.headers) /\ j \in 1 .. Len(r.headers)
          /\ j + 1 = h + 2
      BY <1>1, <1>7, <2>1, <2>4
    <3>2. s = r.headers[h + 1]
      BY <1>1, <2>1, <3>1 DEF LineOf
    <3>3. Outcome(s) = "SC_OK"
      BY <1>5, <2>4 DEF Outcome
    <3>4. HeaderDone("SC_OK", s)
      BY <1>6, <2>2, <3>3 DEF HeaderRead, HeaderFails, HeadersDone, Errors
    <3>5. pos' = RequestEnd(Len(parsed)) + LineBegin(r, h + 2)
      BY <1>1, <1>4, <3>1
    <3> QED
      BY <1>2, <1>9, <3>1, <3>2, <3>4, <3>5
  <2> QED
    BY <2>3, <2>4
<1> QED
  BY <1>8, <1>9 DEF Reading

\* Where a call of parse_all_headers leaves off, however it ends.
LEMMA HeaderReadLeaves ==
  ASSUME TypeOK, NEW err, NEW line, HeaderRead(err, line)
  PROVE  /\ buf' = <<>> /\ pc' # "line"
         /\ pc' = "headers" => parsed' = parsed
         /\ pc' # "headers" => /\ \E res \in Results : parsed' = Append(parsed, res)
                               /\ Len(parsed') = Len(parsed) + 1
         /\ pc' = "idle" => headers' = <<>> /\ keep_alive' = FALSE
<1>1. ASSUME NEW res \in Results, parsed' = Append(parsed, res)
      PROVE  /\ \E x \in Results : parsed' = Append(parsed, x)
             /\ Len(parsed') = Len(parsed) + 1
  BY <1>1, AppendProperties DEF TypeOK
<1>2. ASSUME NEW how \in {"ok", "gaveup"}, Return(how, keep_alive)
      PROVE  /\ buf' = <<>> /\ pc' \in {"idle", "done"}
             /\ headers' = <<>> /\ keep_alive' = FALSE
             /\ \E res \in Results : parsed' = Append(parsed, res)
             /\ Len(parsed') = Len(parsed) + 1
  <2>1. [how |-> how, msg |-> msg, headers |-> headers,
         keep_alive |-> keep_alive] \in Results
    BY DEF Results, TypeOK
  <2>2. parsed' = Append(parsed, [how |-> how, msg |-> msg, headers |-> headers,
                                  keep_alive |-> keep_alive])
    BY <1>2 DEF Return
  <2> QED
    BY <1>1, <1>2, <2>1, <2>2 DEF Return
<1>3. CASE LineFails(err, line)
  <2>1. [how |-> "refused", msg |-> UNSET, headers |-> <<>>,
         keep_alive |-> FALSE] \in Results
    BY EmptySeq DEF Results, Messages
  <2> QED
    BY <1>1, <1>3, <2>1 DEF LineFails
<1>4. CASE LineDone(err, line)
  BY <1>4 DEF LineDone, NextCall
<1>5. CASE HeaderFails(err)
  <2>1. CASE error_count + 1 >= SC_MAX_HEADER_ERROR_COUNT
    BY <1>2, <1>5, <2>1 DEF HeaderFails
  <2>2. CASE ~ (error_count + 1 >= SC_MAX_HEADER_ERROR_COUNT)
    BY <1>5, <2>2 DEF HeaderFails, NextCall
  <2> QED
    BY <2>1, <2>2
<1>6. CASE HeaderDone(err, line)
  BY <1>6 DEF HeaderDone, NextCall
<1>7. CASE HeadersDone(err)
  BY <1>2, <1>7 DEF HeadersDone
<1> QED
  BY <1>3, <1>4, <1>5, <1>6, <1>7 DEF HeaderRead

LEMMA StaysFresh == TypeOK /\ Fresh /\ [Next]_vars => Fresh'
<1> SUFFICES ASSUME TypeOK, Fresh, [Next]_vars PROVE Fresh'
  OBVIOUS
<1>1. CASE Arrive \/ End \/ UNCHANGED vars
  <2>1. UNCHANGED <<pc, headers, keep_alive, buf>>
    BY <1>1 DEF Arrive, End, vars, parser
  <2> QED
    BY <2>1 DEF Fresh
<1>2. CASE Begin \/ HangUp
  BY <1>2 DEF Begin, HangUp, Fresh
<1>3. CASE ReadByte
  BY <1>3 DEF ReadByte, CanRead, Reading, Fresh
<1>4. CASE Overflow \/ ReadLineEnd \/ ReadNothing \/ ReadFails
  <2>1. \E err \in Outcomes : \E line \in Seq(Byte) : HeaderRead(err, line)
    BY <1>4, Calls
  <2>2. /\ buf' = <<>> /\ pc' # "line"
        /\ pc' = "idle" => headers' = <<>> /\ keep_alive' = FALSE
    BY <2>1, HeaderReadLeaves
  <2> QED
    BY <2>2 DEF Fresh
<1> QED
  BY <1>1, <1>2, <1>3, <1>4 DEF Next, Parse

\* Nothing but the client changes.
LEMMA WithinStays ==
  ASSUME UNCHANGED <<sent, parser>>
  PROVE  /\ RequestEnds' = RequestEnds
         /\ \A n : Framed(n)' = Framed(n)
         /\ Between' = Between
         /\ Within /\ RequestEnd(Len(parsed) + 1) <= arrived' => Within'
         /\ Len(parsed)' = Len(parsed) /\ pc' = pc /\ Reading' = Reading
         /\ RequestEnd(Len(parsed) + 1)' = RequestEnd(Len(parsed) + 1)
<1>1. /\ sent' = sent /\ parsed' = parsed /\ pc' = pc /\ headers' = headers
      /\ buf' = buf /\ msg' = msg /\ keep_alive' = keep_alive /\ pos' = pos
  BY DEF parser
<1>2. RequestEnds' = RequestEnds /\ \A n : Framed(n)' = Framed(n)
  BY <1>1 DEF RequestEnds, Framed
<1>3. Between' = Between
  BY <1>1 DEF Between, RequestEnd
<1>4. /\ Len(parsed)' = Len(parsed) /\ pc' = pc /\ Reading' = Reading
      /\ RequestEnd(Len(parsed) + 1)' = RequestEnd(Len(parsed) + 1)
  BY <1>1 DEF Reading, RequestEnd
<1>5. InLine(LineNo)' = InLine(LineNo)
  BY <1>1 DEF InLine, LineNo, Request, RequestEnd
<1>6. HeadersSoFar' = HeadersSoFar /\ Request' = Request
  BY <1>1 DEF HeadersSoFar, Request
<1>7. ASSUME Within, RequestEnd(Len(parsed) + 1) <= arrived' PROVE Within'
  BY <1>1, <1>4, <1>5, <1>6, <1>7 DEF Within
<1> QED
  BY <1>2, <1>3, <1>4, <1>7

LEMMA EndsArrive ==
  ASSUME TypeOK, NEW a \in Nat, a = 0 \/ a \in RequestEnds,
         NEW n \in 0 .. Len(sent), RequestEnd(n) < a
  PROVE  n + 1 \in 1 .. Len(sent) /\ RequestEnd(n + 1) <= a
<1> DEFINE N == Len(sent)
<1>1. sent \in Sendable /\ wire = WireOf(sent)
  BY DEF TypeOK
<1>2. /\ N \in Nat /\ \A i \in 0 .. N : RequestEnd(i) \in Nat
      /\ \A i \in 0 .. N : \A m \in 0 .. i : RequestEnd(m) <= RequestEnd(i)
  BY <1>1, RequestsFollow
<1>3. a \in RequestEnds
  <2>1. RequestEnd(n) \in Nat
    BY <1>2
  <2> QED
    BY <2>1
<1>4. PICK k \in 1 .. N : a = RequestEnd(k)
  BY <1>3 DEF RequestEnds, RequestEnd
<1> HIDE DEF N
<1>5. k \in 0 .. N /\ n \in 0 .. N
  BY <1>2 DEF N
<1>6. ~ (k <= n)
  <2> SUFFICES ASSUME k <= n PROVE FALSE
    OBVIOUS
  <2>1. k \in 0 .. n
    BY <1>2, <1>5
  <2>2. RequestEnd(k) <= RequestEnd(n)
    BY <1>2, <1>5, <2>1
  <2> QED
    BY <1>2, <1>4, <1>5, <2>2
<1>7. n + 1 \in 0 .. k /\ n + 1 \in 1 .. N
  BY <1>2, <1>5, <1>6
<1>8. RequestEnd(n + 1) <= RequestEnd(k)
  BY <1>2, <1>5, <1>7
<1> QED
  BY <1>4, <1>7, <1>8 DEF N

\* Once out of step, or once a request is refused, it makes no difference how
\* the headers end.
LEMMA OutOfStep ==
  ASSUME TypeOK, ~ Framed(Len(parsed) + 1), sent' = sent,
         NEW err, NEW line, HeaderRead(err, line)
  PROVE  /\ pc' = "idle" => ~ Framed(Len(parsed))'
         /\ Reading' => ~ Framed(Len(parsed) + 1)'
<1>1. \A n : Framed(n)' = Framed(n)
  BY DEF Framed
<1>2. ASSUME pc' = "idle" PROVE ~ Framed(Len(parsed))'
  <2>1. Len(parsed') = Len(parsed) + 1
    BY <1>2, HeaderReadLeaves
  <2> QED
    BY <2>1 DEF Framed
<1>3. ASSUME Reading' PROVE ~ Framed(Len(parsed) + 1)'
  <2>1. parsed' = parsed
    BY <1>3, HeaderReadLeaves DEF Reading
  <2> QED
    BY <2>1 DEF Framed
<1> QED
  BY <1>2, <1>3

LEMMA BeginsInStep ==
  ASSUME TypeOK, Fresh, InStep, whole, Begin, Framed(Len(parsed) + 1)
  PROVE  Within'
<1> DEFINE n == Len(parsed)
<1>1. /\ n \in Nat /\ Len(sent) \in Nat /\ Len(wire) \in Nat /\ Len(buf) \in Nat
      /\ pos \in Nat /\ arrived \in Nat
  BY ParsedType
<1>2. /\ pc = "idle" /\ pos < arrived /\ pc' = "line"
      /\ sent' = sent /\ arrived' = arrived /\ pos' = pos /\ buf' = buf
      /\ parsed' = parsed
  BY DEF Begin, client
<1>3. Framed(n)
  <2> SUFFICES ASSUME NEW i \in 1 .. Len(sent), i <= n PROVE LinesFit(sent[i])
    BY DEF Framed
  <2>1. i <= n + 1
    BY <1>1
  <2> QED
    BY <2>1 DEF Framed
<1>4. n <= Len(sent) /\ pos = RequestEnd(n) /\ (arrived = 0 \/ arrived \in RequestEnds)
  BY <1>2, <1>3 DEF InStep, Between
<1>5. n \in 0 .. Len(sent) /\ RequestEnd(n) < arrived
  BY <1>1, <1>2, <1>4
<1> HIDE DEF n
<1>6. n + 1 \in 1 .. Len(sent) /\ RequestEnd(n + 1) <= arrived
  BY <1>1, <1>4, <1>5, EndsArrive
<1>7. n < Len(sent)
  BY <1>1, <1>6
<1>8. buf = <<>> /\ Len(buf) = 0
  BY <1>2, EmptySeq DEF Fresh
<1>9. InLine(0)'
  <2>1. /\ Len(parsed)' = n /\ Request' = Request /\ RequestEnd(n)' = RequestEnd(n)
        /\ Len(buf)' = 0
    BY <1>2, <1>8 DEF Request, RequestEnd, n
  <2>2. LineBegin(Request', 0) = 0 /\ pos' = RequestEnd(n) + 0 + 0
    <3>1. pos' = RequestEnd(n) /\ RequestEnd(n) \in Nat
      BY <1>1, <1>2, <1>4
    <3> QED
      BY <3>1 DEF LineBegin
  <2>3. LineOf(Request', 0) = RequestLine(Request') /\ Request' \in Requests
    <3>1. sent[n + 1] \in Requests
      BY <1>6, ElementOfSeq, ParsedType
    <3> QED
      BY <2>1, <3>1 DEF LineOf, Request, n
  <2>4. Len(LineOf(Request', 0)) \in Nat
    <3>1. 0 \in 0 .. Len(Request'.headers) + 1
      BY <2>3, RequestType
    <3> QED
      BY <2>3, <3>1, LineType
  <2>5. /\ pos' = RequestEnd(n) + LineBegin(Request', 0) + Len(buf)'
        /\ Len(buf)' <= Len(LineOf(Request', 0)) + 1
    BY <2>1, <2>2, <2>4
  <2>6. \A i \in 1 .. Len(buf)' : FALSE
    BY <2>1
  <2>7. RequestEnd(Len(parsed))' = RequestEnd(n)
    BY <1>2 DEF RequestEnd, n
  <2> QED
    BY <2>5, <2>6, <2>7 DEF InLine
<1>10. LineNo' = 0
  BY <1>2 DEF LineNo
<1>11. InLine(LineNo)'
  BY <1>9, <1>10 DEF InLine
<1>12. /\ (Len(parsed) < Len(sent))' /\ (RequestEnd(Len(parsed) + 1) <= arrived)'
       /\ (pc # "headers")'
  BY <1>2, <1>6, <1>7 DEF RequestEnd, n
<1> QED
  BY <1>11, <1>12 DEF Within

LEMMA ReadsInStep ==
  ASSUME TypeOK, Within, Reading, ReadByte
  PROVE  Within'
<1> DEFINE r == Request
           j == LineNo
           s == LineOf(r, j)
           t == s \o CRLF
           b == RequestEnd(Len(parsed)) + LineBegin(r, j)
           k == Len(buf)
           c == wire[pos + 1]
<1>1. /\ sent' = sent /\ arrived' = arrived /\ pos' = pos + 1 /\ pc' = pc
      /\ buf' = Append(buf, c) /\ parsed' = parsed /\ msg' = msg
      /\ headers' = headers /\ keep_alive' = keep_alive
  BY DEF ReadByte, client
<1>2. b \in Nat /\ pos = b + k /\ Len(s) \in Nat
  BY WithinRequest
<1>3. pos < arrived /\ c = t[k + 1] /\ k # Len(s) + 1
  BY WithinReads DEF ReadByte
<1>4. buf \in Seq(Byte) /\ k \in Nat /\ pos \in Nat
  BY ParsedType DEF TypeOK
<1>5. c \in Byte
  <2>1. wire \in Seq(Byte) /\ Len(wire) \in Nat /\ arrived \in Nat
        /\ arrived <= Len(wire)
    BY ParsedType DEF TypeOK
  <2>2. pos + 1 \in 1 .. Len(wire)
    BY <1>3, <1>4, <2>1
  <2> QED
    BY <2>1, <2>2, ElementOfSeq
<1>6. k <= Len(s) + 1 /\ \A i \in 1 .. k : buf[i] = t[i]
  BY DEF Within, InLine
<1>7. r' = r /\ j' = j /\ RequestEnd(Len(parsed))' = RequestEnd(Len(parsed))
  BY <1>1 DEF Request, LineNo, RequestEnd
<1> HIDE DEF c, k
<1>8. /\ Len(buf') = k + 1 /\ buf'[k + 1] = c
      /\ \A i \in 1 .. k : buf'[i] = buf[i]
  BY <1>1, <1>4, <1>5, AppendProperties DEF k
<1> HIDE DEF r, j, s, t, b
<1>9. Len(buf') <= Len(s) + 1 /\ pos' = b + Len(buf')
  <2>1. Len(s) \in Nat /\ k <= Len(s) + 1 /\ k # Len(s) + 1
    BY <1>2, <1>3, <1>6
  <2>2. k + 1 <= Len(s) + 1
    BY <1>4, <2>1
  <2>3. pos = b + Len(buf) /\ Len(buf) = k
    BY <1>2 DEF k
  <2>4. pos' = b + (k + 1)
    BY <1>1, <1>2, <1>4, <2>3
  <2> QED
    BY <1>8, <2>2, <2>4
<1>10. \A i \in 1 .. Len(buf') : buf'[i] = t[i]
  <2>1. \A i \in 1 .. Len(buf') : i \in 1 .. k \/ i = k + 1
    BY <1>4, <1>8
  <2> QED
    BY <1>3, <1>6, <1>8, <2>1
<1>11. InLine(LineNo)'
  BY <1>7, <1>9, <1>10 DEF InLine, r, j, s, t, b
<1>12. /\ (Len(parsed) < Len(sent))' /\ (RequestEnd(Len(parsed) + 1) <= arrived)'
       /\ (pc = "headers" => HeadersSoFar)'
       /\ (pc = "headers" =>
             msg = [method |-> Request.method, uri |-> Request.uri])'
  BY <1>1, <1>7 DEF Within, RequestEnd, HeadersSoFar, r, Request
<1> QED
  BY <1>11, <1>12 DEF Within

\* A fresh call of next_header, at the beginning of line j.
LEMMA BeginsLine ==
  ASSUME TypeOK, Within, Reading, sent' = sent, parsed' = parsed, buf' = <<>>,
         pc' = "headers", Len(headers') \in Nat,
         Len(headers') + 1 \in 0 .. Len(Request.headers) + 1,
         pos' = RequestEnd(Len(parsed)) + LineBegin(Request, Len(headers') + 1)
  PROVE  InLine(LineNo)'
<1> DEFINE j == Len(headers') + 1
<1>1. Request' = Request /\ RequestEnd(Len(parsed))' = RequestEnd(Len(parsed))
      /\ LineNo' = j
  BY DEF Request, RequestEnd, LineNo
<1>2. Request \in Requests
  BY WithinRequest
<1>3. RequestEnd(Len(parsed)) \in Nat
  <2>1. Len(parsed) \in 0 .. Len(sent)
    BY ParsedType DEF Within
  <2> QED
    BY <2>1, RequestsFollow DEF TypeOK
<1>4. LineBegin(Request, j) \in Nat /\ Len(LineOf(Request, j)) \in Nat
  BY <1>2, LinesFollow, LineType
<1>5. Len(buf') = 0
  BY EmptySeq
<1> HIDE DEF j
<1>6. /\ pos' = RequestEnd(Len(parsed)) + LineBegin(Request, j) + Len(buf')
      /\ Len(buf') <= Len(LineOf(Request, j)) + 1
  BY <1>3, <1>4, <1>5 DEF j
<1>7. \A i \in 1 .. Len(buf') : FALSE
  BY <1>5
<1> QED
  BY <1>1, <1>6, <1>7 DEF InLine

\* A header more: it is put before those there are.
LEMMA HeadersGather ==
  ASSUME TypeOK, NEW r \in Requests, Len(headers) + 1 \in 1 .. Len(r.headers),
         HeadersSoFar, Request = r, Request' = r,
         HeaderDone("SC_OK", r.headers[Len(headers) + 1])
  PROVE  HeadersSoFar' /\ Len(headers') = Len(headers) + 1
<1> DEFINE h == Len(headers)
           n == Len(r.headers)
           R(i) == r.headers[i]
           s == R(h + 1)
           one == <<s>>
<1>1. h \in Nat /\ n \in Nat
  BY ParsedType, RequestType
<1>2. \A i \in 1 .. n : R(i) \in Seq(Byte)
  <2>1. \A i \in 1 .. n : R(i) \in Seq(Text)
    BY RequestType
  <2> QED
    BY <2>1, Marks, SeqMonotonic
<1>3. /\ h <= n /\ \A i \in 1 .. h : headers[i] = R(h + 1 - i)
      /\ keep_alive = \E i \in 1 .. h : AsksKeepAlive(R(i))
  BY DEF HeadersSoFar
<1>4. /\ headers' = one \o headers
      /\ keep_alive' = (keep_alive \/ AsksKeepAlive(s))
  BY DEF HeaderDone
<1>5. one \in Seq(Seq(Byte)) /\ Len(one) = 1 /\ one[1] = s
  <2>1. s \in Seq(Byte)
    BY <1>2
  <2> QED
    BY <2>1
<1>6. headers \in Seq(Seq(Byte))
  BY DEF TypeOK
<1> HIDE DEF one
<1>7. /\ Len(headers') = 1 + h
      /\ \A i \in 1 .. 1 : headers'[i] = one[i]
      /\ \A i \in 1 .. h : headers'[1 + i] = headers[i]
  <2>1. one \in Seq(Seq(Byte))
    BY <1>5
  <2>2. /\ Len(one \o headers) = Len(one) + h
        /\ \A i \in 1 .. Len(one) : (one \o headers)[i] = one[i]
        /\ \A i \in 1 .. h : (one \o headers)[Len(one) + i] = headers[i]
    BY <1>6, <2>1, ConcatPoints
  <2> QED
    BY <1>4, <1>5, <2>2
<1>8. Len(headers') = h + 1 /\ h + 1 <= n
  BY <1>1, <1>7
<1> HIDE DEF h, n, R
<1>9. \A i \in 1 .. h + 1 : headers'[i] = R(h + 2 - i)
  <2> SUFFICES ASSUME NEW i \in 1 .. h + 1 PROVE headers'[i] = R(h + 2 - i)
    OBVIOUS
  <2>1. CASE i = 1
    <3>1. headers'[i] = s /\ h + 2 - i = h + 1
      BY <1>1, <1>5, <1>7, <2>1
    <3> QED
      BY <3>1
  <2>2. CASE i # 1
    <3>1. PICK k \in 1 .. h : i = 1 + k
      <4>1. i - 1 \in 1 .. h /\ i = 1 + (i - 1)
        BY <1>1, <2>2
      <4> QED
        BY <4>1
    <3>2. headers'[i] = headers[k] /\ headers[k] = R(h + 1 - k)
      BY <1>3, <1>7, <3>1
    <3>3. h + 1 - k = h + 2 - i
      BY <1>1, <3>1
    <3> QED
      BY <3>2, <3>3
  <2> QED
    BY <2>1, <2>2
<1>10. (\E i \in 1 .. h : AsksKeepAlive(R(i))) \/ AsksKeepAlive(s)
         <=> \E i \in 1 .. h + 1 : AsksKeepAlive(R(i))
  <2>1. \A i : i \in 1 .. h + 1 <=> i \in 1 .. h \/ i = h + 1
    BY <1>1
  <2> QED
    BY <2>1, Zenon
<1>11. keep_alive' = \E i \in 1 .. h + 1 : AsksKeepAlive(R(i))
  BY <1>3, <1>4, <1>10, Zenon
<1>12. \A i \in 1 .. h + 1 : h + 2 - i = h + 1 + 1 - i
  BY <1>1
<1>13. /\ Len(headers') <= Len(r.headers)
       /\ \A i \in 1 .. Len(headers') : headers'[i] = r.headers[Len(headers') + 1 - i]
  BY <1>8, <1>9, <1>12 DEF n, R
<1>14. keep_alive' = \E i \in 1 .. Len(headers') : AsksKeepAlive(r.headers[i])
  BY <1>8, <1>11, Zenon DEF R
<1> QED
  BY <1>8, <1>13, <1>14, Zenon DEF HeadersSoFar, h

\* The end of a line leaves the parser in step.
LEMMA LineInStep ==
  ASSUME TypeOK, Fresh, Within, Reading, ReadLineEnd
  PROVE  /\ pc' = "headers" => Within'
         /\ pc' = "idle" => Between'
<1> DEFINE r == Request
           h == Len(headers)
           n == Len(parsed)
<1>1. /\ r \in Requests /\ n + 1 \in 1 .. Len(sent) /\ Len(r.headers) \in Nat
      /\ LineNo \in 0 .. Len(r.headers) + 1
  BY WithinRequest
<1>2. UNCHANGED client /\ \E err, line : HeaderRead(err, line)
  BY DEF ReadLineEnd
<1>3. sent' = sent /\ arrived' = arrived
  BY <1>2 DEF client
<1>4. h \in Nat /\ n \in Nat /\ Len(sent) \in Nat
  BY ParsedType
<1>5. buf' = <<>> /\ (pc' = "headers" => parsed' = parsed)
      /\ (pc' # "headers" => Len(parsed') = n + 1)
  BY <1>2, HeaderReadLeaves
<1>6. ASSUME pc' = "headers" PROVE Request' = r
  BY <1>3, <1>5, <1>6 DEF Request
<1>7. ASSUME pc' = "headers", HeadersSoFar',
             msg' = [method |-> r.method, uri |-> r.uri],
             Len(headers') \in Nat, Len(headers') + 1 \in 0 .. Len(r.headers) + 1,
             pos' = RequestEnd(n) + LineBegin(r, Len(headers') + 1)
      PROVE  Within'
  <2>1. InLine(LineNo)'
    BY <1>3, <1>5, <1>7, BeginsLine
  <2>2. (Len(parsed) < Len(sent))' /\ (RequestEnd(Len(parsed) + 1) <= arrived)'
    BY <1>3, <1>5, <1>7 DEF Within, RequestEnd
  <2>3. msg' = [method |-> Request'.method, uri |-> Request'.uri]
    BY <1>6, <1>7
  <2> QED
    BY <1>7, <2>1, <2>2, <2>3 DEF Within
<1>8. CASE pc = "line" /\ LineFails("SC_OK", RequestLine(r))
  BY <1>8 DEF LineFails
<1>9. CASE /\ pc = "line" /\ LineDone("SC_OK", RequestLine(r))
           /\ pos' = RequestEnd(n) + LineBegin(r, 1)
  <2>1. /\ pc' = "headers" /\ headers' = headers /\ keep_alive' = keep_alive
        /\ msg' = get_http_msg(RequestLine(r)) /\ IsRequestLine(RequestLine(r))
    BY <1>9 DEF LineDone, NextCall
  <2>2. headers = <<>> /\ keep_alive = FALSE
    BY <1>9 DEF Fresh
  <2>3. msg' = [method |-> r.method, uri |-> r.uri]
    BY <1>1, <2>1, RequestLineRead
  <2>4. Len(headers') = 0
    BY <2>1, <2>2, EmptySeq
  <2>5. HeadersSoFar'
    <3>1. ~ \E i \in 1 .. Len(headers') : AsksKeepAlive(Request'.headers[i])
      BY <2>4
    <3>2. keep_alive' = \E i \in 1 .. Len(headers') : AsksKeepAlive(Request'.headers[i])
      BY <2>1, <2>2, <3>1, Zenon
    <3>3. Len(headers') <= Len(r.headers) /\ \A i \in 1 .. Len(headers') : FALSE
      BY <1>1, <2>4
    <3>4. Len(headers') <= Len(Request'.headers)
      BY <1>6, <2>1, <3>3
    <3> QED
      BY <3>2, <3>3, <3>4, Zenon DEF HeadersSoFar
  <2>6. Len(headers') + 1 = 1 /\ 1 \in 0 .. Len(r.headers) + 1
    BY <1>1, <2>4
  <2> QED
    BY <1>7, <1>9, <2>1, <2>3, <2>4, <2>5, <2>6
<1>10. CASE /\ pc = "headers" /\ h + 1 \in 1 .. Len(r.headers)
            /\ HeaderDone("SC_OK", r.headers[h + 1])
            /\ pos' = RequestEnd(n) + LineBegin(r, h + 2)
  <2>1. pc' = "headers" /\ msg' = msg
    BY <1>10 DEF HeaderDone, NextCall
  <2>2. HeadersSoFar /\ msg = [method |-> r.method, uri |-> r.uri]
    BY <1>10 DEF Within
  <2>3. HeadersSoFar' /\ Len(headers') = h + 1
    BY <1>1, <1>6, <1>10, <2>1, <2>2, HeadersGather
  <2>4. Len(headers') + 1 = h + 2 /\ h + 2 \in 0 .. Len(r.headers) + 1
        /\ Len(headers') \in Nat
    BY <1>1, <1>4, <1>10, <2>3
  <2> QED
    BY <1>7, <1>10, <2>1, <2>2, <2>3, <2>4
<1>11. CASE /\ pc = "headers" /\ HeadersDone("SC_FINISHED")
            /\ pos' = RequestEnd(n + 1)
  <2>1. pc' # "headers"
    BY <1>11 DEF HeadersDone, Return
  <2>2. Len(parsed') = n + 1 /\ n + 1 <= Len(sent)
    BY <1>1, <1>4, <1>5, <2>1
  <2>3. RequestEnd(Len(parsed))' = RequestEnd(n + 1)
    BY <1>3, <2>2 DEF RequestEnd
  <2> QED
    BY <1>3, <1>11, <2>1, <2>2, <2>3 DEF Between
<1> QED
  BY <1>8, <1>9, <1>10, <1>11, LineEnds

LEMMA StaysInStep == TypeOK /\ Fresh /\ InStep /\ [Next]_vars => InStep'
<1> SUFFICES ASSUME TypeOK, Fresh, InStep, [Next]_vars, whole'
             PROVE  /\ ended' # "rst"
                    /\ arrived' = 0 \/ arrived' \in RequestEnds'
                    /\ (pc = "idle" /\ Framed(Len(parsed)) => Between)'
                    /\ (Reading /\ Framed(Len(parsed) + 1) => Within)'
  BY DEF InStep
<1>1. CASE UNCHANGED <<sent, parser>> /\ (Arrive \/ End \/ UNCHANGED vars)
  <2>1. /\ whole /\ ended' # "rst" /\ arrived \in Nat
        /\ \/ arrived' = arrived
           \/ arrived' \in arrived + 1 .. Len(wire) /\ arrived' \in RequestEnds
    <3>1. arrived \in Nat /\ whole \in BOOLEAN
      BY ParsedType DEF TypeOK
    <3>2. CASE Arrive
      BY <3>1, <3>2 DEF Arrive, InStep
    <3>3. CASE End
      BY <3>1, <3>3 DEF End, InStep
    <3>4. CASE UNCHANGED vars
      BY <3>1, <3>4 DEF vars, client, InStep
    <3> QED
      BY <1>1, <3>2, <3>3, <3>4
  <2>2. /\ arrived = 0 \/ arrived \in RequestEnds
        /\ pc = "idle" /\ Framed(Len(parsed)) => Between
        /\ Reading /\ Framed(Len(parsed) + 1) => Within
    BY <2>1 DEF InStep
  <2>3. /\ RequestEnds' = RequestEnds /\ \A n : Framed(n)' = Framed(n)
        /\ Between' = Between
        /\ Within /\ RequestEnd(Len(parsed) + 1) <= arrived' => Within'
        /\ Len(parsed)' = Len(parsed) /\ pc' = pc /\ Reading' = Reading
    BY <1>1, WithinStays
  <2>4. arrived' = 0 \/ arrived' \in RequestEnds'
    BY <2>1, <2>2, <2>3
  <2>5. (pc = "idle" /\ Framed(Len(parsed)) => Between)'
    <3>1. Framed(Len(parsed))' <=> Framed(Len(parsed))
      BY <2>3 DEF Framed
    <3> QED
      BY <2>2, <2>3, <3>1
  <2>6. ASSUME Within PROVE RequestEnd(Len(parsed) + 1) <= arrived'
    <3>1. RequestEnd(Len(parsed) + 1) <= arrived
      BY <2>6 DEF Within
    <3>2. RequestEnd(Len(parsed) + 1) \in Nat
      <4>1. Len(parsed) + 1 \in 0 .. Len(sent)
        BY <2>6, ParsedType DEF Within
      <4> QED
        BY <4>1, RequestsFollow DEF TypeOK
    <3>3. arrived' \in Nat /\ arrived <= arrived'
      BY <2>1
    <3> HIDE DEF RequestEnd
    <3> QED
      BY <2>1, <3>1, <3>2, <3>3
  <2>7. (Reading /\ Framed(Len(parsed) + 1) => Within)'
    <3>1. Framed(Len(parsed) + 1)' <=> Framed(Len(parsed) + 1)
      BY <2>3 DEF Framed
    <3> QED
      BY <2>2, <2>3, <2>6, <3>1
  <2> QED
    BY <2>1, <2>4, <2>5, <2>7
<1>2. ASSUME UNCHANGED client
      PROVE  /\ whole /\ ended' # "rst"
             /\ arrived' = 0 \/ arrived' \in RequestEnds'
             /\ sent' = sent /\ \A n : Framed(n)' = Framed(n)
  BY <1>2 DEF client, InStep, RequestEnds, Framed
<1>3. CASE Begin \/ HangUp
  <2>1. UNCHANGED client /\ parsed' = parsed /\ pc' # "idle"
    BY <1>3 DEF Begin, HangUp
  <2>2. ASSUME Reading', Framed(Len(parsed) + 1)' PROVE Within'
    <3>1. Begin
      BY <1>3, <2>2 DEF HangUp, Reading
    <3>2. whole /\ Framed(Len(parsed) + 1)
      BY <1>2, <2>1, <2>2 DEF Framed
    <3> QED
      BY <3>1, <3>2, BeginsInStep
  <2> QED
    BY <1>2, <2>1, <2>2
<1>4. CASE ReadByte
  <2>1. UNCHANGED client /\ parsed' = parsed /\ pc' = pc /\ Reading
    BY <1>4 DEF ReadByte, CanRead
  <2>2. pc' # "idle"
    BY <2>1 DEF Reading
  <2>3. ASSUME Framed(Len(parsed) + 1)' PROVE Within'
    <3>1. whole /\ Framed(Len(parsed) + 1)
      BY <1>2, <2>1, <2>3 DEF Framed
    <3>2. Within
      BY <2>1, <3>1 DEF InStep
    <3> QED
      BY <1>4, <2>1, <3>2, ReadsInStep
  <2> QED
    BY <1>2, <2>1, <2>2, <2>3
<1>5. CASE Overflow \/ ReadLineEnd \/ ReadNothing \/ ReadFails
  <2>1. Reading
    BY <1>5 DEF Overflow, ReadLineEnd, CanRead, ReadNothing, ReadFails
  <2>2. UNCHANGED client
    <3>1. CASE ReadFails
      <4>1. whole /\ ended = "rst"
        BY <3>1 DEF ReadFails
      <4> QED
        BY <4>1 DEF InStep
    <3> QED
      BY <1>5, <3>1 DEF Overflow, ReadLineEnd, ReadNothing
  <2>3. whole /\ sent' = sent
    BY <1>2, <2>2
  <2>4. CASE Framed(Len(parsed) + 1)
    <3>1. Within /\ ReadLineEnd
      BY <1>5, <2>1, <2>3, <2>4, OnlyLineEnds
    <3>2. /\ pc' = "headers" => Within'
          /\ pc' = "idle" => Between'
      BY <2>1, <3>1, LineInStep
    <3>3. pc' # "line"
      BY <3>1, HeaderReadLeaves DEF ReadLineEnd
    <3>4. Reading' => pc' = "headers"
      BY <3>3 DEF Reading
    <3> QED
      BY <1>2, <2>2, <3>2, <3>4
  <2>5. CASE ~ Framed(Len(parsed) + 1)
    <3>1. \E err \in Outcomes : \E line \in Seq(Byte) : HeaderRead(err, line)
      BY <1>5, Calls
    <3>2. /\ pc' = "idle" => ~ Framed(Len(parsed))'
          /\ Reading' => ~ Framed(Len(parsed) + 1)'
      BY <2>3, <2>5, <3>1, OutOfStep
    <3> QED
      BY <1>2, <2>2, <3>2
  <2> QED
    BY <2>4, <2>5
<1>6. UNCHANGED <<sent, parser>> \/ ~ (Arrive \/ End \/ UNCHANGED vars)
  BY DEF Arrive, End, vars, client
<1> QED
  BY <1>1, <1>3, <1>4, <1>5, <1>6 DEF Next, Parse

LEMMA InitInStep == Init => Fresh /\ InStep
<1> SUFFICES ASSUME Init PROVE Fresh /\ InStep
  OBVIOUS
<1>1. /\ sent \in Sendable /\ wire = WireOf(sent) /\ arrived = 0
      /\ ended = "open" /\ pos = 0 /\ pc = "idle" /\ buf = <<>>
      /\ headers = <<>> /\ keep_alive = FALSE /\ parsed = <<>>
  BY DEF Init
<1>2. Len(parsed) = 0 /\ RequestEnd(0) = 0 /\ Len(sent) \in Nat
  BY <1>1, RequestsFollow, EmptySeq
<1>3. Len(parsed) <= Len(sent) /\ pos = RequestEnd(Len(parsed))
  BY <1>1, <1>2
<1>4. Fresh
  BY <1>1 DEF Fresh
<1> QED
  BY <1>1, <1>3, <1>4 DEF InStep, Between, Reading

LEMMA ParserInStep == Spec => [](TypeOK /\ Fresh /\ InStep)
<1>1. Init => TypeOK /\ Fresh /\ InStep
  BY InitTyped, InitInStep
<1>2. TypeOK /\ Fresh /\ InStep /\ [Next]_vars => (TypeOK /\ Fresh /\ InStep)'
  BY StaysTyped, StaysFresh, StaysInStep
<1> QED
  BY <1>1, <1>2, PTL DEF Spec

-----------------------------------------------------------------------------
(* What comes out, while the requests come whole.                          *)

\* What the steps have in common: the requests stay, the history of whole
\* segments only ends, and results come of a call of next_header.
LEMMA StepsLeave ==
  ASSUME TypeOK, Next
  PROVE  /\ sent' = sent /\ (whole' => whole)
         /\ \/ parsed' = parsed /\ overrun' = overrun
            \/ Reading /\ (Overflow \/ ReadLineEnd \/ ReadNothing \/ ReadFails)
<1>1. whole \in BOOLEAN
  BY DEF TypeOK
<1>2. CASE Arrive
  BY <1>1, <1>2 DEF Arrive, parser
<1>3. CASE End
  BY <1>1, <1>3 DEF End, parser
<1>4. CASE Begin \/ HangUp \/ ReadByte
  BY <1>4 DEF Begin, HangUp, ReadByte, client
<1>5. CASE Overflow \/ ReadLineEnd \/ ReadNothing \/ ReadFails
  BY <1>5 DEF Overflow, ReadLineEnd, CanRead, ReadNothing, ReadFails, client
<1> QED
  BY <1>2, <1>3, <1>4, <1>5 DEF Next, Parse

\* All headers of the request, last first.
LEMMA HeadersInFull ==
  ASSUME TypeOK, HeadersSoFar, Request \in Requests,
         Len(headers) = Len(Request.headers)
  PROVE  /\ headers = Reverse(Request.headers)
         /\ keep_alive = \E j \in 1 .. Len(Request.headers) :
                           AsksKeepAlive(Request.headers[j])
<1> DEFINE R == Request.headers
           n == Len(headers)
<1>1. headers \in Seq(Seq(Byte)) /\ n \in Nat
  BY ParsedType DEF TypeOK
<1>2. \A i \in 1 .. n : headers[i] = R[n + 1 - i]
  BY DEF HeadersSoFar
<1>3. keep_alive = \E i \in 1 .. n : AsksKeepAlive(R[i])
  BY DEF HeadersSoFar
<1>4. headers = [i \in 1 .. n |-> headers[i]]
  BY <1>1
<1> HIDE DEF n
<1>5. \A i \in 1 .. n : n + 1 - i = n - i + 1
  BY <1>1
<1>6. headers = [i \in 1 .. n |-> R[n - i + 1]]
  BY <1>2, <1>4, <1>5
<1> QED
  BY <1>3, <1>6 DEF n, Reverse

\* What a request in step gives.
LEMMA RequestParsed ==
  ASSUME TypeOK, InStep, whole, Reading, Fits(Request), Framed(Len(parsed) + 1),
         Overflow \/ ReadLineEnd \/ ReadNothing \/ ReadFails, parsed' # parsed
  PROVE  LET r == Request
             res == [how |-> "ok",
                     msg |-> [method |-> r.method, uri |-> r.uri],
                     headers |-> Reverse(r.headers),
                     keep_alive |-> \E j \in 1 .. Len(r.headers) :
                                      AsksKeepAlive(r.headers[j])]
         IN  /\ Len(parsed) + 1 \in 1 .. Len(sent)
             /\ res \in Results /\ parsed' = Append(parsed, res)
<1> DEFINE r == Request
           h == Len(headers)
           res == [how |-> "ok", msg |-> msg, headers |-> headers,
                   keep_alive |-> keep_alive]
<1>1. Within /\ ReadLineEnd
  BY OnlyLineEnds
<1>2. r \in Requests /\ Len(parsed) + 1 \in 1 .. Len(sent)
  BY <1>1, WithinRequest
<1>3. "SC_OK" \notin Errors /\ IsRequestLine(RequestLine(r))
  BY <1>2, RequestLineRead DEF Errors
<1>4. /\ pc = "headers" /\ h = Len(r.headers) /\ HeadersDone("SC_FINISHED")
  <2>1. ~ LineFails("SC_OK", RequestLine(r))
    BY <1>3 DEF LineFails
  <2>2. ~ LineDone("SC_OK", RequestLine(r))
    BY DEF LineDone, NextCall
  <2>3. ~ HeaderDone("SC_OK", r.headers[h + 1])
    BY DEF HeaderDone, NextCall
  <2> QED
    BY <1>1, <2>1, <2>2, <2>3, LineEnds
<1>5. parsed' = Append(parsed, res)
  BY <1>4 DEF HeadersDone, Return
<1>6. res \in Results
  BY DEF Results, TypeOK
<1>7. HeadersSoFar /\ msg = [method |-> r.method, uri |-> r.uri]
  BY <1>1, <1>4 DEF Within
<1>8. /\ headers = Reverse(r.headers)
      /\ keep_alive = \E j \in 1 .. Len(r.headers) : AsksKeepAlive(r.headers[j])
  BY <1>2, <1>4, <1>7, HeadersInFull
<1> QED
  BY <1>2, <1>5, <1>6, <1>7, <1>8

LEMMA StaysParsed ==
  TypeOK /\ InStep /\ ParsesWhatWasSent /\ [Next]_vars => ParsesWhatWasSent'
<1> SUFFICES ASSUME TypeOK, InStep, ParsesWhatWasSent, [Next]_vars
             PROVE  ParsesWhatWasSent'
  OBVIOUS
<1> DEFINE res(r) == [how |-> "ok",
                      msg |-> [method |-> r.method, uri |-> r.uri],
                      headers |-> Reverse(r.headers),
                      keep_alive |-> \E j \in 1 .. Len(r.headers) :
                                       AsksKeepAlive(r.headers[j])]
           n == Len(parsed)
<1>1. CASE UNCHANGED vars
  BY <1>1 DEF vars, client, parser, ParsesWhatWasSent
<1>2. CASE Next
  <2>1. /\ sent' = sent /\ (whole' => whole)
        /\ \/ parsed' = parsed
           \/ Reading /\ (Overflow \/ ReadLineEnd \/ ReadNothing \/ ReadFails)
    BY <1>2, StepsLeave
  <2>2. n \in Nat
    BY ParsedType
  <2> SUFFICES ASSUME whole', NEW i \in 1 .. Len(parsed'),
                      \A j \in 1 .. Len(sent) : j <= i => Fits(sent[j])
               PROVE  i <= Len(sent) /\ parsed'[i] = res(sent[i])
    BY <2>1 DEF ParsesWhatWasSent
  <2>3. ASSUME i \in 1 .. n PROVE i <= Len(sent) /\ parsed[i] = res(sent[i])
    BY <2>1, <2>3 DEF ParsesWhatWasSent
  <2>4. CASE parsed' = parsed
    BY <2>3, <2>4
  <2>5. CASE parsed' # parsed
    <3>1. Reading /\ (Overflow \/ ReadLineEnd \/ ReadNothing \/ ReadFails)
      BY <2>1, <2>5
    <3>2. \E err \in Outcomes : \E line \in Seq(Byte) : HeaderRead(err, line)
      BY <3>1, Calls
    <3>3. PICK x \in Results : parsed' = Append(parsed, x)
      BY <2>5, <3>2, HeaderReadLeaves
    <3>4. parsed \in Seq(Results)
      BY DEF TypeOK
    <3>5. /\ Len(parsed') = n + 1 /\ parsed'[n + 1] = x
          /\ \A k \in 1 .. n : parsed'[k] = parsed[k]
      BY <3>3, <3>4, AppendProperties
    <3>6. CASE i \in 1 .. n
      BY <2>3, <3>5, <3>6
    <3>7. CASE i = n + 1
      <4>1. Framed(n + 1)
        BY <3>7 DEF Framed, Fits
      <4>2. whole
        BY <2>1
      <4>3. Within
        BY <3>1, <4>1, <4>2, OnlyLineEnds
      <4>4. n + 1 \in 1 .. Len(sent)
        BY <3>1, <4>3, WithinRequest
      <4>5. n + 1 <= i
        BY <2>2, <3>7
      <4>6. Fits(Request)
        BY <4>4, <4>5 DEF Request
      <4>7. res(Request) \in Results /\ parsed' = Append(parsed, res(Request))
        BY <2>5, <3>1, <4>1, <4>2, <4>6, RequestParsed
      <4> HIDE DEF res
      <4>8. parsed'[n + 1] = res(Request)
        BY <3>4, <4>7, AppendProperties
      <4> QED
        BY <3>7, <4>4, <4>8 DEF Request
    <3> QED
      BY <2>2, <3>5, <3>6, <3>7
  <2> QED
    BY <2>4, <2>5
<1> QED
  BY <1>1, <1>2

\* While requests come whole and fit the buffers, parse_all_headers gives back
\* every request as it was sent, headers last first, and goes on where the next
\* request begins.
THEOREM ParserRoundTrip == Spec => []ParsesWhatWasSent
<1>1. Init => ParsesWhatWasSent
  <2> SUFFICES ASSUME Init PROVE ParsesWhatWasSent
    OBVIOUS
  <2>1. Len(parsed) = 0
    BY EmptySeq DEF Init
  <2> QED
    BY <2>1 DEF ParsesWhatWasSent
<1>2. ParsesWhatWasSent /\ TypeOK /\ InStep /\ [Next]_vars => ParsesWhatWasSent'
  BY StaysParsed
<1> QED
  BY <1>1, <1>2, ParserInStep, PTL DEF Spec

LEMMA StaysInside ==
  TypeOK /\ InStep /\ OnlyTerminatorsOverrun /\ [Next]_vars
    => OnlyTerminatorsOverrun'
<1> SUFFICES ASSUME TypeOK, InStep, OnlyTerminatorsOverrun, [Next]_vars
             PROVE  OnlyTerminatorsOverrun'
  OBVIOUS
<1> DEFINE Exact(r) == \/ Len(r.method) = METHOD_BUF_SIZE
                       \/ Len(r.uri) = URL_BUF_SIZE
<1>1. CASE UNCHANGED vars
  BY <1>1 DEF vars, client, parser, OnlyTerminatorsOverrun
<1>2. CASE Next
  <2>1. /\ sent' = sent /\ (whole' => whole)
        /\ \/ overrun' = overrun
           \/ Reading /\ (Overflow \/ ReadLineEnd \/ ReadNothing \/ ReadFails)
    BY <1>2, StepsLeave
  <2> SUFFICES ASSUME whole', overrun', \A i \in 1 .. Len(sent) : LinesFit(sent[i])
               PROVE  \E i \in 1 .. Len(sent) : Exact(sent[i])
    BY <2>1 DEF OnlyTerminatorsOverrun
  <2>2. CASE overrun
    BY <2>1, <2>2 DEF OnlyTerminatorsOverrun
  <2>3. CASE ~ overrun
    <3>1. Reading /\ (Overflow \/ ReadLineEnd \/ ReadNothing \/ ReadFails)
      BY <2>1, <2>3
    <3>2. Framed(Len(parsed) + 1)
      BY DEF Framed
    <3>3. Within /\ ReadLineEnd
      BY <2>1, <3>1, <3>2, OnlyLineEnds
    <3>4. Request \in Requests /\ Len(parsed) + 1 \in 1 .. Len(sent)
      BY <3>1, <3>3, WithinRequest
    <3>5. WritesPast(RequestLine(Request))
      <4>1. CASE LineFails("SC_OK", RequestLine(Request))
        BY <2>3, <4>1 DEF LineFails
      <4>2. CASE LineDone("SC_OK", RequestLine(Request))
        BY <2>3, <4>2 DEF LineDone
      <4>3. ~ HeaderDone("SC_OK", Request.headers[Len(headers) + 1])
        BY <2>3 DEF HeaderDone
      <4>4. ~ HeadersDone("SC_FINISHED")
        BY <2>3 DEF HeadersDone, Return
      <4> QED
        BY <3>1, <3>3, <4>1, <4>2, <4>3, <4>4, LineEnds
    <3>6. Exact(Request)
      BY <3>4, <3>5, RequestLineRead
    <3> QED
      BY <3>4, <3>6 DEF Request
  <2> QED
    BY <2>2, <2>3
<1> QED
  BY <1>1, <1>2

\* While requests come whole in lines that fit, get_http_msg writes behind its
\* buffers only the terminator of a method or a URI of exactly their size.
THEOREM ParserOverrun == Spec => []OnlyTerminatorsOverrun
<1>1. Init => OnlyTerminatorsOverrun
  BY DEF Init, OnlyTerminatorsOverrun
<1>2. OnlyTerminatorsOverrun /\ TypeOK /\ InStep /\ [Next]_vars
        => OnlyTerminatorsOverrun'
  BY StaysInside
<1> QED
  BY <1>1, <1>2, ParserInStep, PTL DEF Spec

-----------------------------------------------------------------------------
(* Headers and lines.                                                      *)

\* While requests come whole and the call before did not fail, next_header
\* has begun where a line begins.
AtLineStart ==
  pc = "headers" /\ whole /\ error_count = 0 => pos - Len(buf) \in LineBreaks

\* A request ends with the end of a line.
LEMMA RequestEndsBreak ==
  ASSUME sent \in Sendable, wire = WireOf(sent)
  PROVE  RequestEnds \subseteq LineBreaks
<1> SUFFICES ASSUME NEW i \in 1 .. Len(sent)
             PROVE  RequestEnd(i) \in LineBreaks
  BY DEF RequestEnds, RequestEnd
<1> DEFINE m == i - 1
           r == sent[m + 1]
           j == Len(r.headers) + 1
           b == LineBegin(r, j)
           s == LineOf(r, j)
           t == s \o CRLF
<1>1. /\ Len(sent) \in Nat /\ m \in 0 .. Len(sent) /\ m # Len(sent)
      /\ m + 1 = i /\ i \in 0 .. Len(sent) /\ Len(sent) \in 0 .. Len(sent)
      /\ i \in 0 .. Len(sent)
  BY RequestsFollow
<1> HIDE DEF m
<1>2. /\ r \in Requests
      /\ RequestEnd(i) = RequestEnd(m) + Len(Encode(r))
      /\ \A k \in 1 .. Len(Encode(r)) :
           wire[RequestEnd(m) + k] = Encode(r)[k]
      /\ RequestEnd(m) \in Nat /\ RequestEnd(i) <= Len(wire)
  BY <1>1, RequestsFollow
<1> HIDE DEF r
<1>3. j \in 0 .. Len(r.headers) + 1 /\ j = Len(r.headers) + 1
  BY <1>2, RequestType
<1> HIDE DEF j
<1>4. s = <<>> /\ Len(s) = 0
  BY <1>2, <1>3, LineType, EmptySeq
<1>5. t[Len(s) + 1] = "cr" /\ t[Len(s) + 2] = "lf"
  BY <1>2, <1>3, EndedLine
<1>6. /\ b \in Nat /\ b + Len(s) + 2 = Len(Encode(r))
      /\ \A k \in 1 .. Len(s) + 2 : Encode(r)[b + k] = t[k]
  BY <1>2, <1>3, LineText
<1> HIDE DEF b, s, t
<1>7. Encode(r)[b + 1] = "cr" /\ Encode(r)[b + 2] = "lf"
  BY <1>4, <1>5, <1>6
<1>8. /\ RequestEnd(i) = RequestEnd(m) + (b + 2)
      /\ RequestEnd(i) - 1 = RequestEnd(m) + (b + 1)
      /\ b + 1 \in 1 .. Len(Encode(r)) /\ b + 2 \in 1 .. Len(Encode(r))
  BY <1>2, <1>4, <1>6
<1>9. wire[RequestEnd(i) - 1] = "cr" /\ wire[RequestEnd(i)] = "lf"
  BY <1>2, <1>7, <1>8
<1>10. Len(wire) \in Nat
  BY SentType
<1>11. RequestEnd(i) \in 2 .. Len(wire)
  BY <1>2, <1>6, <1>8, <1>10
<1> QED
  BY <1>9, <1>11 DEF LineBreaks

\* The LF that ends a line comes right behind its CR.
LEMMA ReadsLineBreak ==
  ASSUME TypeOK, Gathered, ReadLineEnd
  PROVE  pos' \in LineBreaks
<1>1. /\ Len(wire) \in Nat /\ Len(buf) \in Nat
      /\ buf \in Seq(Byte) /\ pos \in Nat /\ arrived \in Nat
      /\ arrived <= Len(wire)
  BY SentType, LenProperties DEF TypeOK
<1>2. /\ buf # <<>> /\ Last(buf) = "cr" /\ wire[pos + 1] = "lf"
      /\ pos' = pos + 1 /\ pos < arrived
  BY DEF ReadLineEnd, CanRead, AtLineEnd
<1>3. Last(buf) = buf[Len(buf)] /\ Len(buf) \in 1 .. Len(buf) /\ Len(buf) >= 1
  BY <1>1, <1>2, FrontType
<1>4. pos - Len(buf) + Len(buf) = pos /\ Len(buf) <= pos
  BY <1>1 DEF Gathered
<1>5. buf[Len(buf)] = wire[pos - Len(buf) + Len(buf)]
  BY <1>3 DEF Gathered
<1>6. wire[pos] = "cr"
  BY <1>2, <1>3, <1>4, <1>5
<1> DEFINE n == pos + 1
<1>7. n \in 2 .. Len(wire) /\ n - 1 = pos
  BY <1>1, <1>2, <1>3, <1>4
<1>8. wire[n - 1] = "cr" /\ wire[n] = "lf"
  BY <1>2, <1>6, <1>7
<1> HIDE DEF n
<1>9. n \in LineBreaks
  BY <1>7, <1>8 DEF LineBreaks
<1> QED
  BY <1>2, <1>9 DEF n

\* What a step that calls parse_all_headers leaves for the next header.
LEMMA NextCallBegins ==
  ASSUME TypeOK, Gathered, InStep, whole,
         Overflow \/ ReadLineEnd \/ ReadNothing \/ ReadFails,
         pc' = "headers", error_count' = 0
  PROVE  pos' \in LineBreaks
<1>1. /\ wire \in Seq(Byte) /\ Len(wire) \in Nat /\ Len(buf) \in Nat
      /\ buf \in Seq(Byte) /\ pos \in Nat /\ arrived \in Nat
      /\ arrived <= Len(wire) /\ error_count \in Nat
  BY SentType, LenProperties, ParserAssumption DEF TypeOK
<1>2. ASSUME NEW err \in Errors, HeaderRead(err, buf) PROVE FALSE
  <2>1. err # "SC_OK" /\ err # "SC_FINISHED"
    BY DEF Errors
  <2>2. HeaderFails(err) \/ LineFails(err, buf)
    BY <1>2, <2>1 DEF HeaderRead, LineDone, HeaderDone, HeadersDone
  <2>3. error_count' = error_count + 1 \/ pc' # "headers"
    BY <2>2 DEF HeaderFails, LineFails, Return
  <2> QED
    BY <1>1, <2>3
<1>3. ~ Overflow
  BY <1>2 DEF Overflow, Errors
<1>4. ~ ReadFails
  BY DEF ReadFails, InStep
<1>5. CASE ReadLineEnd
  BY <1>5, ReadsLineBreak
<1>6. CASE ReadNothing
  <2>1. /\ HeaderRead(Outcome(buf), buf)
        /\ pos' = pos /\ pos = arrived
    BY <1>6 DEF ReadNothing
  <2>2. buf # <<>>
    <3> SUFFICES ASSUME buf = <<>> PROVE FALSE
      OBVIOUS
    <3>1. Outcome(buf) = "SC_FINISHED"
      BY DEF Outcome
    <3>2. MethodEnd(buf) \in 1 .. Len(buf) + 1 /\ Len(buf) = 0
      BY <1>1, SpacesType, EmptySeq
    <3>3. ~ IsRequestLine(buf)
      BY <3>2 DEF IsRequestLine, MethodFits
    <3>4. LineFails("SC_FINISHED", buf) \/ HeadersDone("SC_FINISHED")
      BY <2>1, <3>1, <3>3 DEF HeaderRead, LineDone, HeaderFails, HeaderDone,
                              Errors
    <3> QED
      BY <3>4 DEF LineFails, HeadersDone, Return
  <2>3. arrived # 0
    BY <1>1, <2>1, <2>2, FrontType DEF Gathered
  <2>4. arrived \in RequestEnds
    BY <2>3 DEF InStep
  <2>5. RequestEnds \subseteq LineBreaks
    BY RequestEndsBreak DEF TypeOK
  <2> QED
    BY <2>1, <2>4, <2>5
<1> QED
  BY <1>3, <1>4, <1>5, <1>6

LEMMA StaysAtLineStart ==
  TypeOK /\ Gathered /\ InStep /\ AtLineStart /\ [Next]_vars => AtLineStart'
<1> SUFFICES ASSUME TypeOK, Gathered, InStep, AtLineStart, [Next]_vars,
                    pc' = "headers", whole', error_count' = 0
             PROVE  pos' - Len(buf') \in LineBreaks'
  BY DEF AtLineStart
<1>1. /\ wire \in Seq(Byte) /\ Len(wire) \in Nat /\ Len(buf) \in Nat
      /\ buf \in Seq(Byte) /\ pos \in Nat
  BY SentType, LenProperties DEF TypeOK
<1>2. wire' = wire /\ (whole' => whole)
  <2>1. CASE Overflow \/ ReadLineEnd \/ ReadNothing \/ ReadFails
    BY <2>1 DEF Overflow, ReadLineEnd, ReadNothing, ReadFails, client
  <2>2. CASE Arrive \/ End
    BY <2>2 DEF Arrive, End
  <2>3. CASE Begin \/ HangUp \/ ReadByte \/ UNCHANGED vars
    BY <2>3 DEF Begin, HangUp, ReadByte, vars, client
  <2> QED
    BY <2>1, <2>2, <2>3 DEF Next, Parse
<1>3. LineBreaks' = LineBreaks /\ whole
  BY <1>2 DEF LineBreaks
<1>4. CASE Overflow \/ ReadLineEnd \/ ReadNothing \/ ReadFails
  <2>1. pos' \in LineBreaks
    BY <1>3, <1>4, NextCallBegins
  <2>2. buf' = <<>>
    BY <1>4, Calls, HeaderReadType
  <2>3. Len(buf') = 0 /\ pos' \in Nat
    BY <1>1, <2>1, <2>2, EmptySeq DEF LineBreaks
  <2> QED
    BY <1>3, <2>1, <2>3
<1>5. CASE ReadByte
  <2>1. pc = "headers" /\ error_count = 0 /\ pos' = pos + 1
    BY <1>5 DEF ReadByte
  <2>2. Len(buf') = Len(buf) + 1
    <3>1. pos + 1 \in 1 .. Len(wire)
      BY <1>1, <1>5 DEF ReadByte, CanRead, TypeOK
    <3>2. wire[pos + 1] \in Byte
      BY <1>1, <3>1, ElementOfSeq
    <3> QED
      BY <1>1, <1>5, <3>2, AppendProperties DEF ReadByte
  <2>3. pos' - Len(buf') = pos - Len(buf)
    BY <1>1, <2>1, <2>2
  <2> QED
    BY <1>3, <2>1, <2>3 DEF AtLineStart
<1>6. CASE Begin \/ HangUp
  BY <1>6 DEF Begin, HangUp
<1>7. CASE Arrive \/ End \/ UNCHANGED vars
  <2>1. UNCHANGED <<pc, error_count, pos, buf>>
    BY <1>7 DEF Arrive, End, vars, parser
  <2> QED
    BY <1>3, <2>1 DEF AtLineStart
<1> QED
  BY <1>4, <1>5, <1>6, <1>7 DEF Next, Parse

\* A sequence whose elements are those of w from place n on.
LEMMA PieceOf ==
  ASSUME NEW w \in Seq(Byte), NEW s \in Seq(Byte),
         NEW n \in 0 .. Len(w), n + Len(s) <= Len(w),
         \A i \in 1 .. Len(s) : s[i] = w[n + i]
  PROVE  s = SubSeq(w, n + 1, n + Len(s))
<1>1. Len(w) \in Nat /\ Len(s) \in Nat
  BY LenProperties
<1> DEFINE a == n + 1
           b == n + Len(s)
           t == SubSeq(w, a, b)
<1>2. a \in 1 .. Len(w) + 1 /\ b \in a - 1 .. Len(w)
  BY <1>1
<1> HIDE DEF a, b
<1>3. /\ t \in Seq(Byte)
      /\ Len(t) = b - a + 1
      /\ \A i \in 1 .. b - a + 1 : t[i] = w[a + i - 1]
  BY <1>2, SliceProperties
<1> HIDE DEF t
<1> USE DEF a, b
<1>4. Len(t) = Len(s)
  BY <1>1, <1>3
<1>5. \A i \in 1 .. Len(s) : s[i] = t[i]
  <2> SUFFICES ASSUME NEW i \in 1 .. Len(s) PROVE s[i] = t[i]
    OBVIOUS
  <2>1. i \in 1 .. b - a + 1 /\ a + i - 1 = n + i
    BY <1>1
  <2> QED
    BY <1>3, <2>1
<1>6. s = t
  BY <1>3, <1>4, <1>5, SeqEqual
<1> QED
  BY <1>6 DEF t

\* What next_header returns from header_buf, with or without the CR of its
\* end.
LEMMA LineIsOfOneLine ==
  ASSUME TypeOK, Gathered, AtLineStart, pc = "headers",
         NEW line \in Seq(Byte), NEW end,
         \/ line = buf /\ end = pos
         \/ buf # <<>> /\ line = Front(buf) /\ end = pos - 1
  PROVE  OfOneLine(line, end)
<1>1. /\ wire \in Seq(Byte) /\ Len(wire) \in Nat /\ Len(buf) \in Nat
      /\ buf \in Seq(Byte) /\ pos \in Nat /\ pos <= Len(wire)
  BY SentType, LenProperties DEF TypeOK
<1> DEFINE n == pos - Len(buf)
<1>2. /\ Len(line) \in Nat /\ Len(line) <= Len(buf) /\ end - Len(line) = n
      /\ end = n + Len(line)
      /\ \A i \in 1 .. Len(line) : line[i] = buf[i]
  <2>1. CASE line = buf /\ end = pos
    BY <1>1, <2>1
  <2>2. CASE buf # <<>> /\ line = Front(buf) /\ end = pos - 1
    <3>1. /\ Len(line) = Len(buf) - 1 /\ Len(buf) \in Nat \ {0}
          /\ \A i \in 1 .. Len(buf) - 1 : line[i] = buf[i]
      BY <1>1, <2>2, FrontType
    <3> QED
      BY <1>1, <2>2, <3>1
  <2> QED
    BY <2>1, <2>2
<1>3. n \in Nat /\ n \in 0 .. Len(wire) /\ n + Len(line) <= Len(wire)
  BY <1>1, <1>2 DEF Gathered
<1>4. \A i \in 1 .. Len(line) : line[i] = wire[n + i]
  BY <1>1, <1>2 DEF Gathered
<1>5. whole /\ error_count = 0 => n \in LineBreaks
  BY DEF AtLineStart
<1> HIDE DEF n
<1>6. line = SubSeq(wire, n + 1, n + Len(line))
  BY <1>1, <1>3, <1>4, PieceOf
<1>7. ASSUME NEW k \in n + 2 .. end, k \in LineBreaks
      PROVE  FALSE
  <2> DEFINE i == k - n - 1
  <2>1. /\ i \in 1 .. Len(line) /\ i + 1 \in 1 .. Len(line)
        /\ i \in 1 .. Len(buf) - 1
        /\ n + i = k - 1 /\ n + (i + 1) = k
    BY <1>1, <1>2, <1>3
  <2> HIDE DEF i
  <2>2. line[i] = "cr" /\ line[i + 1] = "lf"
    BY <1>4, <1>7, <2>1 DEF LineBreaks
  <2> QED
    BY <1>2, <2>1, <2>2 DEF Gathered
<1> QED
  BY <1>2, <1>3, <1>5, <1>6, <1>7 DEF OfOneLine

\* A step that keeps one more header.
LEMMA KeepsOneLine ==
  ASSUME TypeOK, Gathered, AtLineStart, [Next]_vars,
         Len(headers') > Len(headers)
  PROVE  IF pos' = pos
         THEN OfOneLine(Head(headers'), pos)
         ELSE /\ pos' \in LineBreaks
              /\ OfOneLine(Head(headers'), pos' - Len(CRLF))
<1>1. /\ wire \in Seq(Byte) /\ Len(wire) \in Nat /\ Len(buf) \in Nat
      /\ buf \in Seq(Byte) /\ pos \in Nat
      /\ headers \in Seq(Seq(Byte)) /\ Len(headers) \in Nat
  BY SentType, LenProperties DEF TypeOK
<1>2. headers' # headers /\ headers' # <<>>
  BY <1>1, EmptySeq
<1>3. Overflow \/ ReadLineEnd \/ ReadNothing \/ ReadFails
  BY <1>2 DEF Next, Parse, Arrive, End, Begin, HangUp, ReadByte, vars, parser
<1>4. ASSUME NEW err, NEW line, HeaderRead(err, line)
      PROVE  /\ pc = "headers" /\ err = "SC_OK"
             /\ headers' = <<line>> \o headers
  BY <1>2, <1>4 DEF HeaderRead, LineFails, LineDone, HeaderFails, HeaderDone,
                    HeadersDone, Return
<1>5. ASSUME NEW line \in Seq(Byte), headers' = <<line>> \o headers
      PROVE  Head(headers') = line
  <2>1. /\ <<line>> \in Seq(Seq(Byte)) /\ Len(<<line>>) = 1
        /\ <<line>>[1] = line /\ 1 \in 1 .. Len(<<line>>)
    OBVIOUS
  <2>2. (<<line>> \o headers)[1] = <<line>>[1]
        /\ <<line>> \o headers \in Seq(Seq(Byte))
    BY <1>1, <2>1, ConcatPoints
  <2> QED
    BY <1>2, <1>5, <2>1, <2>2, HeadTailProperties
<1>6. CASE ReadLineEnd
  <2>1. /\ HeaderRead(Outcome(Front(buf)), Front(buf))
        /\ buf # <<>> /\ Last(buf) = "cr" /\ wire[pos + 1] = "lf"
        /\ pos' = pos + 1 /\ pos < arrived /\ arrived <= Len(wire)
    BY <1>6 DEF ReadLineEnd, CanRead, AtLineEnd, TypeOK
  <2>2. /\ Front(buf) \in Seq(Byte) /\ Last(buf) = buf[Len(buf)]
        /\ Len(buf) \in 1 .. Len(buf) /\ Len(buf) >= 1
    BY <1>1, <2>1, FrontType
  <2>3. pc = "headers" /\ Head(headers') = Front(buf)
    BY <1>4, <1>5, <2>1, <2>2
  <2>4. pos' - Len(CRLF) = pos - 1 /\ pos' # pos
    BY <1>1, <2>1, Marks
  <2>5. OfOneLine(Front(buf), pos - 1)
    BY <2>1, <2>2, <2>3, LineIsOfOneLine
  <2>6. pos' \in LineBreaks
    BY <1>6, ReadsLineBreak
  <2> QED
    BY <2>3, <2>4, <2>5, <2>6
<1>7. CASE ReadNothing
  <2>1. HeaderRead(Outcome(buf), buf) /\ pos' = pos
    BY <1>7 DEF ReadNothing
  <2>2. pc = "headers" /\ Head(headers') = buf
    BY <1>1, <1>4, <1>5, <2>1
  <2>3. OfOneLine(buf, pos)
    BY <1>1, <2>2, LineIsOfOneLine
  <2> QED
    BY <2>1, <2>2, <2>3
<1>8. ~ Overflow
  <2> SUFFICES ASSUME HeaderRead("SC_BUFFER_OVERFLOW_ERR", buf) PROVE FALSE
    BY DEF Overflow
  <2>1. "SC_BUFFER_OVERFLOW_ERR" = "SC_OK"
    BY <1>4, Zenon
  <2> QED
    BY <2>1
<1>9. ~ ReadFails
  <2> SUFFICES ASSUME HeaderRead("SC_READ_ERR", buf) PROVE FALSE
    BY DEF ReadFails
  <2>1. "SC_READ_ERR" = "SC_OK"
    BY <1>4, Zenon
  <2> QED
    BY <2>1
<1> QED
  BY <1>3, <1>6, <1>7, <1>8, <1>9

\* However the bytes come, are cut or lost, a header that parse_all_headers
\* keeps is what next_header read in one call, of one line; and while requests
\* come whole it begins where that line begins, unless the call before failed.
THEOREM ParserHeaders == Spec => OneLineHeaders
<1>1. Init => Gathered /\ AtLineStart
  <2> SUFFICES ASSUME Init PROVE Gathered /\ AtLineStart
    OBVIOUS
  <2>1. TypeOK /\ buf = <<>> /\ pc = "idle"
    BY InitTyped DEF Init
  <2> QED
    BY <2>1, EmptyIsGathered DEF AtLineStart
<1>2. TypeOK /\ Gathered /\ [Next]_vars => Gathered'
  BY StaysGathered
<1>3. TypeOK /\ Gathered /\ InStep /\ AtLineStart /\ [Next]_vars => AtLineStart'
  BY StaysAtLineStart
<1>4. TypeOK /\ Gathered /\ AtLineStart /\ [Next]_vars =>
        [Len(headers') > Len(headers) =>
           IF pos' = pos
           THEN OfOneLine(Head(headers'), pos)
           ELSE pos' \in LineBreaks
                /\ OfOneLine(Head(headers'), pos' - Len(CRLF))]_vars
  BY KeepsOneLine
<1> QED
  BY <1>1, <1>2, <1>3, <1>4, ParserInStep, PTL DEF Spec, OneLineHeaders

-----------------------------------------------------------------------------
(* Why parsing ends.                                                       *)

\* The turns of next_header's loop, and its calls, use something up: the bytes
\* of the client, the one report of a reset, the text in header_buf, or the
\* errors allowed in a row.
Forward ==
  \/ pos' > pos
  \/ pos' = pos /\ ended = "rst" /\ ended' = "fin"
  \/ pos' = pos /\ ended' = ended /\ Len(buf') < Len(buf)
  \/ pos' = pos /\ ended' = ended /\ buf' = buf /\ error_count' > error_count

\* No turn of next_header's loop and no call of it by parse_all_headers leaves
\* the parser where it was: each brings it forward, in an order with an end.
THEOREM ParserGoesOn == Spec => [][Parse /\ Reading /\ Reading' => Forward]_vars
<1>1. ASSUME TypeOK, Parse, Reading, Reading' PROVE Forward
  <2>1. /\ pos \in Nat /\ Len(buf) \in Nat /\ error_count \in Nat
        /\ buf \in Seq(Byte) /\ Len(<<>>) = 0
    BY <1>1, ParsedType, EmptySeq DEF TypeOK
  <2>2. buf # <<>> => Len(<<>>) < Len(buf)
    <3>1. buf # <<>> => Len(buf) # 0
      BY <2>1, EmptySeq
    <3> QED
      BY <2>1, <3>1
  <2>3. ~ Begin /\ ~ HangUp
    BY <1>1 DEF Begin, HangUp, Reading
  <2>4. CASE ReadByte \/ ReadLineEnd
    BY <2>1, <2>4 DEF ReadByte, ReadLineEnd, Forward
  <2>5. CASE ReadFails
    BY <2>5 DEF ReadFails, Forward
  <2>6. CASE Overflow
    <3>1. /\ pos' = pos /\ ended' = ended
          /\ HeaderRead("SC_BUFFER_OVERFLOW_ERR", buf)
      BY <2>6 DEF Overflow, client
    <3>2. HeaderFails("SC_BUFFER_OVERFLOW_ERR")
      BY <1>1, <3>1
         DEF HeaderRead, LineFails, LineDone, HeaderDone, HeadersDone, Errors,
             Return, Reading
    <3>3. error_count' = error_count + 1 /\ buf' = <<>>
      BY <1>1, <3>2 DEF HeaderFails, Return, NextCall, Reading
    <3> QED
      BY <2>1, <2>2, <3>1, <3>3 DEF Forward
  <2>7. CASE ReadNothing
    <3>1. pos' = pos /\ ended' = ended /\ HeaderRead(Outcome(buf), buf)
      BY <2>7 DEF ReadNothing, client
    <3>2. buf' = <<>>
      BY <1>1, <3>1, HeaderReadLeaves
    <3>3. buf # <<>>
      <4> SUFFICES ASSUME buf = <<>> PROVE FALSE
        OBVIOUS
      <4>1. Outcome(buf) = "SC_FINISHED"
        BY DEF Outcome
      <4>2. CASE pc = "line"
        <5>1. Spaces(buf) = {} /\ Len(buf) = 0
          BY <2>1 DEF Spaces
        <5>2. MethodEnd(buf) = 1
          <6>1. {1} \in SUBSET Nat /\ {1} # {}
            OBVIOUS
          <6>2. Least({1}) = 1
            BY <6>1, LeastIsLeast
          <6>3. Spaces(buf) \cup {Len(buf) + 1} = {1}
            BY <5>1
          <6> QED
            BY <6>2, <6>3 DEF MethodEnd
        <5>3. ~ IsRequestLine(buf)
          BY <5>1, <5>2 DEF IsRequestLine, MethodFits
        <5>4. LineFails(Outcome(buf), buf)
          BY <3>1, <4>2, <5>3
             DEF HeaderRead, LineDone, HeaderFails, HeaderDone, HeadersDone
        <5> QED
          BY <1>1, <5>4 DEF LineFails, Reading
      <4>3. CASE pc = "headers"
        <5>1. HeadersDone("SC_FINISHED")
          BY <3>1, <4>1, <4>3
             DEF HeaderRead, LineFails, LineDone, HeaderFails, HeaderDone, Errors
        <5> QED
          BY <1>1, <5>1 DEF HeadersDone, Return, Reading
      <4> QED
        BY <1>1, <4>2, <4>3 DEF Reading
    <3> QED
      BY <2>1, <2>2, <3>1, <3>2, <3>3 DEF Forward
  <2> QED
    BY <1>1, <2>3, <2>4, <2>5, <2>6, <2>7 DEF Parse
<1>2. TypeOK /\ [Next]_vars => [Parse /\ Reading /\ Reading' => Forward]_vars
  BY <1>1
<1> QED
  BY <1>2, ParserTyped, PTL DEF Spec
=============================================================================
