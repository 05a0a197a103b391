--------------------------- MODULE ConnPoolLemmas ---------------------------
(***************************************************************************)
(* What the operators of ConnPool keep, of any pool they are applied to:   *)
(* the type of a pool, the shape of its stack, exactness, and the count of *)
(* the ACTIVE slots.  The proofs about the pool alone (PoolProofs) and     *)
(* about the event loop (ServerProofs, OrderlyProofs) rest on these.       *)
(***************************************************************************)
EXTENDS ConnPool, TLAPS, FiniteSetTheorems

-----------------------------------------------------------------------------
(* The operations, field by field.                                         *)

\* sc_mgr_conn_release writes these fields and no other.
LEMMA ReleaseFields ==
  ASSUME NEW p \in Pools, NEW c \in Slots
  PROVE  /\ Release(p, c).free_conns = c
         /\ Release(p, c).conn_count = p.conn_count - 1
         /\ Release(p, c).state = [p.state EXCEPT ![c] = "CLOSING"]
         /\ Release(p, c).next = [p.next EXCEPT ![c] = p.free_conns]
         /\ Release(p, c).fd = p.fd
  BY SMT DEF Release, Pools

\* sc_mgr_conn_get_free writes these fields, and no next pointer.
LEMMA GetFreeFields ==
  ASSUME NEW p \in Pools, NEW c \in Slots, p.free_conns = c
  PROVE  /\ GetFree(p).free_conns = p.next[c]
         /\ GetFree(p).conn_count = p.conn_count + 1
         /\ GetFree(p).state = [p.state EXCEPT ![c] = "ACTIVE"]
         /\ GetFree(p).next = p.next
         /\ GetFree(p).fd = [p.fd EXCEPT ![c] = -1]
  BY SMT DEF GetFree, Pools

\* The clock moves idle and age only.
LEMMA PassTimeFields ==
  ASSUME NEW p \in Pools
  PROVE  /\ PassTime(p).free_conns = p.free_conns
         /\ PassTime(p).conn_count = p.conn_count
         /\ PassTime(p).state = p.state
         /\ PassTime(p).next = p.next
         /\ PassTime(p).fd = p.fd
  BY SMT DEF PassTime, Pools

-----------------------------------------------------------------------------
(* Types.                                                                  *)

\* An assignment to one field of a slot, or to one of the list's own fields,
\* of a value of its type.
LEMMA FieldTypes ==
  ASSUME NEW p \in Pools, NEW c \in Slots
  PROVE  /\ \A x \in ConnStates : [p EXCEPT !.state[c] = x] \in Pools
         /\ \A x \in Slots \cup {NULL} : [p EXCEPT !.next[c] = x] \in Pools
         /\ \A x \in Slots \cup {NULL} : [p EXCEPT !.free_conns = x] \in Pools
         /\ \A x \in Int : [p EXCEPT !.conn_count = x] \in Pools
         /\ \A x \in Int : [p EXCEPT !.fd[c] = x] \in Pools
         /\ [p EXCEPT !.idle[c] = 0] \in Pools
         /\ [p EXCEPT !.age[c] = 0] \in Pools
<1>1. \A x \in ConnStates : [p EXCEPT !.state[c] = x] \in Pools
  BY SMT DEF Pools
<1>2. \A x \in Slots \cup {NULL} : [p EXCEPT !.next[c] = x] \in Pools
  BY SMT DEF Pools
<1>3. \A x \in Slots \cup {NULL} : [p EXCEPT !.free_conns = x] \in Pools
  BY SMT DEF Pools
<1>4. \A x \in Int : [p EXCEPT !.conn_count = x] \in Pools
  BY SMT DEF Pools
<1>5. \A x \in Int : [p EXCEPT !.fd[c] = x] \in Pools
  BY SMT DEF Pools
<1>6. [p EXCEPT !.idle[c] = 0] \in Pools
  BY PoolAssumption, SMT DEF Pools
<1>7. [p EXCEPT !.age[c] = 0] \in Pools
  BY PoolAssumption, SMT DEF Pools
<1> QED
  BY <1>1, <1>2, <1>3, <1>4, <1>5, <1>6, <1>7

\* sc_mgr_conn_pool_init leaves every field of a type its declaration allows.
LEMMA NewPoolType == NewPool \in Pools
  BY PoolAssumption, SMT DEF NewPool, Pools, Slots, ConnStates

\* A push keeps the types, whatever slot is pushed.
LEMMA ReleaseType ==
  ASSUME NEW p \in Pools, NEW c \in Slots
  PROVE  Release(p, c) \in Pools
<1> DEFINE p1 == [p EXCEPT !.state[c] = "CLOSING"]
           p2 == [p1 EXCEPT !.idle[c] = 0]
           p3 == [p2 EXCEPT !.age[c] = 0]
           p4 == [p3 EXCEPT !.next[c] = p.free_conns]
           p5 == [p4 EXCEPT !.free_conns = c]
           p6 == [p5 EXCEPT !.conn_count = p.conn_count - 1]
<1>1. Release(p, c) = p6
  BY SMT DEF Release
<1>2. p.free_conns \in Slots \cup {NULL} /\ p.conn_count - 1 \in Int
  BY SMT DEF Pools
<1>3. p1 \in Pools  BY FieldTypes DEF ConnStates
<1> HIDE DEF p1
<1>4. p2 \in Pools  BY <1>3, FieldTypes
<1> HIDE DEF p2
<1>5. p3 \in Pools  BY <1>4, FieldTypes
<1> HIDE DEF p3
<1>6. p4 \in Pools  BY <1>2, <1>5, FieldTypes
<1> HIDE DEF p4
<1>7. p5 \in Pools  BY <1>6, FieldTypes
<1> HIDE DEF p5
<1>8. p6 \in Pools  BY <1>2, <1>7, FieldTypes
<1> QED  BY <1>1, <1>8

\* A pop, of a slot and not of NULL, keeps the types.
LEMMA GetFreeType ==
  ASSUME NEW p \in Pools, NEW c \in Slots, p.free_conns = c
  PROVE  GetFree(p) \in Pools
<1> DEFINE p1 == [p EXCEPT !.free_conns = p.next[c]]
           p2 == [p1 EXCEPT !.state[c] = "ACTIVE"]
           p3 == [p2 EXCEPT !.idle[c] = 0]
           p4 == [p3 EXCEPT !.age[c] = 0]
           p5 == [p4 EXCEPT !.fd[c] = -1]
           p6 == [p5 EXCEPT !.conn_count = p.conn_count + 1]
<1>1. GetFree(p) = p6
  BY SMT DEF GetFree
<1>2. p.next[c] \in Slots \cup {NULL} /\ p.conn_count + 1 \in Int /\ -1 \in Int
  BY SMT DEF Pools
<1>3. p1 \in Pools  BY <1>2, FieldTypes
<1> HIDE DEF p1
<1>4. p2 \in Pools  BY <1>3, FieldTypes DEF ConnStates
<1> HIDE DEF p2
<1>5. p3 \in Pools  BY <1>4, FieldTypes
<1> HIDE DEF p3
<1>6. p4 \in Pools  BY <1>5, FieldTypes
<1> HIDE DEF p4
<1>7. p5 \in Pools  BY <1>2, <1>6, FieldTypes
<1> HIDE DEF p5
<1>8. p6 \in Pools  BY <1>2, <1>7, FieldTypes
<1> QED  BY <1>1, <1>8

\* The clock keeps the types: idle and age stop one above their limits.
LEMMA PassTimeType ==
  ASSUME NEW p \in Pools
  PROVE  PassTime(p) \in Pools
<1> DEFINE I == [c \in Slots |-> IF p.state[c] = "ACTIVE"
                THEN IF p.idle[c] > ConnTimeout THEN p.idle[c] ELSE p.idle[c] + 1
                ELSE 0]
           A == [c \in Slots |-> IF p.state[c] = "ACTIVE"
                THEN IF p.age[c] > ConnMaxAge THEN p.age[c] ELSE p.age[c] + 1
                ELSE 0]
<1>1. PassTime(p) = [[p EXCEPT !.idle = I] EXCEPT !.age = A]
  BY SMT DEF PassTime
<1>2. I \in [Slots -> 0 .. ConnTimeout + 1]
  BY PoolAssumption, SMT DEF Pools
<1>3. A \in [Slots -> 0 .. ConnMaxAge + 1]
  BY PoolAssumption, SMT DEF Pools
<1> HIDE DEF I, A
<1>4. [p EXCEPT !.idle = I] \in Pools
  BY <1>2, SMT DEF Pools
<1>5. \A q \in Pools : [q EXCEPT !.age = A] \in Pools
  BY <1>3, SMT DEF Pools
<1> QED  BY <1>1, <1>4, <1>5

-----------------------------------------------------------------------------
(* The shape of the stack.                                                 *)

\* The pigeonhole principle for a stack: a slot that it does not list leaves
\* room for one more.
LEMMA StackHasRoom ==
  ASSUME NEW n \in 0 .. MaxConns, NEW s \in [1 .. n -> Slots], NEW c \in Slots,
         \A i, j \in 1 .. n : s[i] = s[j] => i = j,
         \A i \in 1 .. n : s[i] # c
  PROVE  n + 1 <= MaxConns
<1> DEFINE t == [i \in 1 .. n + 1 |-> IF i = n + 1 THEN c ELSE s[i]]
<1>1. n \in Nat /\ MaxConns \in Nat
  BY PoolAssumption, SMT
<1>2. \A i \in 1 .. n + 1 : t[i] \in Slots
  BY <1>1, SMT
<1>3. \A i, j \in 1 .. n + 1 : t[i] = t[j] => i = j
  BY <1>1, SMT
<1>4. t \in Injection(1 .. n + 1, Slots)
  BY <1>2, <1>3 DEF Injection, IsInjective
<1>5. IsFiniteSet(Slots) /\ Cardinality(Slots) = MaxConns
  <2>1. 0 \in Int /\ MaxConns - 1 \in Int
    BY <1>1, SMT
  <2> QED
    BY <1>1, <2>1, FS_Interval, PoolAssumption, SMT DEF Slots
<1>6. Cardinality(1 .. n + 1) = n + 1
  <2>1. 1 \in Int /\ n + 1 \in Int
    BY <1>1, SMT
  <2> QED
    BY <1>1, <2>1, FS_Interval, SMT
<1>7. Cardinality(1 .. n + 1) <= Cardinality(Slots)
  BY <1>4, <1>5, FS_Injection
<1> QED
  BY <1>5, <1>6, <1>7

\* Pushing a slot that the stack does not list.
LEMMA PushNew ==
  ASSUME NEW p \in Pools, NEW c \in Slots,
         NEW n \in 0 .. MaxConns, NEW s \in [1 .. n -> Slots],
         IsFreeStack(p, n, s), \A i \in 1 .. n : s[i] # c
  PROVE  LET t == [i \in 1 .. n + 1 |-> IF i = 1 THEN c ELSE s[i - 1]]
         IN  /\ n + 1 \in 0 .. MaxConns
             /\ t \in [1 .. n + 1 -> Slots]
             /\ IsFreeStack(Release(p, c), n + 1, t)
<1> DEFINE t == [i \in 1 .. n + 1 |-> IF i = 1 THEN c ELSE s[i - 1]]
           q == Release(p, c)
<1>1. n + 1 <= MaxConns /\ n \in Nat /\ MaxConns \in Nat
  BY StackHasRoom, PoolAssumption, SMT DEF IsFreeStack
<1>2. q.free_conns = c /\ q.next = [p.next EXCEPT ![c] = p.free_conns]
  BY ReleaseFields
<1>3. t \in [1 .. n + 1 -> Slots]
  BY <1>1, SMT
<1>4. \A i, j \in 1 .. n + 1 : t[i] = t[j] => i = j
  BY <1>1, SMT DEF IsFreeStack
<1>5. q.free_conns = t[1]
  BY <1>1, <1>2, SMT
<1>6. ASSUME NEW i \in 1 .. n + 1
      PROVE  q.next[t[i]] = IF i = n + 1 THEN NULL ELSE t[i + 1]
  <2>1. p.next \in [Slots -> Slots \cup {NULL}]
    BY SMT DEF Pools
  <2>2. CASE i = 1
    <3>1. t[i] = c /\ q.next[c] = p.free_conns
      BY <1>1, <1>2, <2>1, <2>2, SMT
    <3>2. p.free_conns = IF n = 0 THEN NULL ELSE s[1]
      BY DEF IsFreeStack
    <3> QED
      BY <1>1, <2>2, <3>1, <3>2, SMT
  <2>3. CASE i # 1
    <3>1. i - 1 \in 1 .. n /\ t[i] = s[i - 1] /\ s[i - 1] \in Slots
      BY <1>1, <2>3, SMT
    <3>2. q.next[t[i]] = p.next[s[i - 1]]
      BY <1>2, <2>1, <3>1, SMT
    <3>3. p.next[s[i - 1]] = IF i - 1 = n THEN NULL ELSE s[i - 1 + 1]
      BY <3>1 DEF IsFreeStack
    <3> QED
      BY <1>1, <2>3, <3>1, <3>2, <3>3, SMT
  <2> QED
    BY <2>2, <2>3
<1>7. IsFreeStack(q, n + 1, t)
  BY <1>1, <1>4, <1>5, <1>6, SMT DEF IsFreeStack
<1>8. n + 1 \in 0 .. MaxConns
  BY <1>1, SMT
<1> QED
  BY <1>3, <1>7, <1>8

\* Popping the first of the slots the stack lists.
LEMMA PopFirst ==
  ASSUME NEW p \in Pools,
         NEW n \in 1 .. MaxConns, NEW s \in [1 .. n -> Slots],
         IsFreeStack(p, n, s)
  PROVE  LET t == [i \in 1 .. n - 1 |-> s[i + 1]]
         IN  /\ p.free_conns = s[1]
             /\ s[1] \in Slots
             /\ t \in [1 .. n - 1 -> Slots]
             /\ IsFreeStack(GetFree(p), n - 1, t)
<1> DEFINE t == [i \in 1 .. n - 1 |-> s[i + 1]]
           q == GetFree(p)
<1>1. n \in Nat /\ MaxConns \in Nat /\ n >= 1
  BY PoolAssumption, SMT
<1>2. p.free_conns = s[1] /\ s[1] \in Slots
  BY <1>1, SMT DEF IsFreeStack
<1>3. q.free_conns = p.next[s[1]] /\ q.next = p.next
  BY <1>2, GetFreeFields
<1>4. t \in [1 .. n - 1 -> Slots]
  BY <1>1, SMT
<1>5. \A i, j \in 1 .. n - 1 : t[i] = t[j] => i = j
  BY <1>1, SMT DEF IsFreeStack
<1>6. q.free_conns = IF n - 1 = 0 THEN NULL ELSE t[1]
  <2>1. p.next[s[1]] = IF 1 = n THEN NULL ELSE s[1 + 1]
    BY <1>1, SMT DEF IsFreeStack
  <2> QED
    BY <1>1, <1>3, <2>1, SMT
<1>7. ASSUME NEW i \in 1 .. n - 1
      PROVE  q.next[t[i]] = IF i = n - 1 THEN NULL ELSE t[i + 1]
  <2>1. i + 1 \in 1 .. n /\ t[i] = s[i + 1]
    BY <1>1, SMT
  <2>2. p.next[s[i + 1]] = IF i + 1 = n THEN NULL ELSE s[i + 1 + 1]
    BY <2>1 DEF IsFreeStack
  <2> QED
    BY <1>1, <1>3, <2>1, <2>2, SMT
<1>8. IsFreeStack(q, n - 1, t)
  BY <1>5, <1>6, <1>7 DEF IsFreeStack
<1> QED
  BY <1>2, <1>4, <1>8

\* A stack of one of the two shapes is not empty while conn_count says that
\* there is room.
LEMMA ShapeHasSlot ==
  ASSUME NEW p \in Pools, PoolShape(p), HasRoom(p)
  PROVE  p.free_conns \in Slots
<1>1. CASE FreeStackEnds(p)
  <2>0. PICK n \in 0 .. MaxConns : \E s \in [1 .. n -> Slots] :
          IsFreeStack(p, n, s) /\ p.conn_count = MaxConns - n
    BY <1>1 DEF FreeStackEnds
  <2>1. PICK s \in [1 .. n -> Slots] :
          IsFreeStack(p, n, s) /\ p.conn_count = MaxConns - n
    BY <2>0
  <2>2. n # 0
    BY <2>1, PoolAssumption, SMT DEF HasRoom
  <2> QED
    BY <2>1, <2>2, PoolAssumption, SMT DEF IsFreeStack
<1>2. CASE FreeStackLoops(p)
  BY <1>2 DEF FreeStackLoops
<1> QED
  BY <1>1, <1>2 DEF PoolShape

\* sc_mgr_conn_release keeps the shape, whatever slot it is given: pushing a
\* slot that is on the stack closes a loop, and a loop stays one.
LEMMA ReleaseShape ==
  ASSUME NEW p \in Pools, NEW c \in Slots, PoolShape(p)
  PROVE  PoolShape(Release(p, c))
<1> DEFINE q == Release(p, c)
<1>1. /\ q.free_conns = c
      /\ q.conn_count = p.conn_count - 1
      /\ q.next = [p.next EXCEPT ![c] = p.free_conns]
  BY ReleaseFields
<1>2. p.next \in [Slots -> Slots \cup {NULL}]
  BY SMT DEF Pools
<1> HIDE DEF q
<1>3. CASE FreeStackLoops(p)
  <2>1. PICK S \in SUBSET Slots :
          p.free_conns \in S /\ \A x \in S : p.next[x] \in S
    BY <1>3 DEF FreeStackLoops
  <2>2. \A x \in S \cup {c} : q.next[x] \in S \cup {c}
    BY <1>1, <1>2, <2>1
  <2> DEFINE T == S \cup {c}
  <2>3. T \in SUBSET Slots /\ q.free_conns \in T /\ \A x \in T : q.next[x] \in T
    BY <1>1, <2>2
  <2> HIDE DEF T
  <2>4. FreeStackLoops(q)
    BY <2>3 DEF FreeStackLoops
  <2> QED
    BY <2>4 DEF PoolShape, q
<1>4. CASE FreeStackEnds(p)
  <2>0. PICK n \in 0 .. MaxConns : \E s \in [1 .. n -> Slots] :
          IsFreeStack(p, n, s) /\ p.conn_count = MaxConns - n
    BY <1>4 DEF FreeStackEnds
  <2>1. PICK s \in [1 .. n -> Slots] :
          IsFreeStack(p, n, s) /\ p.conn_count = MaxConns - n
    BY <2>0
  <2>2. n \in Nat /\ MaxConns \in Nat
    BY PoolAssumption, SMT
  <2>3. CASE \A i \in 1 .. n : s[i] # c
    <3>1. PICK t \in [1 .. n + 1 -> Slots] :
            n + 1 \in 0 .. MaxConns /\ IsFreeStack(q, n + 1, t)
      BY <2>1, <2>3, PushNew DEF q
    <3>2. q.conn_count = MaxConns - (n + 1)
      BY <1>1, <2>1, <2>2, SMT
    <3>3. FreeStackEnds(q)
      BY <3>1, <3>2 DEF FreeStackEnds
    <3> QED
      BY <3>3 DEF PoolShape, q
  <2>4. CASE \E k \in 1 .. n : s[k] = c
    <3>1. PICK k \in 1 .. n : s[k] = c
      BY <2>4
    <3> DEFINE S == {s[i] : i \in 1 .. k}
    <3>2. k \in Nat /\ k <= n /\ n >= 1
      BY <2>2, <3>1, SMT
    <3>3. c \in S /\ s[1] \in S /\ S \in SUBSET Slots
      <4>1. k \in 1 .. k /\ 1 \in 1 .. k /\ \A i \in 1 .. k : i \in 1 .. n
        BY <2>2, <3>1, <3>2, SMT
      <4> QED
        BY <3>1, <4>1
    <3>4. ASSUME NEW x \in S
          PROVE  q.next[x] \in S
      <4>1. PICK i \in 1 .. k : x = s[i]
        OBVIOUS
      <4>2. i \in 1 .. n /\ x \in Slots
        BY <2>2, <3>2, <4>1, SMT
      <4>3. CASE i = k
        <5>1. q.next[x] = p.free_conns
          BY <1>1, <1>2, <3>1, <4>1, <4>3
        <5>2. p.free_conns = s[1]
          BY <2>1, <3>2, SMT DEF IsFreeStack
        <5> QED
          BY <3>3, <5>1, <5>2
      <4>4. CASE i # k
        <5>1. x # c
          BY <2>1, <3>1, <4>1, <4>2, <4>4 DEF IsFreeStack
        <5>2. q.next[x] = p.next[x]
          BY <1>1, <1>2, <4>2, <5>1
        <5>3. p.next[x] = s[i + 1]
          <6>1. i # n
            BY <2>2, <3>2, <4>1, <4>4, SMT
          <6> QED
            BY <2>1, <4>1, <4>2, <6>1 DEF IsFreeStack
        <5>4. i + 1 \in 1 .. k
          BY <3>2, <4>1, <4>4, SMT
        <5> QED
          BY <5>2, <5>3, <5>4
      <4> QED
        BY <4>3, <4>4
    <3>5. FreeStackLoops(q)
      BY <1>1, <3>3, <3>4 DEF FreeStackLoops
    <3> QED
      BY <3>5 DEF PoolShape, q
  <2> QED
    BY <2>3, <2>4
<1> QED
  BY <1>3, <1>4 DEF PoolShape

\* sc_mgr_conn_get_free keeps the shape, after its capacity test.
LEMMA GetFreeShape ==
  ASSUME NEW p \in Pools, PoolShape(p), HasRoom(p)
  PROVE  PoolShape(GetFree(p))
<1> DEFINE q == GetFree(p)
           c == p.free_conns
<1>0. c \in Slots
  BY ShapeHasSlot
<1>1. /\ q.free_conns = p.next[c]
      /\ q.conn_count = p.conn_count + 1
      /\ q.next = p.next
  BY <1>0, GetFreeFields
<1> HIDE DEF q
<1>2. CASE FreeStackLoops(p)
  <2>1. PICK S \in SUBSET Slots :
          p.free_conns \in S /\ \A x \in S : p.next[x] \in S
    BY <1>2 DEF FreeStackLoops
  <2>2. FreeStackLoops(q)
    BY <1>1, <2>1 DEF FreeStackLoops
  <2> QED
    BY <2>2 DEF PoolShape, q
<1>3. CASE FreeStackEnds(p)
  <2>0. PICK n \in 0 .. MaxConns : \E s \in [1 .. n -> Slots] :
          IsFreeStack(p, n, s) /\ p.conn_count = MaxConns - n
    BY <1>3 DEF FreeStackEnds
  <2>1. PICK s \in [1 .. n -> Slots] :
          IsFreeStack(p, n, s) /\ p.conn_count = MaxConns - n
    BY <2>0
  <2>2. n \in 1 .. MaxConns
    BY <2>1, PoolAssumption, SMT DEF HasRoom
  <2>3. PICK t \in [1 .. n - 1 -> Slots] : IsFreeStack(q, n - 1, t)
    BY <2>1, <2>2, PopFirst DEF q
  <2>4. n - 1 \in 0 .. MaxConns /\ q.conn_count = MaxConns - (n - 1)
    BY <1>1, <2>1, <2>2, PoolAssumption, SMT
  <2>5. FreeStackEnds(q)
    BY <2>3, <2>4 DEF FreeStackEnds
  <2> QED
    BY <2>5 DEF PoolShape, q
<1> QED
  BY <1>2, <1>3 DEF PoolShape

\* The stack that sc_mgr_conn_pool_init links ends, and lists every slot.
LEMMA NewPoolStack ==
  LET s == [i \in 1 .. MaxConns |-> i - 1]
  IN  /\ s \in [1 .. MaxConns -> Slots]
      /\ IsFreeStack(NewPool, MaxConns, s)
      /\ \A c \in Slots : s[c + 1] = c
<1> DEFINE s == [i \in 1 .. MaxConns |-> i - 1]
<1>1. MaxConns \in Nat /\ MaxConns >= 1
  BY PoolAssumption, SMT
<1>2. s \in [1 .. MaxConns -> Slots] /\ \A c \in Slots : s[c + 1] = c
  BY <1>1, SMT DEF Slots
<1>3. NewPool.free_conns = 0 /\ \A c \in Slots :
        NewPool.next[c] = IF c = MaxConns - 1 THEN NULL ELSE c + 1
  BY SMT DEF NewPool
<1>4. \A i \in 1 .. MaxConns :
        NewPool.next[s[i]] = IF i = MaxConns THEN NULL ELSE s[i + 1]
  BY <1>1, <1>3, SMT DEF Slots
<1>5. \A i, j \in 1 .. MaxConns : s[i] = s[j] => i = j
  BY <1>1, SMT
<1>6. NewPool.free_conns = IF MaxConns = 0 THEN NULL ELSE s[1]
  BY <1>1, <1>3, SMT
<1>7. IsFreeStack(NewPool, MaxConns, s)
  BY <1>4, <1>5, <1>6 DEF IsFreeStack
<1> QED
  BY <1>2, <1>7

\* A new pool is exact, and so of the first shape.
LEMMA NewPoolExact == PoolExact(NewPool)
<1>1. MaxConns \in 0 .. MaxConns /\ NewPool.conn_count = MaxConns - MaxConns
  BY PoolAssumption, SMT DEF NewPool
<1>2. \A c \in Slots : NewPool.state[c] # "ACTIVE"
  BY SMT DEF NewPool
<1>3. \A c \in Slots : c + 1 \in 1 .. MaxConns
  BY PoolAssumption, SMT DEF Slots
<1>4. PICK s \in [1 .. MaxConns -> Slots] :
        IsFreeStack(NewPool, MaxConns, s) /\ \A c \in Slots : s[c + 1] = c
  BY NewPoolStack
<1>5. \A c \in Slots : \E i \in 1 .. MaxConns : s[i] = c
  BY <1>3, <1>4
<1> QED
  BY <1>1, <1>2, <1>4, <1>5 DEF PoolExact

\* An exact pool has a stack that ends.
LEMMA ExactIsShape ==
  ASSUME NEW p, PoolExact(p)
  PROVE  PoolShape(p)
  BY DEF PoolExact, PoolShape, FreeStackEnds

-----------------------------------------------------------------------------
(* Exactness.                                                              *)

\* Releasing a slot that is out puts it back on the stack, once.
LEMMA ReleaseExact ==
  ASSUME NEW p \in Pools, NEW c \in Slots, PoolExact(p), p.state[c] = "ACTIVE"
  PROVE  PoolExact(Release(p, c))
<1> DEFINE q == Release(p, c)
<1>1. /\ q.conn_count = p.conn_count - 1
      /\ q.state = [p.state EXCEPT ![c] = "CLOSING"]
      /\ p.state \in [Slots -> ConnStates]
  <2>1. p.state \in [Slots -> ConnStates]
    BY SMT DEF Pools
  <2> QED
    BY <2>1, ReleaseFields
<1>2. PICK n \in 0 .. MaxConns : \E s \in [1 .. n -> Slots] :
        /\ IsFreeStack(p, n, s)
        /\ p.conn_count = MaxConns - n
        /\ \A x \in Slots : p.state[x] # "ACTIVE" <=> \E i \in 1 .. n : s[i] = x
  BY DEF PoolExact
<1>3. PICK s \in [1 .. n -> Slots] :
        /\ IsFreeStack(p, n, s)
        /\ p.conn_count = MaxConns - n
        /\ \A x \in Slots : p.state[x] # "ACTIVE" <=> \E i \in 1 .. n : s[i] = x
  BY <1>2
<1>4. \A i \in 1 .. n : s[i] # c
  BY <1>3
<1> DEFINE t == [i \in 1 .. n + 1 |-> IF i = 1 THEN c ELSE s[i - 1]]
<1>5. /\ n + 1 \in 0 .. MaxConns
      /\ t \in [1 .. n + 1 -> Slots]
      /\ IsFreeStack(q, n + 1, t)
  BY <1>3, <1>4, PushNew
<1>6. n \in Nat /\ MaxConns \in Nat
  BY PoolAssumption, SMT
<1>7. q.conn_count = MaxConns - (n + 1)
  BY <1>1, <1>3, <1>6, SMT
<1> HIDE DEF q
<1>8. ASSUME NEW x \in Slots
      PROVE  q.state[x] # "ACTIVE" <=> \E i \in 1 .. n + 1 : t[i] = x
  <2>1. t[1] = c /\ 1 \in 1 .. n + 1
    BY <1>6, SMT
  <2>2. \A i \in 1 .. n : i + 1 \in 1 .. n + 1 /\ t[i + 1] = s[i]
    BY <1>6, SMT
  <2>3. \A i \in 1 .. n + 1 : i # 1 => i - 1 \in 1 .. n /\ t[i] = s[i - 1]
    BY <1>6, SMT
  <2> HIDE DEF t
  <2>4. CASE x = c
    BY <1>1, <2>1, <2>4
  <2>5. CASE x # c
    <3>1. q.state[x] = p.state[x]
      BY <1>1, <2>5
    <3>2. (\E i \in 1 .. n + 1 : t[i] = x) <=> (\E i \in 1 .. n : s[i] = x)
      BY <2>1, <2>2, <2>3, <2>5
    <3> QED
      BY <1>3, <3>1, <3>2
  <2> QED
    BY <2>4, <2>5
<1> HIDE DEF t
<1> QED
  BY <1>5, <1>7, <1>8 DEF PoolExact, q

\* Popping from an exact pool with room: the slot was not out, and is now.
LEMMA GetFreeExact ==
  ASSUME NEW p \in Pools, PoolExact(p), HasRoom(p)
  PROVE  /\ p.free_conns \in Slots
         /\ p.state[p.free_conns] # "ACTIVE"
         /\ PoolExact(GetFree(p))
<1> DEFINE q == GetFree(p)
           c == p.free_conns
<1>1. PICK n \in 0 .. MaxConns : \E s \in [1 .. n -> Slots] :
        /\ IsFreeStack(p, n, s)
        /\ p.conn_count = MaxConns - n
        /\ \A x \in Slots : p.state[x] # "ACTIVE" <=> \E i \in 1 .. n : s[i] = x
  BY DEF PoolExact
<1>2. PICK s \in [1 .. n -> Slots] :
        /\ IsFreeStack(p, n, s)
        /\ p.conn_count = MaxConns - n
        /\ \A x \in Slots : p.state[x] # "ACTIVE" <=> \E i \in 1 .. n : s[i] = x
  BY <1>1
<1>3. n \in 1 .. MaxConns
  BY <1>2, PoolAssumption, SMT DEF HasRoom
<1>4. n \in Nat /\ MaxConns \in Nat /\ n >= 1 /\ 1 \in 1 .. n
  BY <1>3, PoolAssumption, SMT
<1> DEFINE t == [i \in 1 .. n - 1 |-> s[i + 1]]
<1>5. /\ c = s[1]
      /\ s[1] \in Slots
      /\ t \in [1 .. n - 1 -> Slots]
      /\ IsFreeStack(q, n - 1, t)
  BY <1>2, <1>3, PopFirst
<1>6. p.state[c] # "ACTIVE"
  BY <1>2, <1>4, <1>5
<1>7. /\ q.conn_count = p.conn_count + 1
      /\ q.state = [p.state EXCEPT ![c] = "ACTIVE"]
      /\ p.state \in [Slots -> ConnStates]
  <2>1. p.state \in [Slots -> ConnStates]
    BY SMT DEF Pools
  <2> QED
    BY <1>5, <2>1, GetFreeFields
<1> HIDE DEF q
<1>8. n - 1 \in 0 .. MaxConns /\ q.conn_count = MaxConns - (n - 1)
  BY <1>2, <1>4, <1>7, SMT
<1>9. ASSUME NEW x \in Slots
      PROVE  q.state[x] # "ACTIVE" <=> \E i \in 1 .. n - 1 : t[i] = x
  <2>1. \A i \in 1 .. n - 1 : i + 1 \in 1 .. n /\ t[i] = s[i + 1] /\ i + 1 # 1
    BY <1>4, SMT
  <2>2. \A i \in 1 .. n : i # 1 => i - 1 \in 1 .. n - 1 /\ t[i - 1] = s[i]
    BY <1>4, SMT
  <2>3. \A i, j \in 1 .. n : s[i] = s[j] => i = j
    BY <1>2 DEF IsFreeStack
  <2> HIDE DEF t
  <2>4. CASE x = c
    <3>1. \A i \in 1 .. n - 1 : t[i] # x
      BY <1>4, <1>5, <2>1, <2>3, <2>4
    <3> QED
      BY <1>5, <1>7, <2>4, <3>1
  <2>5. CASE x # c
    <3>1. q.state[x] = p.state[x]
      BY <1>5, <1>7, <2>5
    <3>2. (\E i \in 1 .. n - 1 : t[i] = x) <=> (\E i \in 1 .. n : s[i] = x)
      BY <1>5, <2>1, <2>2, <2>5
    <3> QED
      BY <1>2, <3>1, <3>2
  <2> QED
    BY <2>4, <2>5
<1> HIDE DEF t
<1>10. PoolExact(q)
  BY <1>5, <1>8, <1>9 DEF PoolExact
<1> QED
  BY <1>5, <1>6, <1>10 DEF q

\* In an exact pool, no room means that every slot is out.
LEMMA ExactFull ==
  ASSUME NEW p \in Pools, PoolExact(p), ~HasRoom(p)
  PROVE  Active(p) = Slots
<1>1. PICK n \in 0 .. MaxConns : \E s \in [1 .. n -> Slots] :
        /\ p.conn_count = MaxConns - n
        /\ \A x \in Slots : p.state[x] # "ACTIVE" <=> \E i \in 1 .. n : s[i] = x
  BY DEF PoolExact
<1>2. n = 0
  BY <1>1, PoolAssumption, SMT DEF HasRoom
<1>3. \A i \in 1 .. n : FALSE
  BY <1>2, SMT
<1>4. \A x \in Slots : p.state[x] = "ACTIVE"
  BY <1>1, <1>3
<1> QED
  BY <1>4 DEF Active

-----------------------------------------------------------------------------
(* The slots that are out.                                                 *)

\* Which slots are ACTIVE after each operation.
LEMMA ActiveSlots ==
  ASSUME NEW p \in Pools, NEW c \in Slots
  PROVE  /\ Active(Release(p, c)) = Active(p) \ {c}
         /\ p.free_conns = c => Active(GetFree(p)) = Active(p) \cup {c}
         /\ Active(PassTime(p)) = Active(p)
<1>1. p.state \in [Slots -> ConnStates]
  BY SMT DEF Pools
<1>2. Active(Release(p, c)) = Active(p) \ {c}
  <2>1. Release(p, c).state = [p.state EXCEPT ![c] = "CLOSING"]
    BY ReleaseFields
  <2> QED
    BY <1>1, <2>1, SMT DEF Active
<1>3. p.free_conns = c => Active(GetFree(p)) = Active(p) \cup {c}
  <2>1. SUFFICES ASSUME p.free_conns = c
                 PROVE  Active(GetFree(p)) = Active(p) \cup {c}
    OBVIOUS
  <2>2. GetFree(p).state = [p.state EXCEPT ![c] = "ACTIVE"]
    BY <2>1, GetFreeFields
  <2> QED
    BY <1>1, <2>2, SMT DEF Active
<1>4. Active(PassTime(p)) = Active(p)
  BY PassTimeFields DEF Active
<1> QED
  BY <1>2, <1>3, <1>4

\* The ACTIVE slots are finitely many.
LEMMA ActiveFinite ==
  ASSUME NEW p
  PROVE  IsFiniteSet(Active(p)) /\ Cardinality(Active(p)) \in Nat
<1>1. IsFiniteSet(Slots)
  <2>1. 0 \in Int /\ MaxConns - 1 \in Int
    BY PoolAssumption, SMT
  <2> QED
    BY <2>1, FS_Interval DEF Slots
<1>2. Active(p) \in SUBSET Slots
  BY DEF Active
<1> QED
  BY <1>1, <1>2, FS_Subset, FS_CardinalityType

\* Exactness is about the list, the states and the counter only: not about
\* the descriptor of a slot nor its times.
LEMMA ExactFields ==
  ASSUME NEW p, NEW q, PoolExact(p),
         q.free_conns = p.free_conns, q.conn_count = p.conn_count,
         q.state = p.state, q.next = p.next
  PROVE  PoolExact(q)
<1>1. \A n, s : IsFreeStack(p, n, s) => IsFreeStack(q, n, s)
  BY DEF IsFreeStack
<1> QED
  BY <1>1 DEF PoolExact

-----------------------------------------------------------------------------
(* Counting.                                                               *)

\* The array conn_pool has max_conn_count elements.
LEMMA SlotsFinite == IsFiniteSet(Slots) /\ Cardinality(Slots) = MaxConns
<1>1. 0 \in Int /\ MaxConns - 1 \in Int /\ MaxConns \in Nat \ {0}
  BY PoolAssumption, SMT
<1> QED
  BY <1>1, FS_Interval, SMT DEF Slots

\* In an exact pool conn_count counts the ACTIVE slots.
LEMMA ExactCount ==
  ASSUME NEW p \in Pools, PoolExact(p)
  PROVE  p.conn_count = Cardinality(Active(p))
<1>1. PICK n \in 0 .. MaxConns : \E s \in [1 .. n -> Slots] :
        /\ IsFreeStack(p, n, s)
        /\ p.conn_count = MaxConns - n
        /\ \A x \in Slots : p.state[x] # "ACTIVE" <=> \E i \in 1 .. n : s[i] = x
  BY DEF PoolExact
<1>2. PICK s \in [1 .. n -> Slots] :
        /\ IsFreeStack(p, n, s)
        /\ p.conn_count = MaxConns - n
        /\ \A x \in Slots : p.state[x] # "ACTIVE" <=> \E i \in 1 .. n : s[i] = x
  BY <1>1
<1> DEFINE F == Slots \ Active(p)
<1>3. \A x \in F : \E i \in 1 .. n : s[i] = x
  BY <1>2 DEF Active
<1>4. \A i \in 1 .. n : s[i] \in F
  BY <1>2 DEF Active
<1>5. s \in Bijection(1 .. n, F)
  BY <1>2, <1>3, <1>4
  DEF IsFreeStack, Bijection, Injection, IsInjective, Surjection
<1>6. n \in Nat /\ IsFiniteSet(1 .. n) /\ Cardinality(1 .. n) = n
  <2>1. 1 \in Int /\ n \in Int /\ n \in Nat
    BY PoolAssumption, SMT
  <2> QED
    BY <2>1, FS_Interval, SMT
<1>7. Cardinality(F) = n
  BY <1>5, <1>6, FS_Bijection DEF ExistsBijection
<1>8. Cardinality(F) = Cardinality(Slots) - Cardinality(Slots \cap Active(p))
  BY SlotsFinite, FS_Difference
<1>9. Slots \cap Active(p) = Active(p)
  BY DEF Active
<1>10. Cardinality(Active(p)) \in Nat /\ MaxConns \in Nat
  BY ActiveFinite, PoolAssumption, SMT
<1>11. n = MaxConns - Cardinality(Active(p)) /\ p.conn_count = MaxConns - n
  BY <1>2, <1>7, <1>8, <1>9, SlotsFinite
<1> QED
  BY <1>6, <1>10, <1>11, SMT
=============================================================================
