----------------------------- MODULE PoolProofs -----------------------------
(***************************************************************************)
(* What PoolCalls checks on a few slots, for any number of them.           *)
(***************************************************************************)
EXTENDS PoolCalls, ConnPoolLemmas

-----------------------------------------------------------------------------
(* Whatever is released.                                                   *)

\* The inductive invariant: nothing but the shape of the stack is left of a
\* pool that is misused, and it is enough for get_free.
ShapeInv == TypeOK /\ Shape

LEMMA ShapeInit == Init => ShapeInv
<1> SUFFICES ASSUME Init PROVE ShapeInv
  OBVIOUS
<1>1. TypeOK
  BY NewPoolType DEF Init, TypeOK
<1>2. Shape
  BY NewPoolExact, ExactIsShape DEF Init, Shape
<1> QED
  BY <1>1, <1>2 DEF ShapeInv

LEMMA ShapeStep == ShapeInv /\ [Next]_vars => ShapeInv'
<1> SUFFICES ASSUME ShapeInv, [Next]_vars PROVE ShapeInv'
  OBVIOUS
<1> USE DEF ShapeInv, TypeOK, Shape
<1>1. CASE GetFreeSlot
  <2>1. pool.free_conns \in Slots /\ pool' = GetFree(pool) /\ ret' = pool.free_conns
    BY <1>1, ShapeHasSlot DEF GetFreeSlot
  <2>2. GetFree(pool) \in Pools
    BY <2>1, GetFreeType
  <2>3. PoolShape(GetFree(pool))
    BY <1>1, GetFreeShape DEF GetFreeSlot
  <2>4. misused' = misused
    BY <1>1 DEF GetFreeSlot
  <2> QED
    BY <2>1, <2>2, <2>3, <2>4
<1>2. CASE GetFreeFails
  BY <1>2 DEF GetFreeFails
<1>3. CASE ReleaseHeld \/ ReleaseAgain
  <2>1. PICK c \in Slots : pool' = Release(pool, c)
    BY <1>3 DEF ReleaseHeld, ReleaseAgain, Active
  <2> ret' \in Slots \cup {NULL} /\ misused' \in BOOLEAN
    BY <1>3 DEF ReleaseHeld, ReleaseAgain
  <2>2. Release(pool, c) \in Pools
    BY ReleaseType
  <2>3. PoolShape(Release(pool, c))
    BY ReleaseShape
  <2> QED
    BY <2>1, <2>2, <2>3
<1>4. CASE UNCHANGED vars
  BY <1>4 DEF vars
<1> QED
  BY <1>1, <1>2, <1>3, <1>4 DEF Next

\* However sc_mgr_conn_release is misused, every field keeps its type.
THEOREM AnyTypeCorrect == Spec => []TypeOK
<1>1. ShapeInv => TypeOK
  BY DEF ShapeInv
<1> QED
  BY <1>1, ShapeInit, ShapeStep, PTL DEF Spec

\* However sc_mgr_conn_release is misused, the stack ends, with conn_count
\* counting the slots it does not list, or it loops.
THEOREM AnyShape == Spec => []Shape
<1>1. ShapeInv => Shape
  BY DEF ShapeInv
<1> QED
  BY <1>1, ShapeInit, ShapeStep, PTL DEF Spec

\* However sc_mgr_conn_release is misused, sc_mgr_conn_get_free never takes
\* the next pointer of NULL.
THEOREM AnyNullSafe == Spec => []NullSafe
<1>1. ShapeInv => NullSafe
  <2> SUFFICES ASSUME ShapeInv, HasRoom(pool) PROVE pool.free_conns # NULL
    BY DEF NullSafe, PopsASlot
  <2>1. pool.free_conns \in Slots
    BY ShapeHasSlot DEF ShapeInv, TypeOK, Shape
  <2> QED
    BY <2>1, PoolAssumption, SMT DEF Slots
<1> QED
  BY <1>1, ShapeInit, ShapeStep, PTL DEF Spec

-----------------------------------------------------------------------------
(* Up to the first misuse.                                                 *)

\* The inductive invariant.  The count needs exactness, to know that a popped
\* slot was not ACTIVE before.
HeldInv == ShapeInv /\ Exact /\ CountIsActive

LEMMA HeldInit == Init => HeldInv
<1> SUFFICES ASSUME Init PROVE HeldInv
  OBVIOUS
<1>1. ShapeInv
  BY ShapeInit
<1>2. Exact
  BY NewPoolExact DEF Init, Exact
<1>3. Active(NewPool) = {} /\ NewPool.conn_count = 0
  BY SMT DEF Active, NewPool
<1>4. CountIsActive
  BY <1>3, FS_EmptySet DEF Init, CountIsActive
<1> QED
  BY <1>1, <1>2, <1>4 DEF HeldInv

\* As long as nobody misuses release, a step is one of these.
LEMMA HeldStep == HeldInv /\ [Next]_vars => HeldInv'
<1> SUFFICES ASSUME HeldInv, [Next]_vars PROVE HeldInv'
  OBVIOUS
<1>1. ShapeInv'
  BY ShapeStep DEF HeldInv
<1>2. pool \in Pools
  BY DEF HeldInv, ShapeInv, TypeOK
<1> SUFFICES ASSUME ~misused'
             PROVE  PoolExact(pool') /\ pool'.conn_count = Cardinality(Active(pool'))
  BY <1>1 DEF HeldInv, Exact, CountIsActive
<1>3. ~misused
  BY DEF Next, vars, GetFreeSlot, GetFreeFails, ReleaseHeld, ReleaseAgain
<1>4. PoolExact(pool) /\ pool.conn_count = Cardinality(Active(pool))
  BY <1>3 DEF HeldInv, Exact, CountIsActive
<1>5. CASE GetFreeSlot
  <2> DEFINE c == pool.free_conns
  <2>1. /\ c \in Slots
        /\ pool.state[c] # "ACTIVE"
        /\ PoolExact(GetFree(pool))
    BY <1>2, <1>4, <1>5, GetFreeExact DEF GetFreeSlot
  <2>2. pool' = GetFree(pool)
    BY <1>5 DEF GetFreeSlot
  <2>3. Active(pool') = Active(pool) \cup {c} /\ c \notin Active(pool)
    BY <1>2, <2>1, <2>2, ActiveSlots DEF Active
  <2>4. Cardinality(Active(pool')) = Cardinality(Active(pool)) + 1
    BY <1>2, <2>3, ActiveFinite, FS_AddElement
  <2>5. pool'.conn_count = pool.conn_count + 1
    BY <1>2, <2>1, <2>2, GetFreeFields
  <2> QED
    BY <1>4, <2>1, <2>2, <2>4, <2>5
<1>6. CASE ReleaseHeld
  <2>1. PICK c \in Active(pool) : pool' = Release(pool, c)
    BY <1>6 DEF ReleaseHeld
  <2>2. c \in Slots /\ pool.state[c] = "ACTIVE"
    BY DEF Active
  <2>3. PoolExact(Release(pool, c))
    BY <1>2, <1>4, <2>2, ReleaseExact
  <2>4. Active(pool') = Active(pool) \ {c}
    BY <1>2, <2>1, <2>2, ActiveSlots
  <2>5. Cardinality(Active(pool')) = Cardinality(Active(pool)) - 1
    BY <1>2, <2>4, ActiveFinite, FS_RemoveElement
  <2>6. pool'.conn_count = pool.conn_count - 1
    BY <1>2, <2>1, <2>2, ReleaseFields
  <2> QED
    BY <1>4, <2>1, <2>3, <2>5, <2>6
<1>7. CASE GetFreeFails \/ UNCHANGED vars
  BY <1>4, <1>7 DEF GetFreeFails, vars
<1> QED
  BY <1>5, <1>6, <1>7 DEF Next, ReleaseAgain

\* Up to the first misuse the stack holds each slot that is not out, once.
THEOREM HeldExact == Spec => []Exact
<1>1. HeldInv => Exact
  BY DEF HeldInv
<1> QED
  BY <1>1, HeldInit, HeldStep, PTL DEF Spec

\* Up to the first misuse conn_count is the number of ACTIVE connections.
THEOREM HeldCount == Spec => []CountIsActive
<1>1. HeldInv => CountIsActive
  BY DEF HeldInv
<1> QED
  BY <1>1, HeldInit, HeldStep, PTL DEF Spec

-----------------------------------------------------------------------------
(* The linked stack implements the lease.                                  *)

LEMMA LeaseInit == Init => Leases!Init
<1> SUFFICES ASSUME Init PROVE Leases!Init
  OBVIOUS
<1>1. Active(NewPool) = {}
  BY SMT DEF Active, NewPool
<1> QED
  BY <1>1 DEF Init, Leases!Init

\* Each call is the abstract one of the same name, or changes nothing.
LEMMA LeaseStep ==
  HeldInv /\ [Next]_vars => [~misused' => Leases!Next]_(Leases!vars)
<1> SUFFICES ASSUME HeldInv, [Next]_vars, ~misused'
             PROVE  [Leases!Next]_(Leases!vars)
  OBVIOUS
<1>1. pool \in Pools
  BY DEF HeldInv, ShapeInv, TypeOK
<1>2. PoolExact(pool)
  BY DEF HeldInv, Exact, Next, vars, GetFreeSlot, GetFreeFails, ReleaseHeld,
         ReleaseAgain
<1>3. CASE GetFreeSlot
  <2>1. /\ pool.free_conns \in Slots
        /\ pool.state[pool.free_conns] # "ACTIVE"
    BY <1>1, <1>2, <1>3, GetFreeExact DEF GetFreeSlot
  <2>2. pool.free_conns \in Slots \ Active(pool)
    BY <2>1 DEF Active
  <2>3. Active(pool)' = Active(pool) \cup {pool.free_conns}
    BY <1>1, <1>3, <2>1, ActiveSlots DEF GetFreeSlot
  <2>4. Leases!Lease
    BY <1>3, <2>2, <2>3 DEF GetFreeSlot, Leases!Lease
  <2> QED
    BY <2>4 DEF Leases!Next
<1>4. CASE GetFreeFails
  <2>1. Active(pool) = Slots
    BY <1>1, <1>2, <1>4, ExactFull DEF GetFreeFails
  <2>2. Leases!Refuse
    BY <1>4, <2>1 DEF GetFreeFails, Leases!Refuse
  <2> QED
    BY <2>2 DEF Leases!Next
<1>5. CASE ReleaseHeld
  <2>1. PICK c \in Active(pool) : pool' = Release(pool, c) /\ UNCHANGED ret
    BY <1>5 DEF ReleaseHeld
  <2>2. c \in Slots
    BY DEF Active
  <2>3. Active(pool)' = Active(pool) \ {c}
    BY <1>1, <2>1, <2>2, ActiveSlots
  <2>4. Leases!GiveBack
    BY <2>1, <2>3 DEF Leases!GiveBack
  <2> QED
    BY <2>4 DEF Leases!Next
<1>6. CASE UNCHANGED vars
  BY <1>6 DEF vars, Leases!vars
<1> QED
  BY <1>3, <1>4, <1>5, <1>6 DEF Next, ReleaseAgain

\* The stack and the counter keep the promise of LeasePool up to the first
\* misuse: a slot handed out is one that nobody holds, and NULL is returned
\* only when all are held.
THEOREM HeldImplementsLease == Spec => KeepsPromise
<1>1. Spec => Leases!Init /\ [][~misused' => Leases!Next]_(Leases!vars)
  BY HeldInit, HeldStep, LeaseInit, LeaseStep, PTL DEF Spec
<1> QED
  BY <1>1 DEF KeepsPromise
=============================================================================
