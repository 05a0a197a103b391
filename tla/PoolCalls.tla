----------------------------- MODULE PoolCalls ------------------------------
(***************************************************************************)
(* The pool by itself, called through sculpt.h in any order.  As long as   *)
(* callers release only what they hold, they get the promise of LeasePool; *)
(* once one has released a slot twice, as cleanup_after_error does, they   *)
(* still get a pool whose stack is never empty while conn_count says there *)
(* is room.                                                                *)
(***************************************************************************)
EXTENDS ConnPool

CONSTANT MaxDebt  \* bounds the model: how far below 0 conn_count may go

ASSUME DebtAssumption == MaxDebt \in Nat

VARIABLES
  pool,    \* the pool fields of mgr
  ret,     \* what the last sc_mgr_conn_get_free returned
  misused  \* whether a slot was released that was not out

vars == <<pool, ret, misused>>

Init == pool = NewPool /\ ret = NULL /\ misused = FALSE

\* sc_mgr_conn_get_free
GetFreeSlot ==
  /\ HasRoom(pool)
  /\ pool.free_conns # NULL
  /\ pool' = GetFree(pool)
  /\ ret' = pool.free_conns
  /\ UNCHANGED misused

GetFreeFails ==
  /\ ~HasRoom(pool)
  /\ ret' = NULL
  /\ UNCHANGED <<pool, misused>>

\* sc_mgr_conn_release, by a caller that holds the slot
ReleaseHeld ==
  \E c \in Active(pool) : pool' = Release(pool, c) /\ UNCHANGED <<ret, misused>>

\* and by one that does not
ReleaseAgain ==
  /\ pool.conn_count > -MaxDebt
  /\ \E c \in Slots \ Active(pool) : pool' = Release(pool, c)
  /\ misused' = TRUE
  /\ UNCHANGED ret

Next == GetFreeSlot \/ GetFreeFails \/ ReleaseHeld \/ ReleaseAgain

Spec == Init /\ [][Next]_vars

-----------------------------------------------------------------------------
\* Every field keeps its type: sc_conn and the pool fields of sc_conn_mgr.
TypeOK == pool \in Pools /\ ret \in Slots \cup {NULL} /\ misused \in BOOLEAN

\* Callers that release only what they hold keep the pool exact: the stack
\* that release pushes on and get_free pops from holds every slot that is
\* not out, once.
Exact == ~misused => PoolExact(pool)

\* For them conn_count is the number of ACTIVE connections, as sculpt.h says.
CountIsActive == ~misused => pool.conn_count = Cardinality(Active(pool))

\* However callers misuse release, get_free past its capacity test never
\* takes the next pointer of NULL.
NullSafe == PopsASlot(pool)

\* The stack either ends with conn_count counting the rest, or loops.
\* (What makes NullSafe inductive.)
Shape == PoolShape(pool)

Leases == INSTANCE LeasePool WITH leased <- Active(pool)

\* The linked stack and its counter keep the promise of LeasePool, up to the
\* first misuse: a slot handed out is one that nobody holds, and NULL means
\* that all are held.
KeepsPromise ==
  Leases!Init /\ [][~misused' => Leases!Next]_(Leases!vars)
=============================================================================
