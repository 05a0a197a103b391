------------------------------ MODULE ConnPool ------------------------------
(***************************************************************************)
(* The connection pool of sculpt_conn.c: an array of sc_conn structs and,  *)
(* threaded through their next pointers, a stack of the ones that can be   *)
(* handed out (mgr->free_conns).  A pool is a value, so that a handler     *)
(* that calls release two or three times is a composition of operators.    *)
(*                                                                         *)
(* A slot is an index of mgr->conn_pool.  The fields of all the slots are  *)
(* functions: state, next and fd as in sc_conn, and idle and age for       *)
(* now - last_active and now - creation_time.  The clock is read only to   *)
(* compare these two with their limits, so they stop one above the limit,  *)
(* and a slot that is not ACTIVE, whose times nobody reads, has them at 0. *)
(***************************************************************************)
EXTENDS Integers, FiniteSets

CONSTANTS
  MaxConns,     \* mgr->max_conn_count, the length of conn_pool
  ConnTimeout,  \* mgr->conn_timeout
  ConnMaxAge,   \* mgr->conn_max_age
  NULL          \* the null pointer; also "no client" and "not registered"

\* A pool of no slots is left out: sc_mgr_conn_pool_init would write the
\* element before the array (conn_pool[max_conns - 1]).
ASSUME PoolAssumption ==
  /\ MaxConns \in Nat \ {0}
  /\ ConnTimeout \in Nat
  /\ ConnMaxAge \in Nat
  /\ NULL \notin Int

Slots == 0 .. MaxConns - 1

ConnStates == {"IDLE", "ACTIVE", "CLOSING"}

\* The type of a pool.  conn_count may be any integer: nothing in the code
\* stops sc_mgr_conn_release from taking it below zero.
Pools ==
  [ free_conns : Slots \cup {NULL},
    conn_count : Int,
    state      : [Slots -> ConnStates],
    next       : [Slots -> Slots \cup {NULL}],
    fd         : [Slots -> Int],
    idle       : [Slots -> 0 .. ConnTimeout + 1],
    age        : [Slots -> 0 .. ConnMaxAge + 1] ]

-----------------------------------------------------------------------------
(* The operations.  A definition whose name has an underscore and a remark  *)
(* (Release_NoLink) is a plausible wrong version of the one it precedes,    *)
(* that no specification uses: the properties have to tell the two apart.   *)

NewPool_LinksPast ==
  [ free_conns |-> 0,
    conn_count |-> 0,
    state      |-> [c \in Slots |-> "IDLE"],
    next       |-> [c \in Slots |-> c + 1],
    fd         |-> [c \in Slots |-> 0],
    idle       |-> [c \in Slots |-> 0],
    age        |-> [c \in Slots |-> 0] ]

\* sc_mgr_conn_pool_init: the zeroed array, linked in order.
NewPool ==
  [ free_conns |-> 0,
    conn_count |-> 0,
    state      |-> [c \in Slots |-> "IDLE"],
    next       |-> [c \in Slots |-> IF c = MaxConns - 1 THEN NULL ELSE c + 1],
    fd         |-> [c \in Slots |-> 0],
    idle       |-> [c \in Slots |-> 0],
    age        |-> [c \in Slots |-> 0] ]

HasRoom_AtLimit(p) == p.conn_count <= MaxConns
HasRoom_Early(p) == p.conn_count < MaxConns - 1

\* The test of conn_count that guards both a 503 and a NULL from get_free.
HasRoom(p) == p.conn_count < MaxConns

GetFree_KeepsHead(p) ==
  LET c == p.free_conns IN
  [p EXCEPT !.state[c] = "ACTIVE", !.idle[c] = 0, !.age[c] = 0,
            !.fd[c] = -1, !.conn_count = @ + 1]

\* sc_mgr_conn_get_free, past its early return: pops p.free_conns.  The
\* popped struct keeps its next pointer.  With an empty stack the code reads
\* through NULL; NullSafe says that a caller with HasRoom never gets there.
GetFree(p) ==
  LET c == p.free_conns IN
  [p EXCEPT !.free_conns = p.next[c],
            !.state[c] = "ACTIVE", !.idle[c] = 0, !.age[c] = 0,
            !.fd[c] = -1, !.conn_count = @ + 1]

Release_NoDecrement(p, c) ==
  [p EXCEPT !.state[c] = "CLOSING", !.idle[c] = 0, !.age[c] = 0,
            !.next[c] = p.free_conns, !.free_conns = c]

Release_NoLink(p, c) ==
  [p EXCEPT !.state[c] = "CLOSING", !.idle[c] = 0, !.age[c] = 0,
            !.free_conns = c, !.conn_count = @ - 1]

\* sc_mgr_conn_release: pushes c, whatever c is: no test that it was out.
Release(p, c) ==
  [p EXCEPT !.state[c] = "CLOSING", !.idle[c] = 0, !.age[c] = 0,
            !.next[c] = p.free_conns, !.free_conns = c,
            !.conn_count = @ - 1]

Active(p) == {c \in Slots : p.state[c] = "ACTIVE"}

Expired_AtLimit(p, c) ==
  /\ p.state[c] = "ACTIVE"
  /\ p.idle[c] >= ConnTimeout \/ p.age[c] >= ConnMaxAge

Expired_NoAge(p, c) ==
  /\ p.state[c] = "ACTIVE"
  /\ p.idle[c] > ConnTimeout

\* What sc_mgr_conns_cleanup tests of a slot.
Expired(p, c) ==
  /\ p.state[c] = "ACTIVE"
  /\ p.idle[c] > ConnTimeout \/ p.age[c] > ConnMaxAge

\* One second of time(NULL), for every connection.
PassTime(p) ==
  LET older(n, limit) == IF n > limit THEN n ELSE n + 1 IN
  [p EXCEPT
     !.idle = [c \in Slots |-> IF p.state[c] = "ACTIVE"
                               THEN older(p.idle[c], ConnTimeout) ELSE 0],
     !.age  = [c \in Slots |-> IF p.state[c] = "ACTIVE"
                               THEN older(p.age[c], ConnMaxAge) ELSE 0]]

-----------------------------------------------------------------------------
(* What can be said of a pool.                                             *)

\* s lists, from the top down, the n distinct slots of a stack that ends.
IsFreeStack(p, n, s) ==
  /\ \A i, j \in 1 .. n : s[i] = s[j] => i = j
  /\ p.free_conns = IF n = 0 THEN NULL ELSE s[1]
  /\ \A i \in 1 .. n : p.next[s[i]] = IF i = n THEN NULL ELSE s[i + 1]

\* The stack ends and conn_count is the number of slots that are not on it.
FreeStackEnds(p) ==
  \E n \in 0 .. MaxConns : \E s \in [1 .. n -> Slots] :
    /\ IsFreeStack(p, n, s)
    /\ p.conn_count = MaxConns - n

\* The stack never ends: the top is in a set that next does not leave.
FreeStackLoops(p) ==
  \E S \in SUBSET Slots :
    /\ p.free_conns \in S
    /\ \A c \in S : p.next[c] \in S

\* The two shapes a stack can have, whatever was released.
PoolShape(p) == FreeStackEnds(p) \/ FreeStackLoops(p)

\* A pool nobody misused: the stack holds every slot that is not ACTIVE,
\* each once, and no other, and conn_count counts the ones it does not hold.
PoolExact(p) ==
  \E n \in 0 .. MaxConns : \E s \in [1 .. n -> Slots] :
    /\ IsFreeStack(p, n, s)
    /\ p.conn_count = MaxConns - n
    /\ \A c \in Slots : p.state[c] # "ACTIVE" <=> \E i \in 1 .. n : s[i] = c

\* A caller that passed the capacity test pops a slot, not NULL.
PopsASlot(p) == HasRoom(p) => p.free_conns # NULL
=============================================================================
