----------------------------- MODULE LeasePool ------------------------------
(***************************************************************************)
(* What the connection pool promises to its callers, with no list and no   *)
(* counter: a set of slots on lease.  A request for a slot is answered     *)
(* with one that nobody holds, and with NULL only when all are held.       *)
(***************************************************************************)
CONSTANTS Slots, NULL

VARIABLES
  leased,  \* the slots that have been handed out and not given back
  ret      \* the answer to the last request for a slot

vars == <<leased, ret>>

Init == leased = {} /\ ret = NULL

Lease == \E c \in Slots \ leased : leased' = leased \cup {c} /\ ret' = c

Refuse == leased = Slots /\ ret' = NULL /\ UNCHANGED leased

GiveBack == \E c \in leased : leased' = leased \ {c} /\ UNCHANGED ret

Next == Lease \/ Refuse \/ GiveBack

Spec == Init /\ [][Next]_vars
=============================================================================
