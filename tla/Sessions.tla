------------------------------ MODULE Sessions ------------------------------
(***************************************************************************)
(* What the server promises its clients, with no slot, descriptor or event:*)
(* whoever comes waits in a queue, is let in in that order while fewer than*)
(* MaxConns are in, is turned away only when that many are, and leaves.    *)
(***************************************************************************)
EXTENDS Naturals, Sequences, FiniteSets

CONSTANTS Clients, MaxConns

VARIABLES
  queue,   \* who waits
  inside,  \* who is let in
  turned   \* who was turned away, and has not come back

Init == queue = <<>> /\ inside = {} /\ turned = {}

Waits(c) == \E i \in 1 .. Len(queue) : queue[i] = c

Come(c) ==
  /\ c \notin inside /\ ~Waits(c)
  /\ queue' = Append(queue, c)
  /\ turned' = turned \ {c}
  /\ UNCHANGED inside

LetIn ==
  /\ queue # <<>> /\ Cardinality(inside) < MaxConns
  /\ inside' = inside \cup {Head(queue)}
  /\ queue' = Tail(queue)
  /\ UNCHANGED turned

TurnAway ==
  /\ queue # <<>> /\ Cardinality(inside) = MaxConns
  /\ turned' = turned \cup {Head(queue)}
  /\ queue' = Tail(queue)
  /\ UNCHANGED inside

\* The network loses one that waits, and the others keep their order.
Lose ==
  /\ \E i \in 1 .. Len(queue) :
       queue' = SubSeq(queue, 1, i - 1) \o SubSeq(queue, i + 1, Len(queue))
  /\ UNCHANGED <<inside, turned>>

\* One at a time, except at the end.
Leave(c) ==
  /\ c \in inside
  /\ inside' = inside \ {c}
  /\ UNCHANGED <<queue, turned>>

Close == queue' = <<>> /\ inside' = {} /\ UNCHANGED turned

Next ==
  \/ \E c \in Clients : Come(c) \/ Leave(c)
  \/ LetIn \/ TurnAway \/ Lose \/ Close

Spec == Init /\ [][Next]_<<queue, inside, turned>>
=============================================================================
