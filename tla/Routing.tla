------------------------------ MODULE Routing -------------------------------
(***************************************************************************)
(* A list of endpoints (sculpt_mgr.c), the lookup that sc_mgr_poll does in *)
(* it (sculpt_conn.c), and the string comparisons both rest on             *)
(* (sculpt_util.c).  A string is a sequence of character codes; its length *)
(* is the len of sc_str.                                                   *)
(***************************************************************************)
EXTENDS Integers, Sequences

CONSTANTS
  Names,     \* the texts the application binds functions to
  Uris,      \* what clients ask for
  Handlers,  \* the functions
  Nodes,     \* bound: the memory there is for endpoints
  NULL

ASSUME RoutingAssumption ==
  /\ Names \subseteq Seq(Int) /\ Uris \subseteq Seq(Int)
  /\ NULL \notin Handlers

-----------------------------------------------------------------------------
(* Comparisons.                                                            *)

\* The positions at which two strings differ, of those both have.
Differences(a, b) ==
  {i \in 1 .. Len(a) : i <= Len(b) /\ a[i] # b[i]}

\* The first of a set of positions.
First(S) == CHOOSE i \in S : \A j \in S : i <= j

sc_strcmp_NoLength(a, b) ==
  IF Differences(a, b) = {} THEN 0
  ELSE LET i == First(Differences(a, b)) IN IF a[i] < b[i] THEN -1 ELSE 1

sc_strcmp(a, b) ==
  IF Differences(a, b) # {}
  THEN LET i == First(Differences(a, b)) IN IF a[i] < b[i] THEN -1 ELSE 1
  ELSE IF Len(b) < Len(a) THEN 1
  ELSE IF Len(a) < Len(b) THEN -1 ELSE 0

\* memcmp over the length of the prefix, once str is known to be as long.
sc_strprefix(str, prefix) ==
  /\ Len(prefix) <= Len(str)
  /\ \A i \in 1 .. Len(prefix) : str[i] = prefix[i]

-----------------------------------------------------------------------------
(* The list.                                                               *)

\* struct _endpoint_list, with the block malloc gave for it.
Endpoints == [val : Names, soft : BOOLEAN, func : Handlers, node : Nodes]

endpoint_add_AtTheEnd(list, e) == list \o <<e>>
endpoint_add_DropsOthers(list, e) == <<e>>

\* _endpoint_add links the new endpoint before the others.
endpoint_add(list, e) == <<e>> \o list

Matches(e, uri) ==
  IF e.soft THEN sc_strprefix(uri, e.val) ELSE sc_strcmp(e.val, uri) = 0

\* The endpoints of the list that match.
Hits(list, uri) == {i \in 1 .. Len(list) : Matches(list[i], uri)}

Route_LastMatch(list, uri) ==
  IF Hits(list, uri) = {} THEN NULL
  ELSE list[CHOOSE i \in Hits(list, uri) : \A j \in Hits(list, uri) : j <= i].func

\* The function that sc_mgr_poll calls for a URI; NULL is the 404.
Route(list, uri) ==
  IF Hits(list, uri) = {} THEN NULL ELSE list[First(Hits(list, uri))].func

-----------------------------------------------------------------------------
\* sc_strcmp is an order, and 0 only for the same string: what a hard endpoint
\* needs, and a table or a search sorted by it would.
StrcmpOrders ==
  \A a, b, c \in Names \cup Uris :
    /\ sc_strcmp(a, b) = 0 <=> a = b
    /\ sc_strcmp(a, b) = -sc_strcmp(b, a)
    /\ sc_strcmp(a, b) <= 0 /\ sc_strcmp(b, c) <= 0 => sc_strcmp(a, c) <= 0

\* An endpoint is for a URI if it was bound to exactly this one, or softly to
\* how it begins ("any URI that starts with", documentation.md).
For(e, uri) ==
  e.val = uri \/ (e.soft /\ \E n \in 0 .. Len(uri) : e.val = SubSeq(uri, 1, n))

\* f is the function of the newest of the bindings made for u.
NewestFor(bindings, u, f) ==
  \E i \in 1 .. Len(bindings) :
    /\ For(bindings[i], u) /\ f = bindings[i].func
    /\ \A j \in 1 .. Len(bindings) : For(bindings[j], u) => j <= i
=============================================================================
