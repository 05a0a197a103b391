----------------------------- MODULE Lifecycle ------------------------------
(***************************************************************************)
(* A connection manager from sc_mgr_create to sc_mgr_finish, as the main   *)
(* of app.c and the sample of documentation.md drive it: the calls in      *)
(* order, each of which may fail, and sc_mgr_finish after the first that   *)
(* does; the setters and bindings at any time.  malloc leaves the fields   *)
(* of sc_conn_mgr unset until a call writes them.  The application may     *)
(* start a new manager after the old one is finished, so that what one     *)
(* leaves behind stays visible.                                            *)
(* What happens between sc_mgr_listen and sc_mgr_finish is module Server.  *)
(***************************************************************************)
EXTENDS Routing

CONSTANTS
  MaxConns,      \* what sc_mgr_conn_pool_init is given
  EventCounts,   \* what sc_mgr_epoll_maxevents_set may be given
  Backlogs,      \* what sc_mgr_backlog_set may be given
  MaxBinds,      \* bound: how many endpoints one manager gets
  Env,           \* what may go wrong, see EnvCalls
  UNSET          \* the content of memory nobody has written

\* Each name is a call that may fail; epoll_ctl stands for the fcntl calls of
\* sc_mgr_epoll_init too, which fail with nothing else changed.
\* late: the application sets max_events after the call that reads it.
EnvCalls ==
  {"malloc", "socket", "setsockopt", "bind", "epoll_create", "epoll_ctl",
   "events", "pool", "listen", "getnameinfo", "endpoint", "late"}

DefaultBacklog == 2    \* SC_DEFAULT_BACKLOG, SC_DEFAULT_EPOLL_MAXEVENTS:
DefaultMaxEvents == 1  \* any two values of the sets above do

ASSUME LifecycleAssumption ==
  /\ MaxConns \in Nat \ {0}
  /\ EventCounts \subseteq Nat \ {0} /\ DefaultMaxEvents \in EventCounts
  /\ Backlogs \subseteq Nat /\ DefaultBacklog \in Backlogs
  /\ MaxBinds \in Nat
  /\ Nodes \cap {"mgr", "events", "pool"} = {}
  /\ Env \subseteq EnvCalls
  /\ UNSET \notin Nat \cup {NULL, "pool"}
  /\ NULL \notin Nat \cup {"pool", "listener", "epoll"}

VARIABLES
  stage,      \* how far the application has come
  mgr,        \* the fields of sc_conn_mgr
  open,       \* the descriptors that are open
  queue,      \* the length of the listening queue, NULL when not listening
  heap,       \* the blocks that are allocated
  bound,      \* what the application has bound to this manager, oldest first
  happened,   \* what went wrong with this manager
  lost        \* the endpoints a later binding that failed has unlinked

vars == <<stage, mgr, open, queue, heap, bound, happened, lost>>

\* ll is SC_LL_DEBUG or another level, of which the manager makes nothing.
Managers ==
  [fd : {"listener", NULL}, epoll_fd : {"epoll", NULL},
   backlog : Backlogs, max_events : EventCounts,
   events : {UNSET, NULL} \cup EventCounts,  \* the length of the array
   conn_pool : {UNSET, NULL, "pool"}, max_conn_count : {UNSET, MaxConns},
   endpoints : Seq(Endpoints), ll : {UNSET, "debug", "other"}]

TypeOK ==
  /\ stage \in {"none", "created", "polling", "pooled", "serving", "failed",
                "dead"}
  /\ mgr \in Managers
  /\ open \subseteq {"listener", "epoll"}
  /\ queue \in Backlogs \cup {NULL}
  /\ heap \subseteq {"mgr", "events", "pool"} \cup Nodes
  /\ bound \in Seq(Endpoints)
  /\ happened \subseteq Env
  /\ lost \subseteq Nodes

\* What sc_mgr_create leaves in the memory malloc gave it.
NewManager ==
  [fd |-> "listener", epoll_fd |-> NULL,
   backlog |-> DefaultBacklog, max_events |-> DefaultMaxEvents,
   events |-> UNSET, conn_pool |-> UNSET, max_conn_count |-> UNSET,
   endpoints |-> <<>>, ll |-> UNSET]

Init ==
  /\ stage = "none" /\ mgr = NewManager
  /\ open = {} /\ queue = NULL /\ heap = {}
  /\ bound = <<>> /\ happened = {} /\ lost = {}

Happens(what) == what \in Env /\ happened' = happened \cup {what}

\* A call fails, and the application goes on to clean up.
Fails(call) == Happens(call) /\ stage' = "failed"

-----------------------------------------------------------------------------
(* sculpt_mgr.c and the initialisers of sculpt_conn.c, call by call.       *)

Create ==
  /\ stage = "none"
  /\ stage' = "created"
  /\ heap' = heap \cup {"mgr"}
  /\ open' = open \cup {"listener"}
  /\ mgr' = NewManager /\ bound' = <<>> /\ happened' = {}
  /\ UNCHANGED <<queue, lost>>

CreateFails_KeepsSocket ==
  /\ stage = "none"
  /\ Happens("bind") /\ open' = open \cup {"listener"}
  /\ UNCHANGED <<stage, mgr, queue, heap, bound, lost>>

\* sc_mgr_create closes and frees what it had, and returns NULL: there is
\* nothing for the application to finish.
CreateFails ==
  /\ stage = "none"
  /\ \E call \in {"malloc", "socket", "setsockopt", "bind"} : Happens(call)
  /\ UNCHANGED <<stage, mgr, open, queue, heap, bound, lost>>

Alive == stage \notin {"none", "failed", "dead"}

\* sc_mgr_backlog_set, sc_mgr_epoll_maxevents_set, sc_mgr_ll_set
Set ==
  /\ Alive
  /\ \/ /\ \E n \in Backlogs : mgr' = [mgr EXCEPT !.backlog = n]
        /\ UNCHANGED happened
     \/ /\ \E n \in EventCounts : mgr' = [mgr EXCEPT !.max_events = n]
        /\ IF stage = "created" THEN UNCHANGED happened ELSE Happens("late")
     \/ /\ \E l \in {"debug", "other"} : mgr' = [mgr EXCEPT !.ll = l]
        /\ UNCHANGED happened
  /\ UNCHANGED <<stage, open, queue, heap, bound, lost>>

EpollInit_DefaultRoom ==
  /\ stage = "created"
  /\ stage' = "polling"
  /\ open' = open \cup {"epoll"}
  /\ heap' = heap \cup {"events"}
  /\ mgr' = [mgr EXCEPT !.epoll_fd = "epoll", !.events = DefaultMaxEvents]
  /\ UNCHANGED <<queue, bound, happened, lost>>

EpollInit_OneMore ==
  /\ stage = "created"
  /\ stage' = "polling"
  /\ open' = open \cup {"epoll"}
  /\ heap' = heap \cup {"events"}
  /\ mgr' = [mgr EXCEPT !.epoll_fd = "epoll", !.events = mgr.max_events + 1]
  /\ UNCHANGED <<queue, bound, happened, lost>>

EpollInit ==
  /\ stage = "created"
  /\ stage' = "polling"
  /\ open' = open \cup {"epoll"}
  /\ heap' = heap \cup {"events"}
  /\ mgr' = [mgr EXCEPT !.epoll_fd = "epoll", !.events = mgr.max_events]
  /\ UNCHANGED <<queue, bound, happened, lost>>

\* The epoll descriptor, once there, stays in mgr for sc_mgr_finish.
EpollInitFails ==
  /\ stage = "created"
  /\ \/ Fails("epoll_create") /\ UNCHANGED <<mgr, open>>
     \/ /\ Fails("epoll_ctl")
        /\ mgr' = [mgr EXCEPT !.epoll_fd = "epoll"]
        /\ open' = open \cup {"epoll"}
     \/ /\ Fails("events")
        /\ mgr' = [mgr EXCEPT !.epoll_fd = "epoll", !.events = NULL]
        /\ open' = open \cup {"epoll"}
  /\ UNCHANGED <<queue, heap, bound, lost>>

PoolInit_NoLimit ==
  /\ stage = "polling"
  /\ stage' = "pooled"
  /\ heap' = heap \cup {"pool"}
  /\ mgr' = [mgr EXCEPT !.conn_pool = "pool"]
  /\ UNCHANGED <<open, queue, bound, happened, lost>>

PoolInit ==
  /\ stage = "polling"
  /\ stage' = "pooled"
  /\ heap' = heap \cup {"pool"}
  /\ mgr' = [mgr EXCEPT !.conn_pool = "pool", !.max_conn_count = MaxConns]
  /\ UNCHANGED <<open, queue, bound, happened, lost>>

\* max_conn_count is set before the allocation that fails.
PoolInitFails ==
  /\ stage = "polling"
  /\ Fails("pool")
  /\ mgr' = [mgr EXCEPT !.conn_pool = NULL, !.max_conn_count = MaxConns]
  /\ UNCHANGED <<open, queue, heap, bound, lost>>

Listen ==
  /\ stage = "pooled"
  /\ stage' = "serving"
  /\ queue' = mgr.backlog
  /\ UNCHANGED <<mgr, open, heap, bound, happened, lost>>

\* listen fails, or getnameinfo does after listen has succeeded.
ListenFails ==
  /\ stage = "pooled"
  /\ \/ Fails("listen") /\ UNCHANGED queue
     \/ Fails("getnameinfo") /\ queue' = mgr.backlog
  /\ UNCHANGED <<mgr, open, heap, bound, lost>>

\* sc_mgr_bind_hard and sc_mgr_bind_soft
Bind(soft) ==
  /\ Alive /\ Len(bound) < MaxBinds
  /\ \E v \in Names, f \in Handlers, n \in Nodes \ heap :
       LET e == [val |-> v, soft |-> soft, func |-> f, node |-> n] IN
       /\ heap' = heap \cup {n}
       /\ mgr' = [mgr EXCEPT !.endpoints = endpoint_add(mgr.endpoints, e)]
       /\ bound' = Append(bound, e)
  /\ UNCHANGED <<stage, open, queue, happened, lost>>

EndpointNodes == {mgr.endpoints[i].node : i \in 1 .. Len(mgr.endpoints)}

\* malloc fails, and the list is overwritten with NULL.  The application
\* ignores the code this returns.
BindFails ==
  /\ Alive /\ Happens("endpoint")
  /\ mgr' = [mgr EXCEPT !.endpoints = <<>>]
  /\ lost' = lost \cup EndpointNodes
  /\ UNCHANGED <<stage, open, queue, heap, bound>>

\* sc_mgr_bind_soft, its log level DEBUG or unset and happening to be so,
\* prints the value of the endpoint it failed to allocate.
BindDies ==
  /\ Alive /\ Happens("endpoint") /\ mgr.ll # "other"
  /\ stage' = "dead"
  /\ UNCHANGED <<mgr, open, queue, heap, bound, lost>>

-----------------------------------------------------------------------------
(* sc_mgr_finish, which ends the manager whether it was set up or not.     *)

\* It walks conn_pool as far as max_conn_count, and frees events.
ReadsUnset == UNSET \in {mgr.conn_pool, mgr.max_conn_count, mgr.events}
WalksNull == mgr.conn_pool = NULL /\ mgr.max_conn_count # UNSET

Finish_KeepsEpoll ==
  /\ stage \in {"serving", "failed"}
  /\ ~WalksNull
  /\ open' = open \ {mgr.fd}
  /\ heap' = heap \ ({"mgr", "events", "pool"} \cup EndpointNodes)
  /\ queue' = NULL
  /\ stage' = "none"
  /\ UNCHANGED <<mgr, bound, happened, lost>>

\* Unset fields that happen to be zero do no harm.
Finish ==
  /\ stage \in {"serving", "failed"}
  /\ ~WalksNull
  /\ open' = open \ {mgr.fd, mgr.epoll_fd}
  /\ heap' = heap \ ({"mgr", "events", "pool"} \cup EndpointNodes)
  /\ queue' = NULL
  /\ stage' = "none"
  /\ UNCHANGED <<mgr, bound, happened, lost>>

FinishDies ==
  /\ stage \in {"serving", "failed"}
  /\ ReadsUnset \/ WalksNull
  /\ stage' = "dead"
  /\ UNCHANGED <<mgr, open, queue, heap, bound, happened, lost>>

Next ==
  \/ Create \/ CreateFails \/ Set
  \/ EpollInit \/ EpollInitFails \/ PoolInit \/ PoolInitFails
  \/ Listen \/ ListenFails
  \/ Bind(TRUE) \/ Bind(FALSE) \/ BindFails \/ BindDies
  \/ Finish \/ FinishDies

Spec == Init /\ [][Next]_vars

-----------------------------------------------------------------------------
\* However far the application came, and whatever failed, sc_mgr_finish closes
\* both descriptors and frees every block, except of endpoints that a failed
\* binding has unlinked.
NothingLeft == stage = "none" => open = {} /\ heap = lost /\ queue = NULL

\* documentation.md calls sc_mgr_finish "Cleanup before exit" after each call
\* that can fail.  It ends the process only if sc_mgr_epoll_init or
\* sc_mgr_conn_pool_init failed; nothing else does, but a failed binding.
Survives ==
  stage = "dead" =>
    happened \cap {"epoll_create", "epoll_ctl", "events", "pool", "endpoint"} # {}

\* epoll_wait, told max_events, writes into an array that has that many, if
\* that was not set after sc_mgr_epoll_init.
EventsFit ==
  stage = "serving" /\ "late" \notin happened =>
    mgr.events \in Nat /\ mgr.max_events <= mgr.events

\* The list of endpoints holds every block allocated for it that was not
\* lost, once, and none that was freed.
ListOwnsBlocks ==
  Alive \/ stage = "failed" =>
    /\ EndpointNodes = (heap \cap Nodes) \ lost
    /\ \A i, j \in 1 .. Len(mgr.endpoints) :
         mgr.endpoints[i].node = mgr.endpoints[j].node => i = j

\* A URI goes to the binding made last among those for it, whatever the order
\* of hard and soft bindings, of longer and shorter texts.  When a binding has
\* failed a URI may go nowhere, but never to a binding that a newer one hides.
NewestWins ==
  Alive =>
    \A u \in Uris :
      LET f == Route(mgr.endpoints, u) IN
      \/ NewestFor(bound, u, f)
      \/ /\ f = NULL
         /\ \A i \in 1 .. Len(bound) : For(bound[i], u) => bound[i].node \in lost
=============================================================================
