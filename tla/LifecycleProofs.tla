-------------------------- MODULE LifecycleProofs ---------------------------
(***************************************************************************)
(* Theorems about Lifecycle, for any number of endpoints, any texts and    *)
(* any combination of failing calls.                                       *)
(***************************************************************************)
EXTENDS Lifecycle, RoutingProofs

NodesOf(list) == {list[i].node : i \in 1 .. Len(list)}
Distinct(list) ==
  \A i, j \in 1 .. Len(list) : list[i].node = list[j].node => i = j

\* Linking an endpoint before a list.
LEMMA Linked ==
  ASSUME NEW e \in Endpoints, NEW list \in Seq(Endpoints)
  PROVE  /\ endpoint_add(list, e) \in Seq(Endpoints)
         /\ Len(endpoint_add(list, e)) = Len(list) + 1
         /\ endpoint_add(list, e)[1] = e
         /\ \A i \in 2 .. Len(list) + 1 :
              i - 1 \in 1 .. Len(list) /\ endpoint_add(list, e)[i] = list[i - 1]
         /\ NodesOf(endpoint_add(list, e)) = {e.node} \cup NodesOf(list)
         /\ e.node \notin NodesOf(list) /\ Distinct(list)
              => Distinct(endpoint_add(list, e))
<1> DEFINE t == endpoint_add(list, e)
<1>0. Len(list) \in Nat
  OBVIOUS
<1>1. /\ t \in Seq(Endpoints) /\ Len(t) = Len(list) + 1 /\ t[1] = e
      /\ \A i \in 1 .. Len(list) : t[i + 1] = list[i]
  BY DEF endpoint_add
<1> HIDE DEF t
<1>2. \A i \in 2 .. Len(list) + 1 : i - 1 \in 1 .. Len(list) /\ t[i] = list[i - 1]
  <2> SUFFICES ASSUME NEW i \in 2 .. Len(list) + 1
               PROVE  i - 1 \in 1 .. Len(list) /\ t[i] = list[i - 1]
    OBVIOUS
  <2>1. i - 1 \in 1 .. Len(list) /\ (i - 1) + 1 = i
    BY <1>0
  <2> QED
    BY <1>1, <2>1
<1>3. NodesOf(t) \subseteq {e.node} \cup NodesOf(list)
  <2> SUFFICES ASSUME NEW i \in 1 .. Len(t)
               PROVE  t[i].node \in {e.node} \cup NodesOf(list)
    BY DEF NodesOf
  <2>1. CASE i = 1
    BY <2>1, <1>1
  <2>2. CASE i # 1
    BY <2>2, <1>0, <1>1, <1>2 DEF NodesOf
  <2> QED
    BY <2>1, <2>2
<1>4. {e.node} \cup NodesOf(list) \subseteq NodesOf(t)
  <2>1. e.node \in NodesOf(t)
    BY <1>0, <1>1 DEF NodesOf
  <2>2. ASSUME NEW i \in 1 .. Len(list) PROVE list[i].node \in NodesOf(t)
    <3>1. i + 1 \in 1 .. Len(t) /\ t[i + 1] = list[i]
      BY <1>0, <1>1
    <3> QED
      BY <3>1 DEF NodesOf
  <2> QED
    BY <2>1, <2>2 DEF NodesOf
<1>5. ASSUME e.node \notin NodesOf(list), Distinct(list) PROVE Distinct(t)
  <2> SUFFICES ASSUME NEW i \in 1 .. Len(t), NEW j \in 1 .. Len(t),
                      t[i].node = t[j].node
               PROVE  i = j
    BY DEF Distinct
  <2>1. \A k \in 1 .. Len(list) : list[k].node # e.node
    BY <1>5 DEF NodesOf
  <2>2. CASE i = 1 \/ j = 1
    <3>1. \A k \in 1 .. Len(t) : k # 1 => t[k].node # e.node
      <4> SUFFICES ASSUME NEW k \in 1 .. Len(t), k # 1 PROVE t[k].node # e.node
        OBVIOUS
      <4>1. k - 1 \in 1 .. Len(list) /\ t[k] = list[k - 1]
        BY <1>0, <1>1, <1>2
      <4> QED
        BY <2>1, <4>1
    <3> QED
      BY <2>2, <3>1, <1>1
  <2>3. CASE i # 1 /\ j # 1
    <3>1. /\ i - 1 \in 1 .. Len(list) /\ t[i] = list[i - 1]
          /\ j - 1 \in 1 .. Len(list) /\ t[j] = list[j - 1]
      BY <2>3, <1>0, <1>1, <1>2
    <3>2. i - 1 = j - 1
      BY <1>5, <3>1 DEF Distinct
    <3> QED
      BY <3>2
  <2> QED
    BY <2>2, <2>3
<1> QED
  BY <1>1, <1>2, <1>3, <1>4, <1>5 DEF t

LEMMA NoEndpoints ==
  /\ <<>> \in Seq(Endpoints) /\ Len(<<>>) = 0
  /\ NodesOf(<<>>) = {} /\ Distinct(<<>>)
BY DEF NodesOf, Distinct

LEMMA NodesOfEndpoints ==
  ASSUME NEW list \in Seq(Endpoints)
  PROVE  NodesOf(list) \subseteq Nodes
<1> SUFFICES ASSUME NEW i \in 1 .. Len(list) PROVE list[i].node \in Nodes
  BY DEF NodesOf
<1>1. list[i] \in Endpoints
  OBVIOUS
<1> QED
  BY <1>1 DEF Endpoints

-----------------------------------------------------------------------------
LEMMA NewManagerType == NewManager \in Managers
BY LifecycleAssumption, NoEndpoints DEF NewManager, Managers

LEMMA InitType == Init => TypeOK
BY NewManagerType, NoEndpoints DEF Init, TypeOK

LEMMA StepType == TypeOK /\ [Next]_vars => TypeOK'
<1> SUFFICES ASSUME TypeOK, [Next]_vars PROVE TypeOK'
  OBVIOUS
<1> USE LifecycleAssumption DEF TypeOK, Happens, Fails
<1>1. CASE Create
  BY <1>1, NewManagerType, NoEndpoints DEF Create
<1>2. CASE CreateFails
  BY <1>2 DEF CreateFails
<1>3. CASE Set
  <2>1. mgr' \in Managers
    BY <1>3 DEF Set, Managers
  <2>2. happened' \subseteq Env
    BY <1>3 DEF Set
  <2> QED
    BY <1>3, <2>1, <2>2 DEF Set
<1>4. CASE EpollInit
  <2>1. mgr' \in Managers
    BY <1>4 DEF EpollInit, Managers
  <2> QED
    BY <1>4, <2>1 DEF EpollInit
<1>5. CASE EpollInitFails
  <2>1. mgr' \in Managers
    BY <1>5 DEF EpollInitFails, Managers
  <2> QED
    BY <1>5, <2>1 DEF EpollInitFails
<1>6. CASE PoolInit
  <2>1. mgr' \in Managers
    BY <1>6 DEF PoolInit, Managers
  <2> QED
    BY <1>6, <2>1 DEF PoolInit
<1>7. CASE PoolInitFails
  <2>1. mgr' \in Managers
    BY <1>7 DEF PoolInitFails, Managers
  <2> QED
    BY <1>7, <2>1 DEF PoolInitFails
<1>8. CASE Listen
  BY <1>8 DEF Listen, Managers
<1>9. CASE ListenFails
  BY <1>9 DEF ListenFails, Managers
<1>10. ASSUME NEW soft \in BOOLEAN, Bind(soft) PROVE TypeOK'
  <2>1. PICK v \in Names, f \in Handlers, n \in Nodes \ heap :
          LET e == [val |-> v, soft |-> soft, func |-> f, node |-> n] IN
          /\ heap' = heap \cup {n}
          /\ mgr' = [mgr EXCEPT !.endpoints = endpoint_add(mgr.endpoints, e)]
          /\ bound' = Append(bound, e)
    BY <1>10 DEF Bind
  <2> DEFINE e == [val |-> v, soft |-> soft, func |-> f, node |-> n]
             t == endpoint_add(mgr.endpoints, e)
  <2>2. e \in Endpoints
    BY DEF Endpoints
  <2>3. mgr.endpoints \in Seq(Endpoints)
    BY DEF Managers
  <2>4. t \in Seq(Endpoints)
    BY <2>2, <2>3, Linked
  <2>5. mgr' = [mgr EXCEPT !.endpoints = t] /\ bound' = Append(bound, e)
    BY <2>1
  <2> HIDE DEF e, t
  <2>6. mgr' \in Managers
    BY <2>4, <2>5 DEF Managers
  <2>7. bound' \in Seq(Endpoints)
    BY <2>2, <2>5
  <2> QED
    BY <1>10, <2>1, <2>6, <2>7 DEF Bind
<1>11. CASE BindFails
  <2>1. mgr' \in Managers
    BY <1>11, NoEndpoints DEF BindFails, Managers
  <2>2. EndpointNodes \subseteq Nodes
    <3>1. mgr.endpoints \in Seq(Endpoints)
      BY DEF Managers
    <3> QED
      BY <3>1, NodesOfEndpoints DEF EndpointNodes, NodesOf
  <2> QED
    BY <1>11, <2>1, <2>2 DEF BindFails
<1>12. CASE BindDies
  BY <1>12 DEF BindDies
<1>13. CASE Finish
  BY <1>13 DEF Finish
<1>14. CASE FinishDies
  BY <1>14 DEF FinishDies
<1>15. CASE UNCHANGED vars
  BY <1>15 DEF vars
<1> QED
  BY <1>1, <1>2, <1>3, <1>4, <1>5, <1>6, <1>7, <1>8, <1>9, <1>10, <1>11,
     <1>12, <1>13, <1>14, <1>15 DEF Next

-----------------------------------------------------------------------------
\* Descriptors and blocks: none of a finished manager, and of another those
\* its fields lead to.
Owned ==
  /\ stage = "none" => open = {} /\ heap = lost /\ queue = NULL
  /\ stage \notin {"none", "dead"} =>
       /\ open = {mgr.fd, mgr.epoll_fd} \ {NULL}
       /\ heap \cap Nodes = EndpointNodes \cup lost
       /\ EndpointNodes \cap lost = {}
       /\ Distinct(mgr.endpoints)

\* What a call that succeeded has set, and a call that failed may not have.
PoolIsSet == mgr.conn_pool = "pool" /\ mgr.max_conn_count \in Nat
Fatal == {"epoll_create", "epoll_ctl", "events", "pool"}
FieldsSet ==
  /\ stage \in {"created", "polling", "pooled", "serving"} =>
       stage = "created" \/ mgr.events \in Nat
  /\ stage \in {"polling", "pooled", "serving"} /\ "late" \notin happened =>
       mgr.max_events = mgr.events
  /\ stage \in {"pooled", "serving"} => PoolIsSet
  /\ stage = "failed" =>
       happened \cap Fatal # {} \/ (mgr.events \in Nat /\ PoolIsSet)

\* The list is the bindings since the last that failed, newest first.
Recent ==
  /\ Len(mgr.endpoints) <= Len(bound)
  /\ \A i \in 1 .. Len(mgr.endpoints) :
       mgr.endpoints[i] = bound[Len(bound) + 1 - i]
  /\ \A i \in 1 .. Len(bound) - Len(mgr.endpoints) : bound[i].node \in lost

Inv == TypeOK /\ Owned /\ FieldsSet /\ Survives /\ Recent

LEMMA MgrType ==
  ASSUME TypeOK
  PROVE  /\ mgr.fd \in {"listener", NULL} /\ mgr.epoll_fd \in {"epoll", NULL}
         /\ mgr.max_events \in Nat /\ mgr.endpoints \in Seq(Endpoints)
         /\ bound \in Seq(Endpoints)
BY LifecycleAssumption DEF TypeOK, Managers

LEMMA InitInv == Init => Inv
BY InitType, NoEndpoints
   DEF Init, Inv, Owned, FieldsSet, Survives, Recent, NewManager

\* The steps that leave the list of endpoints alone.
LEMMA RestOfRecent ==
  ASSUME Recent, mgr'.endpoints = mgr.endpoints, UNCHANGED <<bound, lost>>
  PROVE  /\ Recent' /\ EndpointNodes' = EndpointNodes
         /\ Distinct(mgr'.endpoints) = Distinct(mgr.endpoints)
BY DEF Recent, EndpointNodes

LEMMA StepSetUp ==
  ASSUME Inv,
         Set \/ EpollInit \/ EpollInitFails \/ PoolInit \/ PoolInitFails
         \/ Listen \/ ListenFails
  PROVE  Owned' /\ FieldsSet' /\ Survives' /\ Recent'
<1> USE LifecycleAssumption, MgrType DEF Inv
<1>1. mgr'.endpoints = mgr.endpoints /\ UNCHANGED <<bound, lost>>
  BY DEF TypeOK, Managers, Set, EpollInit, EpollInitFails, PoolInit, PoolInitFails, Listen, ListenFails
<1>2. Recent' /\ EndpointNodes' = EndpointNodes
      /\ Distinct(mgr'.endpoints) = Distinct(mgr.endpoints)
  BY <1>1, RestOfRecent
<1>3. stage' \notin {"none", "dead"} /\ stage \notin {"none", "dead"}
  BY DEF Set, Alive, EpollInit, EpollInitFails, PoolInit, PoolInitFails, Listen, ListenFails, Fails
<1>4. /\ open' = {mgr'.fd, mgr'.epoll_fd} \ {NULL}
      /\ heap' \cap Nodes = heap \cap Nodes
  <2>1. CASE Set
    BY <1>3, <2>1 DEF Set, Owned, TypeOK, Managers
  <2>2. CASE EpollInit
    BY <1>3, <2>2 DEF EpollInit, Owned, TypeOK, Managers
  <2>3. CASE EpollInitFails
    <3>1. open = {mgr.fd, mgr.epoll_fd} \ {NULL}
      BY <1>3 DEF Owned
    <3>2. heap' = heap
      BY <2>3 DEF EpollInitFails
    <3>3. \/ UNCHANGED <<mgr, open>>
          \/ /\ mgr'.fd = mgr.fd /\ mgr'.epoll_fd = "epoll"
             /\ open' = open \cup {"epoll"}
      BY <2>3 DEF EpollInitFails, TypeOK, Managers
    <3> QED
      BY <3>1, <3>2, <3>3
  <2>4. CASE PoolInit
    BY <1>3, <2>4 DEF PoolInit, Owned, TypeOK, Managers
  <2>5. CASE PoolInitFails
    BY <1>3, <2>5 DEF PoolInitFails, Owned, TypeOK, Managers
  <2>6. CASE Listen \/ ListenFails
    BY <1>3, <2>6 DEF Listen, ListenFails, Owned
  <2> QED
    BY <2>1, <2>2, <2>3, <2>4, <2>5, <2>6
<1>5. Owned'
  BY <1>1, <1>2, <1>3, <1>4 DEF Owned
<1>6. Survives'
  BY <1>3 DEF Survives
<1>7. FieldsSet'
  <2> USE DEF FieldsSet, PoolIsSet, Fatal, Fails, Happens, TypeOK, Managers
  <2>1. CASE Set
    BY <2>1 DEF Set, Alive
  <2>2. CASE EpollInit
    BY <2>2 DEF EpollInit
  <2>3. CASE EpollInitFails
    BY <2>3 DEF EpollInitFails
  <2>4. CASE PoolInit
    BY <2>4 DEF PoolInit
  <2>5. CASE PoolInitFails
    BY <2>5 DEF PoolInitFails
  <2>6. CASE Listen \/ ListenFails
    BY <2>6 DEF Listen, ListenFails
  <2> QED
    BY <2>1, <2>2, <2>3, <2>4, <2>5, <2>6
<1> QED
  BY <1>2, <1>5, <1>6, <1>7

LEMMA StepCreate ==
  ASSUME Inv, Create \/ CreateFails
  PROVE  Owned' /\ FieldsSet' /\ Survives' /\ Recent'
<1> USE LifecycleAssumption DEF Inv
<1>1. CASE Create
  <2>1. /\ stage = "none" /\ stage' = "created" /\ mgr' = NewManager
        /\ bound' = <<>> /\ heap' = heap \cup {"mgr"}
        /\ open' = open \cup {"listener"} /\ lost' = lost
    BY <1>1 DEF Create
  <2>2. /\ mgr'.fd = "listener" /\ mgr'.epoll_fd = NULL
        /\ mgr'.endpoints = <<>>
    BY <2>1 DEF NewManager
  <2>3. EndpointNodes' = {} /\ Distinct(mgr'.endpoints)
    BY <2>2, NoEndpoints DEF EndpointNodes, NodesOf
  <2>4. lost \subseteq Nodes /\ "mgr" \notin Nodes
    BY DEF TypeOK
  <2>5. Owned'
    BY <2>1, <2>2, <2>3, <2>4 DEF Owned
  <2>6. Recent'
    BY <2>1, <2>2, NoEndpoints DEF Recent
  <2> QED
    BY <2>1, <2>5, <2>6 DEF FieldsSet, Survives
<1>2. CASE CreateFails
  <2>1. stage' = "none" /\ stage = "none" /\ UNCHANGED <<mgr, open, queue, heap, bound, lost>>
    BY <1>2 DEF CreateFails
  <2>2. Recent'
    BY <2>1 DEF Recent
  <2> QED
    BY <2>1, <2>2 DEF Owned, FieldsSet, Survives
<1> QED
  BY <1>1, <1>2

LEMMA StepBind ==
  ASSUME Inv, NEW soft \in BOOLEAN, Bind(soft)
  PROVE  Owned' /\ FieldsSet' /\ Survives' /\ Recent'
<1> USE DEF Inv
<1>1. PICK v \in Names, f \in Handlers, n \in Nodes \ heap :
        LET e == [val |-> v, soft |-> soft, func |-> f, node |-> n] IN
        /\ heap' = heap \cup {n}
        /\ mgr' = [mgr EXCEPT !.endpoints = endpoint_add(mgr.endpoints, e)]
        /\ bound' = Append(bound, e)
  BY DEF Bind
<1> DEFINE e == [val |-> v, soft |-> soft, func |-> f, node |-> n]
           list == mgr.endpoints
           t == endpoint_add(list, e)
<1>2. e \in Endpoints /\ e.node = n
  BY DEF Endpoints
<1>3. list \in Seq(Endpoints) /\ bound \in Seq(Endpoints)
  BY MgrType
<1>4. heap' = heap \cup {n} /\ mgr' = [mgr EXCEPT !.endpoints = t] /\ bound' = Append(bound, e)
  BY <1>1
<1>5. /\ stage' = stage /\ stage \notin {"none", "failed", "dead"}
      /\ UNCHANGED <<open, happened, lost>>
  BY DEF Bind, Alive
<1>6. /\ t \in Seq(Endpoints) /\ Len(t) = Len(list) + 1 /\ t[1] = e
      /\ \A i \in 2 .. Len(list) + 1 : i - 1 \in 1 .. Len(list) /\ t[i] = list[i - 1]
      /\ NodesOf(t) = {n} \cup NodesOf(list)
      /\ n \notin NodesOf(list) /\ Distinct(list) => Distinct(t)
  BY <1>2, <1>3, Linked
<1> HIDE DEF e, t
<1>7. /\ mgr'.endpoints = t /\ mgr'.fd = mgr.fd /\ mgr'.epoll_fd = mgr.epoll_fd
      /\ mgr'.events = mgr.events /\ mgr'.max_events = mgr.max_events
      /\ mgr'.conn_pool = mgr.conn_pool /\ mgr'.max_conn_count = mgr.max_conn_count
  BY <1>4 DEF TypeOK, Managers
<1>8. EndpointNodes = NodesOf(list) /\ EndpointNodes' = NodesOf(t)
  BY <1>7 DEF EndpointNodes, NodesOf
<1>9. Owned'
  <2>1. n \notin NodesOf(list) /\ n \notin lost
    BY <1>1, <1>5, <1>8 DEF Owned
  <2> QED
    BY <1>4, <1>5, <1>6, <1>7, <1>8, <2>1 DEF Owned
<1>10. FieldsSet'
  BY <1>5, <1>7 DEF FieldsSet, PoolIsSet
<1>11. Survives'
  BY <1>5 DEF Survives
<1>12. Recent'
  <2>1. /\ Len(bound') = Len(bound) + 1 /\ bound'[Len(bound) + 1] = e
        /\ \A i \in 1 .. Len(bound) : bound'[i] = bound[i]
        /\ Len(bound) \in Nat /\ Len(list) \in Nat
    BY <1>2, <1>3, <1>4
  <2>2. Len(t) <= Len(bound')
    BY <1>6, <2>1 DEF Recent
  <2>3. ASSUME NEW i \in 1 .. Len(t) PROVE t[i] = bound'[Len(bound') + 1 - i]
    <3>1. CASE i = 1
      BY <3>1, <1>6, <2>1
    <3>2. CASE i # 1
      <4>1. i \in 2 .. Len(list) + 1
        BY <3>2, <1>6, <2>1
      <4>2. i - 1 \in 1 .. Len(list) /\ t[i] = list[i - 1]
        BY <4>1, <1>6
      <4>3. list[i - 1] = bound[Len(bound) + 1 - (i - 1)]
        BY <4>2 DEF Recent
      <4>4. /\ Len(bound) + 1 - (i - 1) \in 1 .. Len(bound)
            /\ Len(bound) + 1 - (i - 1) = Len(bound') + 1 - i
        BY <4>1, <2>1 DEF Recent
      <4> QED
        BY <4>2, <4>3, <4>4, <2>1
    <3> QED
      BY <3>1, <3>2
  <2>4. ASSUME NEW i \in 1 .. Len(bound') - Len(t) PROVE bound'[i].node \in lost'
    <3>0. Len(bound') - Len(t) = Len(bound) - Len(list)
      BY <1>6, <2>1
    <3>1. i \in 1 .. Len(bound) - Len(list)
      BY <3>0
    <3>2. i \in 1 .. Len(bound)
      BY <3>1, <2>1
    <3> QED
      BY <3>1, <3>2, <2>1, <1>5 DEF Recent
  <2> QED
    BY <1>7, <2>2, <2>3, <2>4 DEF Recent
<1> QED
  BY <1>9, <1>10, <1>11, <1>12

LEMMA StepBindFails ==
  ASSUME Inv, BindFails
  PROVE  Owned' /\ FieldsSet' /\ Survives' /\ Recent'
<1> USE DEF Inv
<1>1. /\ stage' = stage /\ stage \notin {"none", "failed", "dead"}
      /\ lost' = lost \cup EndpointNodes
      /\ UNCHANGED <<open, heap, bound>>
      /\ happened' = happened \cup {"endpoint"}
  BY DEF BindFails, Alive, Happens
<1>2. /\ mgr'.endpoints = <<>> /\ mgr'.fd = mgr.fd /\ mgr'.epoll_fd = mgr.epoll_fd
      /\ mgr'.events = mgr.events /\ mgr'.max_events = mgr.max_events
      /\ mgr'.conn_pool = mgr.conn_pool /\ mgr'.max_conn_count = mgr.max_conn_count
  BY DEF BindFails, TypeOK, Managers
<1>3. EndpointNodes' = {} /\ Distinct(mgr'.endpoints)
  BY <1>2, NoEndpoints DEF EndpointNodes, NodesOf
<1>4. Owned'
  BY <1>1, <1>2, <1>3 DEF Owned
<1>5. FieldsSet'
  BY <1>1, <1>2 DEF FieldsSet, PoolIsSet
<1>6. Survives'
  BY <1>1 DEF Survives
<1>7. Recent'
  <2>0. Len(bound) \in Nat /\ Len(mgr.endpoints) \in Nat
    BY MgrType
  <2>1. ASSUME NEW i \in 1 .. Len(bound) PROVE bound[i].node \in lost'
    <3>1. CASE i <= Len(bound) - Len(mgr.endpoints)
      BY <1>1, <2>0, <3>1 DEF Recent
    <3>2. CASE ~(i <= Len(bound) - Len(mgr.endpoints))
      <4> DEFINE k == Len(bound) + 1 - i
      <4>1. k \in 1 .. Len(mgr.endpoints) /\ Len(bound) + 1 - k = i
        BY <2>0, <3>2
      <4>2. mgr.endpoints[k] = bound[i]
        BY <4>1 DEF Recent
      <4> QED
        BY <1>1, <4>1, <4>2 DEF EndpointNodes
    <3> QED
      BY <3>1, <3>2
  <2> QED
    BY <1>1, <1>2, <2>0, <2>1, NoEndpoints DEF Recent
<1> QED
  BY <1>4, <1>5, <1>6, <1>7

LEMMA StepFinish ==
  ASSUME Inv, BindDies \/ Finish \/ FinishDies
  PROVE  Owned' /\ FieldsSet' /\ Survives' /\ Recent'
<1> USE LifecycleAssumption DEF Inv
<1>1. Recent'
  BY DEF Recent, BindDies, Finish, FinishDies
<1>2. CASE BindDies
  BY <1>1, <1>2 DEF BindDies, Happens, Owned, FieldsSet, Survives
<1>3. CASE Finish
  <2>1. /\ stage \notin {"none", "dead"} /\ stage' = "none" /\ queue' = NULL
        /\ open' = open \ {mgr.fd, mgr.epoll_fd} /\ lost' = lost
        /\ heap' = heap \ ({"mgr", "events", "pool"} \cup EndpointNodes)
    BY <1>3 DEF Finish
  <2>2. heap' = lost /\ open' = {}
    BY <2>1 DEF Owned, TypeOK
  <2> QED
    BY <1>1, <2>1, <2>2 DEF Owned, FieldsSet, Survives
<1>4. CASE FinishDies
  <2>1. /\ stage \in {"serving", "failed"} /\ stage' = "dead"
        /\ happened' = happened
        /\ ReadsUnset \/ WalksNull
    BY <1>4 DEF FinishDies
  <2>2. happened \cap Fatal # {}
    <3>1. ASSUME mgr.events \in Nat, PoolIsSet PROVE FALSE
      <4>1. ~WalksNull
        BY <3>1 DEF PoolIsSet, WalksNull
      <4>2. ~ReadsUnset
        BY <3>1 DEF PoolIsSet, ReadsUnset
      <4> QED
        BY <2>1, <4>1, <4>2
    <3> QED
      BY <2>1, <3>1 DEF FieldsSet
  <2>3. Survives'
    <3>1. PICK x \in Fatal : x \in happened
      BY <2>2
    <3> QED
      BY <2>1, <3>1 DEF Survives, Fatal
  <2> QED
    BY <1>1, <2>1, <2>3 DEF Owned, FieldsSet
<1> QED
  BY <1>2, <1>3, <1>4

LEMMA StepInv == Inv /\ [Next]_vars => Inv'
<1> SUFFICES ASSUME Inv, [Next]_vars PROVE Inv'
  OBVIOUS
<1>1. TypeOK'
  BY StepType DEF Inv
<1>2. CASE UNCHANGED vars
  BY <1>1, <1>2
     DEF vars, Inv, Owned, FieldsSet, PoolIsSet, Survives, Recent, EndpointNodes
<1>3. CASE Next
  BY <1>1, <1>3, StepSetUp, StepCreate, StepBind, StepBindFails, StepFinish
     DEF Next, Inv
<1> QED
  BY <1>2, <1>3

LEMMA Invariance == Spec => []Inv
BY InitInv, StepInv, PTL DEF Spec

-----------------------------------------------------------------------------
\* sc_conn_mgr, the descriptors and the heap keep their types through every
\* order of set-up, failure and clean-up.
THEOREM TypeCorrect == Spec => []TypeOK
BY Invariance, PTL DEF Inv

\* Whatever failed, and however many endpoints there were, sc_mgr_finish
\* leaves no descriptor open and no block allocated but those a failed
\* binding has unlinked.
THEOREM LeavesNothing == Spec => []NothingLeft
<1>1. Inv => NothingLeft
  BY DEF Inv, Owned, NothingLeft
<1> QED
  BY <1>1, Invariance, PTL

\* Only a failed sc_mgr_epoll_init, sc_mgr_conn_pool_init or binding lets
\* sc_mgr_finish or sc_mgr_bind_soft end the process.
THEOREM DiesOnlyOfThose == Spec => []Survives
BY Invariance, PTL DEF Inv

\* epoll_wait has room for max_events, unless that was set too late.
THEOREM RoomForEvents == Spec => []EventsFit
<1>1. Inv => EventsFit
  <2> SUFFICES ASSUME Inv, stage = "serving", "late" \notin happened
               PROVE  mgr.events \in Nat /\ mgr.max_events <= mgr.events
    BY DEF EventsFit
  <2> QED
    BY DEF Inv, FieldsSet
<1> QED
  BY <1>1, Invariance, PTL

\* The list of endpoints owns each block allocated for it exactly once.
THEOREM OwnsItsBlocks == Spec => []ListOwnsBlocks
<1>1. Inv => ListOwnsBlocks
  <2> SUFFICES ASSUME Inv, stage \notin {"none", "dead"}
               PROVE  /\ EndpointNodes = (heap \cap Nodes) \ lost
                      /\ Distinct(mgr.endpoints)
    BY DEF ListOwnsBlocks, Alive, Distinct
  <2> QED
    BY DEF Inv, Owned
<1> QED
  BY <1>1, Invariance, PTL

\* The lookup of sc_mgr_poll finds the newest binding for a URI, for lists of
\* any length and any overlap of texts; after a failed binding, the newest of
\* those made since, or none.
THEOREM NewestIsFound == Spec => []NewestWins
<1>1. Inv => NewestWins
  <2> SUFFICES ASSUME Inv, NEW u \in Uris
               PROVE  LET f == Route(mgr.endpoints, u) IN
                      \/ NewestFor(bound, u, f)
                      \/ /\ f = NULL
                         /\ \A i \in 1 .. Len(bound) :
                              For(bound[i], u) => bound[i].node \in lost
    BY DEF NewestWins
  <2> DEFINE list == mgr.endpoints
             hits == Hits(list, u)
             n == Len(bound)
  <2>1. /\ list \in Seq(Endpoints) /\ bound \in Seq(Endpoints)
        /\ n \in Nat /\ Len(list) \in Nat /\ Len(list) <= n
    BY MgrType DEF Inv, Recent
  <2>2. \A i \in 1 .. Len(list) : n + 1 - i \in 1 .. n /\ list[i] = bound[n + 1 - i]
    BY <2>1 DEF Inv, Recent
  <2>3. \A i \in 1 .. n - Len(list) : bound[i].node \in lost
    BY DEF Inv, Recent
  <2>4. \A i \in 1 .. Len(list) : i \in hits <=> For(list[i], u)
    BY <2>1, MatchesWhatItIsFor DEF Hits
  <2>5. hits \subseteq 1 .. Len(list)
    BY DEF Hits
  <2>6. \A j \in 1 .. n : j > n - Len(list) =>
          /\ n + 1 - j \in 1 .. Len(list)
          /\ list[n + 1 - j] = bound[j]
    <3> SUFFICES ASSUME NEW j \in 1 .. n, j > n - Len(list)
                 PROVE  n + 1 - j \in 1 .. Len(list) /\ list[n + 1 - j] = bound[j]
      OBVIOUS
    <3>1. n + 1 - j \in 1 .. Len(list) /\ n + 1 - (n + 1 - j) = j
      BY <2>1
    <3> QED
      BY <3>1, <2>2
  <2>7. Route(list, u) = IF hits = {} THEN NULL ELSE list[First(hits)].func
    BY DEF Route
  <2> HIDE DEF list, hits, n
  <2>8. CASE hits = {}
    <3>1. ASSUME NEW i \in 1 .. n, For(bound[i], u) PROVE bound[i].node \in lost
      <4>1. ~(i > n - Len(list))
        BY <2>4, <2>6, <2>8, <3>1
      <4> QED
        BY <2>1, <2>3, <4>1
    <3> QED
      BY <2>7, <2>8, <3>1 DEF list, n
  <2>9. CASE hits # {}
    <3> DEFINE h == First(hits)
               i == n + 1 - h
    <3>1. h \in hits /\ \A k \in hits : h <= k
      <4>1. hits \subseteq Nat
        BY <2>1, <2>5
      <4> QED
        BY <2>9, <4>1, FirstIsLeast
    <3>2. h \in 1 .. Len(list) /\ For(list[h], u) /\ list[h] = bound[i] /\ i \in 1 .. n
      BY <2>2, <2>4, <2>5, <3>1
    <3>3. ASSUME NEW j \in 1 .. n, For(bound[j], u) PROVE j <= i
      <4>1. CASE j > n - Len(list)
        <5>1. n + 1 - j \in hits
          BY <2>4, <2>6, <3>3, <4>1
        <5>2. h <= n + 1 - j
          BY <3>1, <5>1
        <5> QED
          BY <2>1, <3>2, <5>2
      <4>2. CASE ~(j > n - Len(list))
        BY <2>1, <3>2, <4>2
      <4> QED
        BY <4>1, <4>2
    <3>4. Route(list, u) = bound[i].func
      BY <2>7, <2>9, <3>2
    <3> HIDE DEF h, i
    <3>5. NewestFor(bound, u, Route(list, u))
      BY <3>2, <3>3, <3>4 DEF NewestFor, n
    <3> QED
      BY <3>5 DEF list
  <2> QED
    BY <2>8, <2>9
<1> QED
  BY <1>1, Invariance, PTL
=============================================================================
