---------------------------- MODULE ServerProofs ----------------------------
(***************************************************************************)
(* What holds of the event loop in every environment, resets, split        *)
(* requests and failing system calls included, for any number of clients,  *)
(* slots, descriptors and events: the types, and that get_free never pops  *)
(* NULL.                                                                   *)
(***************************************************************************)
EXTENDS Server, ConnPoolLemmas, SequenceTheorems, WellFoundedInduction

Alive == {"up", "fin", "rst"}

\* The kernel's objects fit together: a descriptor belongs to one client and
\* a client in the queue to none, both kinds of client have a connection,
\* and what epoll watches is open and was registered with a slot.
Wiring ==
  /\ backlog \in Seq(Clients)
  /\ sock \in [Fds -> Clients \cup {NULL}]
  /\ reg \in [Fds -> Slots \cup {NULL}]
  /\ armed \in SUBSET Fds
  /\ peer \in [Clients -> {"new", "up", "fin", "rst", "off"}]
  /\ inbox \in [Clients -> Bytes]
  /\ \A f \in Fds : sock[f] # NULL => peer[sock[f]] \in Alive
  /\ \A f \in armed : sock[f] # NULL /\ reg[f] \in Slots
  /\ \A f, g \in Fds : sock[f] = sock[g] /\ sock[f] # NULL => f = g
  /\ \A i \in 1 .. Len(backlog) : peer[backlog[i]] \in Alive
  /\ \A i, j \in 1 .. Len(backlog) : backlog[i] = backlog[j] => i = j
  /\ \A i \in 1 .. Len(backlog) : \A f \in Fds : sock[f] # backlog[i]

\* An event for a connection carries the pointer of a slot.
Batching ==
  /\ batch \in Seq(Events)
  /\ \A i \in 1 .. Len(batch) : batch[i].fd # ListenFd => batch[i].ptr \in Slots

\* The program's own variables, and the answers.
Programming ==
  /\ pc \in {"app", "cleanup", "wait", "events", "finished", "dead"}
  /\ scan \in Slots
  /\ exit_flag \in BOOLEAN
  /\ answer \in [Clients -> {"none", "reply", "500", "503"}]

Pooling == pool \in Pools /\ PoolShape(pool)

Inv == Wiring /\ Batching /\ Programming /\ Pooling

-----------------------------------------------------------------------------
(* The parts of a step.                                                    *)

\* close and EPOLL_CTL_DEL of descriptors keep the kernel's objects in order.
LEMMA CloseWiring ==
  ASSUME Wiring, NEW S, Close(S), UNCHANGED backlog
  PROVE  Wiring'
<1>1. /\ peer' \in [Clients -> {"new", "up", "fin", "rst", "off"}]
      /\ inbox' \in [Clients -> Bytes]
  BY SMT DEF Wiring, Close, EndPeers, Bytes
<1>2. /\ sock' \in [Fds -> Clients \cup {NULL}]
      /\ reg' \in [Fds -> Slots \cup {NULL}]
      /\ armed' \in SUBSET Fds
      /\ backlog' \in Seq(Clients)
  BY DEF Wiring, Close
<1>3. \A f \in Fds : sock'[f] # NULL => sock'[f] = sock[f] /\ f \notin S
  BY DEF Close
<1>4. ASSUME NEW f \in Fds, sock'[f] # NULL
      PROVE  peer'[sock'[f]] \in Alive
  <2>1. sock'[f] = sock[f] /\ sock[f] \in Clients /\ f \notin S
    BY <1>3, <1>4 DEF Wiring
  <2>2. sock[f] \notin ClientsOf(S)
    BY <1>4, <2>1 DEF ClientsOf, Wiring
  <2> QED
    BY <1>4, <2>1, <2>2 DEF Wiring, Close, EndPeers
<1>5. \A f \in armed' : sock'[f] # NULL /\ reg'[f] \in Slots
  BY DEF Wiring, Close
<1>6. \A f, g \in Fds : sock'[f] = sock'[g] /\ sock'[f] # NULL => f = g
  BY <1>3 DEF Wiring
<1>7. ASSUME NEW i \in 1 .. Len(backlog)
      PROVE  /\ peer'[backlog[i]] \in Alive
             /\ \A f \in Fds : sock'[f] # backlog[i]
  <2>1. backlog[i] \in Clients
    BY SMT DEF Wiring
  <2>2. backlog[i] # NULL
    BY <2>1, ServerAssumption
  <2>3. backlog[i] \notin ClientsOf(S)
    BY DEF Wiring, ClientsOf
  <2> QED
    BY <1>3, <2>1, <2>2, <2>3 DEF Wiring, Close, EndPeers
<1>8. \A i, j \in 1 .. Len(backlog) : backlog[i] = backlog[j] => i = j
  BY DEF Wiring
<1> QED
  BY <1>1, <1>2, <1>4, <1>5, <1>6, <1>7, <1>8 DEF Wiring

\* sc_mgr_finish, and the end of the process, do too.
LEMMA CloseDownWiring ==
  ASSUME Wiring, NEW S, CloseDown(S)
  PROVE  Wiring'
<1> DEFINE C == ClientsOf(S) \cup {c \in Clients : InQueue(c)}
<1>1. /\ peer' \in [Clients -> {"new", "up", "fin", "rst", "off"}]
      /\ inbox' \in [Clients -> Bytes]
  BY SMT DEF Wiring, CloseDown, EndPeers, Bytes
<1>2. /\ sock' \in [Fds -> Clients \cup {NULL}]
      /\ reg' \in [Fds -> Slots \cup {NULL}]
      /\ armed' = {}
      /\ backlog' = <<>>
  BY DEF Wiring, CloseDown
<1>3. \A f \in Fds : sock'[f] # NULL => sock'[f] = sock[f] /\ f \notin S
  BY DEF CloseDown
<1>4. ASSUME NEW f \in Fds, sock'[f] # NULL
      PROVE  peer'[sock'[f]] \in Alive
  <2>1. sock'[f] = sock[f] /\ sock[f] \in Clients /\ f \notin S
    BY <1>3, <1>4 DEF Wiring
  <2>2. sock[f] \notin C
    BY <1>4, <2>1 DEF ClientsOf, Wiring, InQueue
  <2>3. peer'[sock[f]] = peer[sock[f]]
    BY <2>1, <2>2 DEF CloseDown, EndPeers
  <2> QED
    BY <1>4, <2>1, <2>3 DEF Wiring
<1>5. \A f, g \in Fds : sock'[f] = sock'[g] /\ sock'[f] # NULL => f = g
  BY <1>3 DEF Wiring
<1>6. backlog' \in Seq(Clients) /\ \A i \in 1 .. Len(backlog') : FALSE
  BY <1>2, SMT
<1> QED
  BY <1>1, <1>2, <1>4, <1>5, <1>6 DEF Wiring

\* The connection at the head of the queue ends.
LEMMA DropHeadWiring ==
  ASSUME Wiring, backlog # <<>>, DropHead
  PROVE  Wiring'
<1>1. /\ Head(backlog) \in Clients /\ Head(backlog) = backlog[1]
      /\ 1 \in 1 .. Len(backlog)
      /\ Tail(backlog) \in Seq(Clients)
      /\ \A i \in 1 .. Len(Tail(backlog)) :
           i + 1 \in 1 .. Len(backlog) /\ i # 0 /\ Tail(backlog)[i] = backlog[i + 1]
  BY SMT DEF Wiring
<1>2. /\ peer' \in [Clients -> {"new", "up", "fin", "rst", "off"}]
      /\ inbox' \in [Clients -> Bytes]
      /\ backlog' = Tail(backlog) /\ UNCHANGED <<sock, reg, armed>>
      /\ \A c \in Clients : c # Head(backlog) => peer'[c] = peer[c]
  BY SMT DEF Wiring, DropHead, EndPeers, Bytes
<1>3. ASSUME NEW f \in Fds, sock[f] # NULL
      PROVE  peer'[sock[f]] \in Alive
  BY <1>1, <1>2, <1>3 DEF Wiring
<1>4. ASSUME NEW i \in 1 .. Len(backlog')
      PROVE  /\ peer'[backlog'[i]] \in Alive
             /\ \A f \in Fds : sock'[f] # backlog'[i]
  <2>1. i + 1 \in 1 .. Len(backlog) /\ backlog'[i] = backlog[i + 1] /\ i + 1 # 1
    BY <1>1, <1>2, SMT
  <2>2. backlog[i + 1] # backlog[1] /\ backlog[i + 1] \in Clients
    BY <1>1, <2>1, SMT DEF Wiring
  <2> QED
    BY <1>1, <1>2, <2>1, <2>2 DEF Wiring
<1>5. ASSUME NEW i \in 1 .. Len(backlog'), NEW j \in 1 .. Len(backlog'),
             backlog'[i] = backlog'[j]
      PROVE  i = j
  <2>1. i + 1 = j + 1
    BY <1>1, <1>2, <1>5 DEF Wiring
  <2> QED
    BY <2>1, SMT
<1> QED
  BY <1>1, <1>2, <1>3, <1>4, <1>5 DEF Wiring

\* send answers a client or nobody.
LEMMA SendToAnswer ==
  ASSUME Programming, NEW f, NEW a \in {"none", "reply", "500", "503"},
         SendTo(f, a)
  PROVE  answer' \in [Clients -> {"none", "reply", "500", "503"}]
  BY SMT DEF Programming, SendTo

\* The next event of the batch is an event like the ones before.
LEMMA NextEventBatching ==
  ASSUME Batching, HasEvent, batch' = Tail(batch)
  PROVE  Batching'
<1>1. batch \in Seq(Events) /\ batch # <<>>
  BY DEF Batching, HasEvent
<1>2. /\ Tail(batch) \in Seq(Events)
      /\ \A i \in 1 .. Len(Tail(batch)) :
           i + 1 \in 1 .. Len(batch) /\ Tail(batch)[i] = batch[i + 1]
  BY <1>1, SMT
<1> QED
  BY <1>2 DEF Batching

\* The event at the head: for the listening socket, or with a slot.
LEMMA HeadEvent ==
  ASSUME Batching, HasEvent, Head(batch).fd # ListenFd
  PROVE  Conn \in Slots
<1>1. Head(batch) = batch[1] /\ 1 \in 1 .. Len(batch)
  BY SMT DEF Batching, HasEvent
<1> QED
  BY <1>1 DEF Batching, Conn

\* accept takes a descriptor that is not open.
LEMMA LowestFreeIsFree ==
  ASSUME FreeFds # {}
  PROVE  LowestFree \in FreeFds /\ LowestFree \in Int
<1>1. FreeFds \subseteq Nat
  BY ServerAssumption, SMT DEF FreeFds, Fds
<1>2. PICK f \in FreeFds : \A g \in FreeFds : ~ (<<g, f>> \in OpToRel(<, Nat))
  BY <1>1, NatLessThanWellFounded, WFMin
<1>3. \A g \in FreeFds : f <= g
  <2> SUFFICES ASSUME NEW g \in FreeFds PROVE f <= g
    OBVIOUS
  <2>1. <<g, f>> \in Nat \X Nat /\ <<g, f>>[1] = g /\ <<g, f>>[2] = f
    BY <1>1
  <2>2. ~ (g < f)
    BY <1>2, <2>1 DEF OpToRel
  <2> QED
    BY <1>1, <2>2, SMT
<1>4. LowestFree \in FreeFds
  BY <1>3 DEF LowestFree
<1> QED
  BY <1>1, <1>4, SMT

\* The pool after a pop ...
LEMMA Popped ==
  ASSUME Pooling, CanPop
  PROVE  /\ NewConn \in Slots
         /\ GetFree(pool) \in Pools /\ PoolShape(GetFree(pool))
<1>1. NewConn \in Slots
  BY ShapeHasSlot DEF Pooling, CanPop, NewConn
<1> QED
  BY <1>1, GetFreeType, GetFreeShape DEF Pooling, CanPop, NewConn

\* ... that sets the descriptor ...
LEMMA PoppedWithFd ==
  ASSUME Pooling, CanPop, NEW d \in Int
  PROVE  LET q == [GetFree(pool) EXCEPT !.fd[NewConn] = d]
         IN  q \in Pools /\ PoolShape(q)
<1> DEFINE q == [GetFree(pool) EXCEPT !.fd[NewConn] = d]
<1>1. q \in Pools
  BY Popped, FieldTypes
<1>2. /\ q.free_conns = GetFree(pool).free_conns
      /\ q.next = GetFree(pool).next
      /\ q.conn_count = GetFree(pool).conn_count
  BY Popped, SMT DEF Pools
<1> HIDE DEF q
<1>3. PoolShape(q)
  BY <1>2, Popped DEF PoolShape, FreeStackEnds, FreeStackLoops, IsFreeStack
<1> QED
  BY <1>1, <1>3 DEF q

\* ... and after a push.
LEMMA Pushed ==
  ASSUME NEW p \in Pools, PoolShape(p), NEW c \in Slots
  PROVE  Release(p, c) \in Pools /\ PoolShape(Release(p, c))
  BY ReleaseType, ReleaseShape

-----------------------------------------------------------------------------
(* The initial state.                                                      *)

LEMMA InitInv == Init => Inv
<1> SUFFICES ASSUME Init PROVE Inv
  OBVIOUS
<1>1. Wiring
  <2>1. backlog \in Seq(Clients) /\ \A i \in 1 .. Len(backlog) : FALSE
    BY SMT DEF Init
  <2> QED
    BY <2>1, SMT DEF Init, Wiring, Bytes
<1>2. Batching
  BY SMT DEF Init, Batching
<1>3. Programming
  <2>1. 0 \in Slots
    BY PoolAssumption, SMT DEF Slots
  <2>2. answer \in [Clients -> {"none", "reply", "500", "503"}]
    BY SMT DEF Init
  <2> QED
    BY <2>1, <2>2 DEF Init, Programming
<1>4. Pooling
  BY NewPoolType, NewPoolExact, ExactIsShape DEF Init, Pooling
<1> QED
  BY <1>1, <1>2, <1>3, <1>4 DEF Inv

-----------------------------------------------------------------------------
(* The environment.                                                        *)

LEMMA EnvironmentInv == Inv /\ Environment => Inv'
<1> SUFFICES ASSUME Inv, Environment PROVE Inv'
  OBVIOUS
<1> USE DEF Inv
<1>1. ASSUME NEW c \in Clients, Connect(c)
      PROVE  Inv'
  <2>1. Batching' /\ Programming' /\ Pooling'
    BY <1>1 DEF Connect, program, Batching, Programming, Pooling
  <2>2. /\ backlog' \in Seq(Clients)
        /\ Len(backlog') = Len(backlog) + 1
        /\ \A i \in 1 .. Len(backlog) : backlog'[i] = backlog[i]
        /\ backlog'[Len(backlog) + 1] = c
        /\ Len(backlog) \in Nat
    BY <1>1, SMT DEF Connect, Wiring
  <2>3. /\ peer' \in [Clients -> {"new", "up", "fin", "rst", "off"}]
        /\ peer'[c] = "up" /\ peer[c] \notin Alive
        /\ \A x \in Clients : x # c => peer'[x] = peer[x]
        /\ UNCHANGED <<sock, reg, armed, inbox>>
    BY <1>1, SMT DEF Connect, Wiring, Alive
  <2>4. \A i \in 1 .. Len(backlog) + 1 : i \in 1 .. Len(backlog) \/ i = Len(backlog) + 1
    BY <2>2, SMT
  <2>5. \A i \in 1 .. Len(backlog) : backlog[i] \in Clients /\ backlog[i] # c
    BY <2>3, SMT DEF Wiring
  <2>6. \A f \in Fds : sock[f] # c
    BY <2>3, ServerAssumption DEF Wiring
  <2>7. \A i \in 1 .. Len(backlog') : peer'[backlog'[i]] \in Alive
                                     /\ \A f \in Fds : sock'[f] # backlog'[i]
    BY <2>2, <2>3, <2>4, <2>5, <2>6 DEF Wiring, Alive
  <2>8. \A i, j \in 1 .. Len(backlog') : backlog'[i] = backlog'[j] => i = j
    BY <2>2, <2>4, <2>5 DEF Wiring
  <2>9. \A f \in Fds : sock'[f] # NULL => peer'[sock'[f]] \in Alive
    BY <2>3, <2>6 DEF Wiring
  <2> QED
    BY <2>1, <2>2, <2>3, <2>7, <2>8, <2>9 DEF Wiring
<1>2. ASSUME NEW c \in Clients, Send(c) \/ SendRest(c)
      PROVE  Inv'
  <2>1. inbox' \in [Clients -> Bytes]
    BY <1>2, SMT DEF Send, SendRest, Wiring, Requests, Bytes
  <2>2. answer' \in [Clients -> {"none", "reply", "500", "503"}]
    BY <1>2, SMT DEF Send, SendRest, Programming
  <2>3. UNCHANGED <<program, kernel, peer>>
    BY <1>2 DEF Send, SendRest
  <2> QED
    BY <2>1, <2>2, <2>3
    DEF program, kernel, Wiring, Batching, Programming, Pooling
<1>3. ASSUME NEW c \in Clients, HangUp(c) \/ Reset(c)
      PROVE  Inv'
  <2>1. /\ peer' \in [Clients -> {"new", "up", "fin", "rst", "off"}]
        /\ \A x \in Clients : peer[x] \in Alive => peer'[x] \in Alive
    BY <1>3, SMT DEF HangUp, Reset, Wiring, Alive
  <2>2. UNCHANGED <<program, kernel, inbox, answer>>
    BY <1>3 DEF HangUp, Reset
  <2>3. \A i \in 1 .. Len(backlog) : backlog[i] \in Clients
    BY SMT DEF Wiring
  <2> QED
    BY <2>1, <2>2, <2>3
    DEF program, kernel, Wiring, Batching, Programming, Pooling
<1>4. ASSUME NEW c \in Clients, Vanish(c)
      PROVE  Inv'
  <2>1. PICK k \in 1 .. Len(backlog) :
          /\ backlog[k] = c
          /\ backlog' = [j \in 1 .. Len(backlog) - 1 |->
                           backlog[IF j < k THEN j ELSE j + 1]]
    BY <1>4 DEF Vanish
  <2>2. Len(backlog) \in Nat /\ Len(backlog) - 1 \in Nat
    BY <2>1, SMT DEF Wiring
  <2> DEFINE from(j) == IF j < k THEN j ELSE j + 1
  <2>3. \A j \in 1 .. Len(backlog) - 1 :
          from(j) \in 1 .. Len(backlog) /\ from(j) # k /\ backlog'[j] = backlog[from(j)]
    BY <2>1, <2>2, SMT
  <2>4. \A i, j \in 1 .. Len(backlog) - 1 : from(i) = from(j) => i = j
    BY <2>1, <2>2, SMT
  <2>5. \A j \in 1 .. Len(backlog) : backlog[j] \in Clients
    BY SMT DEF Wiring
  <2>6. backlog' \in Seq(Clients) /\ Len(backlog') = Len(backlog) - 1
    <3>1. backlog' \in [1 .. Len(backlog) - 1 -> Clients]
      BY <2>1, <2>3, <2>5
    <3> QED
      BY <2>2, <3>1, SeqDef, SMT
  <2> HIDE DEF from
  <2>7. /\ peer' \in [Clients -> {"new", "up", "fin", "rst", "off"}]
        /\ inbox' \in [Clients -> Bytes]
        /\ \A x \in Clients : x # c => peer'[x] = peer[x]
        /\ UNCHANGED <<program, sock, reg, armed, answer>>
    BY <1>4, SMT DEF Vanish, Wiring, Bytes
  <2>8. \A j \in 1 .. Len(backlog') : peer'[backlog'[j]] \in Alive
                                     /\ \A f \in Fds : sock'[f] # backlog'[j]
    BY <2>1, <2>3, <2>5, <2>6, <2>7 DEF Wiring
  <2>9. \A i, j \in 1 .. Len(backlog') : backlog'[i] = backlog'[j] => i = j
    BY <2>3, <2>4, <2>6 DEF Wiring
  <2>10. \A f \in Fds : sock'[f] # NULL => peer'[sock'[f]] \in Alive
    BY <2>1, <2>7 DEF Wiring
  <2>11. Wiring'
    BY <2>6, <2>7, <2>8, <2>9, <2>10 DEF Wiring
  <2>12. Batching' /\ Programming' /\ Pooling'
    BY <2>7 DEF program, Batching, Programming, Pooling
  <2> QED
    BY <2>11, <2>12
<1>5. ASSUME Tick PROVE Inv'
  <2>1. pool' = PassTime(pool) /\ UNCHANGED <<pc, scan, batch, exit_flag, kernel, clients>>
    BY <1>5 DEF Tick
  <2>2. PassTime(pool) \in Pools
    BY PassTimeType DEF Pooling
  <2>3. PoolShape(PassTime(pool))
    BY PassTimeFields DEF Pooling, PoolShape, FreeStackEnds, FreeStackLoops, IsFreeStack
  <2> QED
    BY <2>1, <2>2, <2>3
    DEF kernel, clients, Wiring, Batching, Programming, Pooling
<1>6. ASSUME Signal PROVE Inv'
  BY <1>6 DEF Signal, kernel, clients, Wiring, Batching, Programming, Pooling
<1> QED
  BY <1>1, <1>2, <1>3, <1>4, <1>5, <1>6 DEF Environment

-----------------------------------------------------------------------------
(* The program.                                                            *)

\* The cleanup loop stays inside the array.
LEMMA NextScanSlots ==
  ASSUME Programming, pc = "cleanup", NextScan
  PROVE  scan' \in Slots /\ pc' \in {"cleanup", "wait"}
  BY PoolAssumption, SMT DEF Programming, NextScan, Slots

\* Whatever epoll_wait reports is an event of a descriptor that is watched.
LEMMA ReadyEvents ==
  ASSUME Wiring
  PROVE  \A e \in Ready : e \in Events /\ (e.fd # ListenFd => e.ptr \in Slots)
<1>1. ASSUME NEW f \in armed
      PROVE  LET e == [fd |-> f, ptr |-> reg[f], flag |-> Flag(sock[f])]
             IN  e \in Events /\ e.ptr \in Slots
  <2>1. f \in Fds /\ reg[f] \in Slots /\ sock[f] \in Clients /\ peer[sock[f]] \in Alive
    BY DEF Wiring
  <2>2. Flag(sock[f]) \in {"in", "hup", "err"}
    BY <2>1, SMT DEF Flag, Alive
  <2> QED
    BY <2>1, <2>2 DEF Events
<1>2. [fd |-> ListenFd, ptr |-> NULL, flag |-> "in"] \in Events
  BY DEF Events
<1> QED
  BY <1>1, <1>2 DEF Ready

\* epoll_wait and the scan of the pool.
LEMMA WaitInv ==
  Inv /\ (Poll \/ CleanupExpired \/ CleanupSkips \/ EpollWait
            \/ EpollInterrupted \/ PollReturns) => Inv'
<1> SUFFICES ASSUME Inv,
                    Poll \/ CleanupExpired \/ CleanupSkips \/ EpollWait
                      \/ EpollInterrupted \/ PollReturns
             PROVE  Inv'
  OBVIOUS
<1> USE DEF Inv
<1>1. CASE Poll
  <2>1. 0 \in Slots
    BY PoolAssumption, SMT DEF Slots
  <2> QED
    BY <1>1, <2>1
    DEF Poll, kernel, clients, Wiring, Batching, Programming, Pooling
<1>2. CASE CleanupExpired
  <2>1. Wiring'
    BY <1>2, CloseWiring DEF CleanupExpired
  <2>2. Programming'
    BY <1>2, NextScanSlots DEF CleanupExpired, Programming
  <2>3. Pooling'
    BY <1>2, Pushed DEF CleanupExpired, Pooling, Programming
  <2>4. Batching'
    BY <1>2 DEF CleanupExpired, Batching
  <2> QED
    BY <2>1, <2>2, <2>3, <2>4
<1>3. CASE CleanupSkips
  <2>1. Programming'
    BY <1>3, NextScanSlots DEF CleanupSkips, Programming, clients
  <2> QED
    BY <1>3, <2>1 DEF CleanupSkips, kernel, clients, Wiring, Batching, Pooling
<1>4. CASE EpollWait
  <2>1. PICK n \in 0 .. MaxEvents : \E b \in [1 .. n -> Ready] :
          batch' = b /\ armed' = armed \ {b[i].fd : i \in 1 .. n}
    BY <1>4 DEF EpollWait
  <2>2. PICK b \in [1 .. n -> Ready] :
          batch' = b /\ armed' = armed \ {b[i].fd : i \in 1 .. n}
    BY <2>1
  <2>3. \A i \in 1 .. n : b[i] \in Events /\ (b[i].fd # ListenFd => b[i].ptr \in Slots)
    BY ReadyEvents
  <2>4. b \in Seq(Events) /\ Len(b) = n
    <3>1. b \in [1 .. n -> Events] /\ n \in Nat
      BY <2>3, ServerAssumption, SMT
    <3> QED
      BY <3>1, SeqDef, SMT
  <2>5. Batching'
    BY <2>2, <2>3, <2>4 DEF Batching
  <2>6. Wiring'
    BY <1>4, <2>2 DEF EpollWait, Wiring, clients
  <2> QED
    BY <1>4, <2>5, <2>6 DEF EpollWait, Programming, Pooling, clients
<1>5. CASE EpollInterrupted
  BY <1>5
  DEF EpollInterrupted, kernel, clients, Wiring, Batching, Programming, Pooling
<1>6. CASE PollReturns
  BY <1>6
  DEF PollReturns, kernel, clients, Wiring, Batching, Programming, Pooling
<1> QED
  BY <1>1, <1>2, <1>3, <1>4, <1>5, <1>6

\* The steps of create_new_connection.
LEMMA AcceptInv ==
  Inv /\ (RefuseWith503 \/ RefuseNobody \/ AcceptOk \/ AcceptWouldBlock
            \/ AcceptFatal \/ AcceptSetupFails) => Inv'
<1> SUFFICES ASSUME Inv,
                    RefuseWith503 \/ RefuseNobody \/ AcceptOk
                      \/ AcceptWouldBlock \/ AcceptFatal \/ AcceptSetupFails
             PROVE  Inv'
  OBVIOUS
<1> USE DEF Inv
<1>1. CASE RefuseWith503
  <2>1. Wiring'
    BY <1>1, DropHeadWiring DEF RefuseWith503
  <2>2. Batching'
    BY <1>1, NextEventBatching DEF RefuseWith503, AtListener, NextEvent
  <2>3. answer' \in [Clients -> {"none", "reply", "500", "503"}]
    <3>1. answer' = [answer EXCEPT ![Head(backlog)] = "503"]
      BY <1>1 DEF RefuseWith503
    <3>2. \A c : [answer EXCEPT ![c] = "503"]
                   \in [Clients -> {"none", "reply", "500", "503"}]
      BY DEF Programming
    <3> QED
      BY <3>1, <3>2
  <2> QED
    BY <1>1, <2>1, <2>2, <2>3 DEF RefuseWith503, NextEvent, Programming, Pooling
<1>2. CASE RefuseNobody
  <2>1. Wiring'
    BY <1>2, DropHeadWiring DEF RefuseNobody, kernel, Wiring
  <2>2. Batching'
    BY <1>2, NextEventBatching DEF RefuseNobody, AtListener, NextEvent
  <2> QED
    BY <1>2, <2>1, <2>2 DEF RefuseNobody, NextEvent, Programming, Pooling
<1>3. CASE AcceptOk
  <2> DEFINE f == LowestFree
  <2>1. f \in FreeFds /\ f \in Int /\ f \in Fds /\ sock[f] = NULL
    BY <1>3, LowestFreeIsFree DEF AcceptOk, FreeFds
  <2>2. NewConn \in Slots /\ Pooling'
    BY <1>3, <2>1, Popped, PoppedWithFd DEF AcceptOk, Pooling
  <2>3. Batching'
    BY <1>3, NextEventBatching DEF AcceptOk, CanPop, AtListener, NextEvent
  <2>4. /\ Head(backlog) \in Clients /\ Head(backlog) = backlog[1]
        /\ 1 \in 1 .. Len(backlog)
        /\ Tail(backlog) \in Seq(Clients)
        /\ \A i \in 1 .. Len(Tail(backlog)) :
             /\ i + 1 \in 1 .. Len(backlog) /\ i + 1 # 1 /\ i \in Nat
             /\ Tail(backlog)[i] = backlog[i + 1]
    BY <1>3, SMT DEF AcceptOk, Wiring
  <2> HIDE DEF f
  <2>5. /\ sock' = [sock EXCEPT ![f] = Head(backlog)]
        /\ reg' = [reg EXCEPT ![f] = NewConn]
        /\ armed' = armed \cup {f}
        /\ backlog' = Tail(backlog)
        /\ UNCHANGED <<peer, inbox, answer>>
    BY <1>3 DEF AcceptOk, clients, f
  <2>6. /\ sock' \in [Fds -> Clients \cup {NULL}]
        /\ reg' \in [Fds -> Slots \cup {NULL}]
        /\ armed' \in SUBSET Fds
    BY <2>1, <2>2, <2>4, <2>5 DEF Wiring
  <2>7. /\ sock'[f] = backlog[1] /\ reg'[f] = NewConn
        /\ \A g \in Fds : g # f => sock'[g] = sock[g] /\ reg'[g] = reg[g]
    BY <2>1, <2>4, <2>5 DEF Wiring
  <2>8. /\ \A g \in Fds : sock'[g] # NULL => peer'[sock'[g]] \in Alive
        /\ \A g \in armed' : sock'[g] # NULL /\ reg'[g] \in Slots
        /\ \A g, h \in Fds : sock'[g] = sock'[h] /\ sock'[g] # NULL => g = h
    <3>1. \A g \in Fds : sock'[g] # NULL => peer'[sock'[g]] \in Alive
      BY <2>1, <2>4, <2>5, <2>7 DEF Wiring
    <3>2. \A g \in armed' : sock'[g] # NULL /\ reg'[g] \in Slots
      BY <2>1, <2>2, <2>4, <2>5, <2>7, ServerAssumption DEF Wiring
    <3>3. \A g, h \in Fds : sock'[g] = sock'[h] /\ sock'[g] # NULL => g = h
      <4>1. \A g \in Fds : sock[g] # backlog[1]
        BY <2>4 DEF Wiring
      <4> QED
        BY <2>7, <4>1 DEF Wiring
    <3> QED
      BY <3>1, <3>2, <3>3
  <2>9. ASSUME NEW i \in 1 .. Len(backlog')
        PROVE  /\ peer'[backlog'[i]] \in Alive
               /\ \A g \in Fds : sock'[g] # backlog'[i]
    <3>1. i + 1 \in 1 .. Len(backlog) /\ backlog'[i] = backlog[i + 1] /\ i + 1 # 1
      BY <2>4, <2>5
    <3>2. backlog[i + 1] # backlog[1]
      BY <2>4, <3>1 DEF Wiring
    <3> QED
      BY <2>5, <2>7, <3>1, <3>2 DEF Wiring
  <2>10. ASSUME NEW i \in 1 .. Len(backlog'), NEW j \in 1 .. Len(backlog'),
                backlog'[i] = backlog'[j]
         PROVE  i = j
    <3>1. i + 1 = j + 1 /\ i \in Nat /\ j \in Nat
      BY <2>4, <2>5, <2>10 DEF Wiring
    <3> QED
      BY <3>1, SMT
  <2>11. Wiring'
    BY <2>4, <2>5, <2>6, <2>8, <2>9, <2>10 DEF Wiring
  <2>12. Programming'
    BY <1>3, <2>5 DEF AcceptOk, NextEvent, Programming
  <2> QED
    BY <2>2, <2>3, <2>11, <2>12
<1>4. CASE AcceptWouldBlock
  <2>1. Pooling'
    BY <1>4, Popped, Pushed DEF AcceptWouldBlock, Pooling
  <2>2. Batching'
    BY <1>4, NextEventBatching DEF AcceptWouldBlock, CanPop, AtListener, NextEvent
  <2> QED
    BY <1>4, <2>1, <2>2
    DEF AcceptWouldBlock, NextEvent, kernel, clients, Wiring, Programming
<1>5. CASE AcceptFatal
  <2>1. Pooling'
    BY <1>5, Popped, Pushed DEF AcceptFatal, Pooling
  <2>2. Batching'
    BY <1>5, SMT DEF AcceptFatal, Batching
  <2>3. Wiring'
    BY <1>5, DropHeadWiring DEF AcceptFatal, kernel, Wiring
  <2> QED
    BY <1>5, <2>1, <2>2, <2>3 DEF AcceptFatal, Programming
<1>6. CASE AcceptSetupFails
  <2>1. LowestFree \in Int
    BY <1>6, LowestFreeIsFree DEF AcceptSetupFails
  <2>2. Pooling'
    BY <1>6, <2>1, Popped, PoppedWithFd, Pushed DEF AcceptSetupFails, Pooling
  <2>3. Batching'
    BY <1>6, NextEventBatching DEF AcceptSetupFails, CanPop, AtListener, NextEvent
  <2>4. Wiring'
    BY <1>6, DropHeadWiring DEF AcceptSetupFails
  <2> QED
    BY <1>6, <2>2, <2>3, <2>4 DEF AcceptSetupFails, NextEvent, Programming
<1> QED
  BY <1>1, <1>2, <1>3, <1>4, <1>5, <1>6

\* The steps of sc_mgr_poll for a connection, and the two ends.
LEMMA ConnectionInv ==
  Inv /\ (HandleError \/ HandleHangUp \/ ServeAndKeep \/ ServeAndClose
            \/ ParseFails \/ Dies \/ Finish) => Inv'
<1> SUFFICES ASSUME Inv,
                    HandleError \/ HandleHangUp \/ ServeAndKeep
                      \/ ServeAndClose \/ ParseFails \/ Dies \/ Finish
             PROVE  Inv'
  OBVIOUS
<1> USE DEF Inv
<1>0. ASSUME NEW flag, AtConn(flag)
      PROVE  Conn \in Slots /\ HasEvent
  BY <1>0, HeadEvent DEF AtConn
<1>1. CASE HandleError
  <2>1. Conn \in Slots /\ HasEvent
    BY <1>0, <1>1 DEF HandleError
  <2>2. Wiring'
    BY <1>1, CloseWiring DEF HandleError
  <2>3. Pooling'
    BY <1>1, <2>1, Pushed DEF HandleError, CleanedUp, Pooling
  <2>4. Programming'
    BY <1>1, SendToAnswer DEF HandleError, NextEvent, Programming
  <2>5. Batching'
    BY <1>1, <2>1, NextEventBatching DEF HandleError, NextEvent
  <2> QED
    BY <2>2, <2>3, <2>4, <2>5
<1>2. CASE HandleHangUp
  <2>1. Conn \in Slots /\ HasEvent
    BY <1>0, <1>2 DEF HandleHangUp
  <2>2. Wiring'
    BY <1>2, CloseWiring DEF HandleHangUp
  <2>3. Pooling'
    BY <1>2, <2>1, Pushed DEF HandleHangUp, Pooling
  <2>4. Programming'
    BY <1>2 DEF HandleHangUp, NextEvent, Programming
  <2>5. Batching'
    BY <1>2, <2>1, NextEventBatching DEF HandleHangUp, NextEvent
  <2> QED
    BY <2>2, <2>3, <2>4, <2>5
<1>3. CASE ServeAndKeep
  <2>1. Conn \in Slots /\ HasEvent
    BY <1>0, <1>3 DEF ServeAndKeep
  <2>2. ConnFd \in Fds /\ sock[ConnFd] # NULL
    BY <1>3 DEF ServeAndKeep, Pending
  <2>3. Wiring'
    <3>1. inbox' \in [Clients -> Bytes]
      <4>1. \A x, c : x \in {"empty", "garbage"} =>
              [inbox EXCEPT ![c] = x] \in [Clients -> Bytes]
        BY DEF Wiring, Bytes
      <4>2. PICK x \in {"empty", "garbage"} :
              inbox' = [inbox EXCEPT ![sock[ConnFd]] = x]
        BY <1>3 DEF ServeAndKeep
      <4> QED
        BY <4>1, <4>2
    <3>2. /\ reg' = [reg EXCEPT ![ConnFd] = Conn]
          /\ armed' = armed \cup {ConnFd}
          /\ UNCHANGED <<backlog, sock, peer>>
      BY <1>3 DEF ServeAndKeep
    <3>3. reg' \in [Fds -> Slots \cup {NULL}] /\ armed' \in SUBSET Fds
      BY <2>1, <2>2, <3>2 DEF Wiring
    <3>4. \A f \in armed' : sock'[f] # NULL /\ reg'[f] \in Slots
      BY <2>1, <2>2, <3>2 DEF Wiring
    <3> QED
      BY <3>1, <3>2, <3>3, <3>4 DEF Wiring
  <2>4. Pooling'
    <3>1. pool' = [pool EXCEPT !.idle[Conn] = 0]
      BY <1>3 DEF ServeAndKeep
    <3>2. pool' \in Pools
      BY <2>1, <3>1, FieldTypes DEF Pooling
    <3>3. /\ pool'.free_conns = pool.free_conns
          /\ pool'.next = pool.next
          /\ pool'.conn_count = pool.conn_count
      BY <3>1, SMT DEF Pooling, Pools
    <3>4. PoolShape(pool')
      BY <3>3 DEF Pooling, PoolShape, FreeStackEnds, FreeStackLoops, IsFreeStack
    <3> QED
      BY <3>2, <3>4 DEF Pooling
  <2>5. Programming'
    BY <1>3, SendToAnswer DEF ServeAndKeep, NextEvent, Programming
  <2>6. Batching'
    BY <1>3, <2>1, NextEventBatching DEF ServeAndKeep, NextEvent
  <2> QED
    BY <2>3, <2>4, <2>5, <2>6
<1>4. CASE ServeAndClose
  <2>1. Conn \in Slots /\ HasEvent
    BY <1>0, <1>4 DEF ServeAndClose
  <2>2. Wiring'
    BY <1>4, CloseWiring DEF ServeAndClose
  <2>3. Pooling'
    BY <1>4, <2>1, Pushed DEF ServeAndClose, Pooling
  <2>4. Programming'
    BY <1>4, SendToAnswer DEF ServeAndClose, NextEvent, Programming
  <2>5. Batching'
    BY <1>4, <2>1, NextEventBatching DEF ServeAndClose, NextEvent
  <2> QED
    BY <2>2, <2>3, <2>4, <2>5
<1>5. CASE ParseFails
  <2>1. Conn \in Slots /\ HasEvent
    BY <1>0, <1>5 DEF ParseFails
  <2>2. Wiring'
    BY <1>5, CloseWiring DEF ParseFails
  <2>3. Pooling'
    BY <1>5, <2>1, Pushed DEF ParseFails, CleanedUp, Pooling
  <2>4. Programming'
    BY <1>5, SendToAnswer DEF ParseFails, NextEvent, Programming
  <2>5. Batching'
    BY <1>5, <2>1, NextEventBatching DEF ParseFails, NextEvent
  <2> QED
    BY <2>2, <2>3, <2>4, <2>5
<1>6. CASE Dies
  <2>1. Wiring'
    BY <1>6, CloseDownWiring DEF Dies
  <2>2. Batching'
    BY <1>6, SMT DEF Dies, Batching
  <2> QED
    BY <1>6, <2>1, <2>2 DEF Dies, Programming, Pooling
<1>7. CASE Finish
  <2>1. Wiring'
    BY <1>7, CloseDownWiring DEF Finish
  <2> QED
    BY <1>7, <2>1 DEF Finish, Batching, Programming, Pooling
<1> QED
  BY <1>1, <1>2, <1>3, <1>4, <1>5, <1>6, <1>7

-----------------------------------------------------------------------------
(* The theorems.                                                           *)

LEMMA NextInv == Inv /\ [Next]_vars => Inv'
<1>1. Inv /\ UNCHANGED vars => Inv'
  BY DEF Inv, vars, program, kernel, clients,
         Wiring, Batching, Programming, Pooling
<1> QED
  BY <1>1, EnvironmentInv, WaitInv, AcceptInv, ConnectionInv DEF Next, Loop

LEMMA SpecInv == Spec => []Inv
  BY InitInv, NextInv, PTL DEF Spec

\* Whatever clients, kernel and signals do, every variable keeps its type: in
\* particular each event the loop handles leads to a slot of the pool.
THEOREM TypeCorrect == Spec => []TypeOK
<1>1. Inv => TypeOK
  BY DEF Inv, TypeOK, Wiring, Batching, Programming, Pooling
<1> QED
  BY <1>1, SpecInv, PTL

\* Whatever clients, kernel and signals do, the free stack has one of its two
\* shapes, although error paths release a slot two and three times.
THEOREM ShapeKept == Spec => []Shape
<1>1. Inv => Shape
  BY DEF Inv, Pooling, Shape
<1> QED
  BY <1>1, SpecInv, PTL

\* Whatever clients, kernel and signals do, sc_mgr_conn_get_free never takes
\* the next pointer of NULL, however many connections fail and come again.
THEOREM NeverPopsNull == Spec => []NullSafe
<1>1. Inv => NullSafe
  <2> SUFFICES ASSUME Inv, HasRoom(pool) PROVE pool.free_conns # NULL
    BY DEF NullSafe, PopsASlot
  <2>1. pool.free_conns \in Slots
    BY ShapeHasSlot DEF Inv, Pooling
  <2> QED
    BY <2>1, PoolAssumption, SMT DEF Slots
<1> QED
  BY <1>1, SpecInv, PTL
=============================================================================
