--------------------------- MODULE OrderlyProofs ----------------------------
(***************************************************************************)
(* What holds of the event loop when no peer resets its connection and no  *)
(* request is split or too long: the pool is exact, slots and descriptors  *)
(* belong to each other, and no event of a batch is stale, however the     *)
(* clients hang up, the clock moves and system calls fail.  On that rests  *)
(* what the loop promises its clients, the refinement of Sessions.         *)
(***************************************************************************)
EXTENDS ServerProofs

\* No peer resets its connection, and a request arrives whole, with as many
\* long header lines as the parser forgives.  Everything else may happen: a
\* hang-up at any moment, failing system calls, signals, returning clients.
Orderly == Env \cap {"reset", "split", "oversized"} = {}

\* What the clients of such an environment can have done: nobody is reset,
\* what waits to be read is a request, and 503 went to no open connection.
Calm ==
  /\ pc # "dead"
  /\ \A c \in Clients : /\ peer[c] # "rst"
                        /\ inbox[c] \in {"keep", "close", "empty"}
                        /\ peer[c] \in Alive => answer[c] # "503"

\* An event e that waits in mgr->events still tells the truth: its pointer is
\* the slot of its descriptor, and the client did what the flag says.
Means(e) ==
  /\ e.fd \in Fds /\ e.ptr \in Slots
  /\ pool.state[e.ptr] = "ACTIVE" /\ pool.fd[e.ptr] = e.fd
  /\ sock[e.fd] # NULL
  /\ e.flag # "err"
  /\ e.flag = "in" => inbox[sock[e.fd]] # "empty"
  /\ e.flag = "hup" => peer[sock[e.fd]] = "fin"

\* There are events only while they are handled, one for each descriptor.
Current ==
  /\ pc # "events" => batch = <<>>
  /\ \A i, j \in 1 .. Len(batch) : batch[i].fd = batch[j].fd => i = j
  /\ \A i \in 1 .. Len(batch) : batch[i].fd # ListenFd => Means(batch[i])

Order == Calm /\ Current /\ Exact /\ SlotsOwnSockets /\ FinishClosesAll

\* The inductive invariant.
OInv == Orderly /\ Inv /\ Order

-----------------------------------------------------------------------------
(* The parts of a step.                                                    *)

\* A step that leaves the batch alone leaves it current if every event in it
\* keeps its meaning.
LEMMA KeepCurrent ==
  ASSUME Batching, Current, UNCHANGED batch,
         pc' = pc \/ batch = <<>>,
         \A e \in Events : Means(e) => Means(e)'
  PROVE  Current'
<1>1. \A i \in 1 .. Len(batch) : batch[i] \in Events
  BY SMT DEF Batching
<1> QED
  BY <1>1 DEF Current

\* A step that handles the event at the head of the batch leaves the others
\* current if each event of another descriptor keeps its meaning.
LEMMA TailCurrent ==
  ASSUME Batching, Current, HasEvent, NextEvent,
         \A e \in Events :
           e.fd # ListenFd /\ e.fd # Head(batch).fd /\ Means(e) => Means(e)'
  PROVE  Current'
<1>1. batch \in Seq(Events) /\ batch # <<>>
  BY DEF Batching, HasEvent
<1>2. /\ batch' = Tail(batch) /\ pc' = "events"
      /\ Head(batch) = batch[1] /\ 1 \in 1 .. Len(batch)
      /\ \A i \in 1 .. Len(Tail(batch)) :
           /\ i + 1 \in 1 .. Len(batch) /\ i + 1 # 1
           /\ Tail(batch)[i] = batch[i + 1] /\ batch[i + 1] \in Events
  BY <1>1, SMT DEF NextEvent, HasEvent
<1>3. ASSUME NEW i \in 1 .. Len(batch'), NEW j \in 1 .. Len(batch'),
             batch'[i].fd = batch'[j].fd
      PROVE  i = j
  <2>1. i + 1 = j + 1
    BY <1>2, <1>3 DEF Current
  <2> QED
    BY <2>1, SMT
<1>4. ASSUME NEW i \in 1 .. Len(batch'), batch'[i].fd # ListenFd
      PROVE  \A e \in Events : e = batch[i + 1] => Means(e)'
  <2>1. Means(batch[i + 1]) /\ batch[i + 1].fd # Head(batch).fd
    BY <1>2, <1>4 DEF Current
  <2> QED
    BY <1>2, <1>4, <2>1
<1> QED
  BY <1>2, <1>3, <1>4 DEF Current

\* What ties slots to descriptors does not depend on the clients, and their
\* steps leave the program alone.
LEMMA KeepOrder ==
  ASSUME Batching, Order, UNCHANGED <<pc, batch, pool, sock, reg>>, Calm',
         \A e \in Events : Means(e) => Means(e)'
  PROVE  Order'
<1>1. Current'
  BY KeepCurrent DEF Order
<1>2. Exact' /\ SlotsOwnSockets' /\ FinishClosesAll'
  BY DEF Order, Exact, SlotsOwnSockets, FinishClosesAll
<1> QED
  BY <1>1, <1>2 DEF Order

-----------------------------------------------------------------------------
(* The environment.                                                        *)

LEMMA OrderlyInit == Orderly /\ Init => OInv
<1> SUFFICES ASSUME Orderly, Init PROVE OInv
  OBVIOUS
<1>1. Inv
  BY InitInv
<1>2. Calm
  BY SMT DEF Init, Calm, Alive
<1>3. Current
  BY SMT DEF Init, Current
<1>4. Exact /\ FinishClosesAll
  BY NewPoolExact, SMT DEF Init, Exact, FinishClosesAll
<1>5. SlotsOwnSockets
  BY SMT DEF Init, SlotsOwnSockets, Active, NewPool
<1> QED
  BY <1>1, <1>2, <1>3, <1>4, <1>5 DEF OInv, Order

LEMMA EnvironmentOrder == OInv /\ Environment => Order'
<1> SUFFICES ASSUME OInv, Environment PROVE Order'
  OBVIOUS
<1> USE DEF OInv
<1>0. Wiring /\ Batching /\ Programming /\ Pooling /\ Order
  BY DEF Inv
<1>1. ASSUME NEW c \in Clients, Connect(c)
      PROVE  Order'
  <2>1. /\ UNCHANGED <<pc, batch, pool, sock, reg, inbox>>
        /\ peer' = [peer EXCEPT ![c] = "up"]
        /\ answer' = [answer EXCEPT ![c] = "none"]
        /\ peer[c] \notin Alive
    BY <1>1 DEF Connect, program, Alive
  <2>2. \A f \in Fds : sock[f] # NULL => sock[f] \in Clients /\ sock[f] # c
    BY <1>0, <2>1 DEF Wiring
  <2>3. ASSUME NEW e \in Events, Means(e)
        PROVE  Means(e)'
    BY <1>0, <2>1, <2>2, <2>3 DEF Means, Wiring
  <2>4. Calm'
    BY <1>0, <2>1, SMT DEF Order, Calm, Wiring, Programming
  <2> QED
    BY <1>0, <2>1, <2>3, <2>4, KeepOrder
<1>2. ASSUME NEW c \in Clients, Send(c) \/ SendRest(c)
      PROVE  Order'
  <2>1. Requests = {"keep", "close"}
    BY DEF Orderly, Requests
  <2>2. Send(c)
    BY <1>0, <1>2 DEF SendRest, Order, Calm
  <2>3. PICK r \in {"keep", "close"} : inbox' = [inbox EXCEPT ![c] = r]
    BY <2>1, <2>2 DEF Send
  <2>4. /\ UNCHANGED <<pc, batch, pool, sock, reg, peer>>
        /\ answer' = [answer EXCEPT ![c] = "none"]
    BY <2>2 DEF Send, program, kernel
  <2>5. \A x \in Clients : inbox[x] # "empty" => inbox'[x] # "empty"
    BY <1>0, <2>3, SMT DEF Wiring
  <2>6. ASSUME NEW e \in Events, Means(e)
        PROVE  Means(e)'
    BY <1>0, <2>4, <2>5, <2>6 DEF Means, Wiring
  <2>7. Calm'
    BY <1>0, <2>3, <2>4, SMT DEF Order, Calm, Wiring, Programming
  <2> QED
    BY <1>0, <2>4, <2>6, <2>7, KeepOrder
<1>3. ASSUME NEW c \in Clients, HangUp(c) \/ Reset(c)
      PROVE  Order'
  <2>1. HangUp(c)
    BY <1>3 DEF Reset, Orderly
  <2>2. /\ UNCHANGED <<pc, batch, pool, sock, reg, inbox, answer>>
        /\ peer' = [peer EXCEPT ![c] = "fin"] /\ peer[c] = "up"
    BY <2>1 DEF HangUp, program, kernel
  <2>3. \A x \in Clients : peer[x] = "fin" => peer'[x] = "fin"
    BY <1>0, <2>2, SMT DEF Wiring
  <2>4. ASSUME NEW e \in Events, Means(e)
        PROVE  Means(e)'
    BY <1>0, <2>2, <2>3, <2>4 DEF Means, Wiring
  <2>5. Calm'
    BY <1>0, <2>2, SMT DEF Order, Calm, Wiring, Programming, Alive
  <2> QED
    BY <1>0, <2>2, <2>4, <2>5, KeepOrder
<1>4. ASSUME NEW c \in Clients, Vanish(c)
      PROVE  Order'
  <2>1. /\ UNCHANGED <<pc, batch, pool, sock, reg, answer>>
        /\ peer' = [peer EXCEPT ![c] = "off"]
        /\ inbox' = [inbox EXCEPT ![c] = "empty"]
        /\ \E i \in 1 .. Len(backlog) : backlog[i] = c
    BY <1>4 DEF Vanish, program
  <2>2. \A f \in Fds : sock[f] # c
    BY <1>0, <2>1 DEF Wiring
  <2>3. ASSUME NEW e \in Events, Means(e)
        PROVE  Means(e)'
    BY <1>0, <2>1, <2>2, <2>3 DEF Means, Wiring
  <2>4. Calm'
    BY <1>0, <2>1, SMT DEF Order, Calm, Wiring, Programming, Alive
  <2> QED
    BY <1>0, <2>1, <2>3, <2>4, KeepOrder
<1>5. CASE Tick
  <2>1. /\ pool' = PassTime(pool) /\ pool \in Pools
        /\ UNCHANGED <<pc, batch, sock, reg, peer, inbox, answer>>
    BY <1>0, <1>5 DEF Tick, kernel, clients, Pooling
  <2>2. /\ pool'.free_conns = pool.free_conns
        /\ pool'.conn_count = pool.conn_count
        /\ pool'.state = pool.state
        /\ pool'.next = pool.next
        /\ pool'.fd = pool.fd
    BY <2>1, PassTimeFields
  <2>3. Exact'
    BY <1>0, <2>2, ExactFields DEF Order, Exact
  <2>4. Current'
    <3>1. ASSUME NEW e \in Events, Means(e)
          PROVE  Means(e)'
      BY <2>1, <2>2, <3>1 DEF Means
    <3> QED
      BY <1>0, <2>1, <3>1, KeepCurrent DEF Order
  <2> QED
    BY <1>0, <2>1, <2>2, <2>3, <2>4
    DEF Order, Calm, SlotsOwnSockets, FinishClosesAll, Active
<1>6. CASE Signal
  <2>1. UNCHANGED <<pc, batch, pool, sock, reg, peer, inbox, answer>>
    BY <1>6 DEF Signal, kernel, clients
  <2>2. Calm' /\ \A e \in Events : Means(e) => Means(e)'
    BY <1>0, <2>1 DEF Order, Calm, Means
  <2> QED
    BY <1>0, <2>1, <2>2, KeepOrder
<1> QED
  BY <1>1, <1>2, <1>3, <1>4, <1>5, <1>6 DEF Environment

-----------------------------------------------------------------------------
(* The program.                                                            *)

\* With no event left every event left is current.
LEMMA EmptyCurrent ==
  ASSUME batch' = <<>>
  PROVE  Current'
<1>1. \A i \in 1 .. Len(batch') : FALSE
  BY SMT
<1> QED
  BY <1>1 DEF Current

\* The pool with s released and its descriptor closed is in order again, and
\* nothing changes for the events of other descriptors.
LEMMA CloseSlot ==
  ASSUME Inv, Order, pc \notin {"finished", "dead"},
         pc' \notin {"finished", "dead"},
         NEW s \in Active(pool), Close({pool.fd[s]}), pool' = Release(pool, s),
         answer' \in [Clients -> {"none", "reply", "500", "503"}],
         \A c \in Clients : answer'[c] = "503" => answer[c] = "503"
  PROVE  /\ Calm' /\ Exact' /\ SlotsOwnSockets' /\ FinishClosesAll'
         /\ \A e \in Events : e.fd # pool.fd[s] /\ Means(e) => Means(e)'
<1> DEFINE d == pool.fd[s]
<1>0. Wiring /\ pool \in Pools
  BY DEF Inv, Pooling
<1>1. s \in Slots /\ pool.state[s] = "ACTIVE"
  BY DEF Active
<1>2. /\ pool'.state = [pool.state EXCEPT ![s] = "CLOSING"]
      /\ pool'.fd = pool.fd
      /\ Active(pool') = Active(pool) \ {s}
  BY <1>0, <1>1, ReleaseFields, ActiveSlots
<1>3. Exact'
  BY <1>0, <1>1, ReleaseExact DEF Order, Exact
<1>4. /\ \A x \in Active(pool) : /\ pool.fd[x] \in Fds /\ reg[pool.fd[x]] = x
                                 /\ sock[pool.fd[x]] # NULL
      /\ \A f \in Fds : sock[f] # NULL => \E x \in Active(pool) : pool.fd[x] = f
  BY DEF Order, SlotsOwnSockets
<1>5. d \in Fds /\ sock[d] \in Clients /\ sock[d] # NULL
  BY <1>0, <1>4 DEF Wiring
<1>6. \A x \in Active(pool) : x # s => pool.fd[x] # d
  BY <1>4
<1>7. \A f \in Fds : /\ f # d => sock'[f] = sock[f] /\ reg'[f] = reg[f]
                     /\ f = d => sock'[f] = NULL
  BY DEF Close
<1>8. ClientsOf({d}) = {sock[d]}
  BY <1>5 DEF ClientsOf
<1>9. /\ \A c \in Clients : c # sock[d] => peer'[c] = peer[c] /\ inbox'[c] = inbox[c]
      /\ peer'[sock[d]] = "off" /\ inbox'[sock[d]] = "empty"
  BY <1>5, <1>8 DEF Close, EndPeers
<1> HIDE DEF d
<1>10. Calm'
  <2>1. ASSUME NEW c \in Clients
        PROVE  /\ peer'[c] # "rst"
               /\ inbox'[c] \in {"keep", "close", "empty"}
               /\ peer'[c] \in Alive => answer'[c] # "503"
    <3>1. CASE c = sock[d]
      BY <1>9, <3>1 DEF Alive
    <3>2. CASE c # sock[d]
      BY <1>9, <3>2 DEF Order, Calm
    <3> QED
      BY <3>1, <3>2
  <2> QED
    BY <2>1 DEF Calm
<1>11. SlotsOwnSockets'
  <2>1. ASSUME NEW x \in Active(pool')
        PROVE  /\ pool'.fd[x] \in Fds /\ reg'[pool'.fd[x]] = x
               /\ sock'[pool'.fd[x]] # NULL
    BY <1>2, <1>4, <1>6, <1>7
  <2>2. ASSUME NEW f \in Fds, sock'[f] # NULL
        PROVE  \E x \in Active(pool') : pool'.fd[x] = f
    <3>1. f # d /\ sock[f] # NULL
      BY <1>7, <2>2
    <3>2. PICK x \in Active(pool) : pool.fd[x] = f
      BY <1>4, <3>1
    <3> QED
      BY <1>2, <3>1, <3>2 DEF d
  <2> QED
    BY <2>1, <2>2 DEF SlotsOwnSockets
<1>12. ASSUME NEW e \in Events, e.fd # d, Means(e)
       PROVE  Means(e)'
  <2>1. /\ e.fd \in Fds /\ e.ptr \in Slots /\ sock'[e.fd] = sock[e.fd]
        /\ sock[e.fd] \in Clients /\ sock[e.fd] # sock[d]
    BY <1>0, <1>5, <1>7, <1>12 DEF Means, Wiring
  <2>2. e.ptr # s
    BY <1>12 DEF Means, d
  <2>3. pool'.state[e.ptr] = pool.state[e.ptr]
    <3>1. pool.state \in [Slots -> ConnStates]
      BY <1>0, SMT DEF Pools
    <3> QED
      BY <1>2, <2>1, <2>2, <3>1
  <2> QED
    BY <1>2, <1>9, <1>12, <2>1, <2>3 DEF Means
<1> QED
  BY <1>3, <1>10, <1>11, <1>12 DEF FinishClosesAll, d

\* A step that does nothing to the connection of c.
Still(c) == peer'[c] = peer[c] /\ inbox'[c] = inbox[c]

\* Slots and descriptors belong to each other as before when the same slots
\* are ACTIVE with the same descriptors, and the clients to whom nothing
\* happens keep the meaning of their events.
LEMMA SameSlots ==
  ASSUME Inv, Order, pc # "finished", pc' # "finished",
         Active(pool') = Active(pool), UNCHANGED sock,
         \A s \in Active(pool) : pool'.fd[s] = pool.fd[s],
         \A f \in Fds : reg'[f] = reg[f]
  PROVE  /\ SlotsOwnSockets' /\ FinishClosesAll'
         /\ \A e \in Events : Still(sock[e.fd]) /\ Means(e) => Means(e)'
<1>1. /\ \A x \in Active(pool) : /\ pool.fd[x] \in Fds /\ reg[pool.fd[x]] = x
                                 /\ sock[pool.fd[x]] # NULL
      /\ \A f \in Fds : sock[f] # NULL => \E x \in Active(pool) : pool.fd[x] = f
  BY DEF Order, SlotsOwnSockets
<1>2. SlotsOwnSockets'
  BY <1>1 DEF SlotsOwnSockets
<1>3. ASSUME NEW e \in Events, Still(sock[e.fd]), Means(e)
      PROVE  Means(e)'
  <2>1. e.ptr \in Active(pool)
    BY <1>3 DEF Means, Active
  <2>2. pool'.state[e.ptr] = "ACTIVE"
    BY <2>1 DEF Active
  <2> QED
    BY <1>3, <2>1, <2>2 DEF Means, Still
<1> QED
  BY <1>2, <1>3 DEF FinishClosesAll

\* Setting the descriptor of the popped slot sets nothing else.
LEMMA PoppedFields ==
  ASSUME Pooling, CanPop, NEW d \in Int
  PROVE  LET q == [GetFree(pool) EXCEPT !.fd[NewConn] = d]
         IN  /\ q \in Pools
             /\ q.free_conns = GetFree(pool).free_conns
             /\ q.conn_count = GetFree(pool).conn_count
             /\ q.state = GetFree(pool).state
             /\ q.next = GetFree(pool).next
             /\ q.fd[NewConn] = d
             /\ \A s \in Slots : s # NewConn => q.fd[s] = GetFree(pool).fd[s]
<1> DEFINE p == GetFree(pool)
           q == [p EXCEPT !.fd[NewConn] = d]
<1>1. p \in Pools /\ NewConn \in Slots
  BY Popped
<1> HIDE DEF p
<1>2. /\ q.free_conns = p.free_conns
      /\ q.conn_count = p.conn_count
      /\ q.state = p.state
      /\ q.next = p.next
      /\ q.fd = [p.fd EXCEPT ![NewConn] = d]
      /\ p.fd \in [Slots -> Int]
  BY <1>1, SMT DEF Pools
<1>3. q \in Pools
  BY PoppedWithFd DEF p
<1> QED
  BY <1>1, <1>2, <1>3 DEF p

\* A slot that is popped and pushed back leaves the pool exact, with the same
\* slots ACTIVE.
LEMMA PopPush ==
  ASSUME Inv, Exact, CanPop, NEW q \in Pools,
         q.free_conns = GetFree(pool).free_conns,
         q.conn_count = GetFree(pool).conn_count,
         q.state = GetFree(pool).state,
         q.next = GetFree(pool).next,
         \A s \in Slots : s # NewConn => q.fd[s] = GetFree(pool).fd[s]
  PROVE  /\ NewConn \in Slots /\ NewConn \notin Active(pool)
         /\ PoolExact(q) /\ Active(q) = Active(pool) \cup {NewConn}
         /\ \A s \in Active(pool) : q.fd[s] = pool.fd[s]
         /\ PoolExact(Release(q, NewConn))
         /\ Active(Release(q, NewConn)) = Active(pool)
         /\ \A s \in Active(pool) : Release(q, NewConn).fd[s] = pool.fd[s]
<1> DEFINE n == NewConn
<1>1. pool \in Pools /\ PoolExact(pool) /\ HasRoom(pool)
  BY DEF Inv, Pooling, Exact, CanPop
<1>2. /\ n \in Slots /\ n = pool.free_conns
      /\ pool.state[n] # "ACTIVE"
      /\ PoolExact(GetFree(pool))
  BY <1>1, GetFreeExact DEF NewConn
<1>3. n \notin Active(pool)
  BY <1>2 DEF Active
<1>4. /\ GetFree(pool).state = [pool.state EXCEPT ![n] = "ACTIVE"]
      /\ GetFree(pool).fd = [pool.fd EXCEPT ![n] = -1]
      /\ Active(GetFree(pool)) = Active(pool) \cup {n}
  BY <1>1, <1>2, GetFreeFields, ActiveSlots
<1> HIDE DEF n
<1>5. PoolExact(q) /\ Active(q) = Active(pool) \cup {n}
  <2>1. Active(q) = Active(GetFree(pool))
    BY DEF Active
  <2> QED
    BY <1>2, <1>4, <2>1, ExactFields
<1>6. \A s \in Active(pool) : q.fd[s] = pool.fd[s]
  <2>1. pool.fd \in [Slots -> Int]
    BY <1>1, SMT DEF Pools
  <2>2. \A s \in Active(pool) : s \in Slots /\ s # n
    BY <1>3 DEF Active
  <2> QED
    BY <1>4, <2>1, <2>2 DEF n
<1>7. q.state[n] = "ACTIVE"
  BY <1>2, <1>5 DEF Active
<1>8. PoolExact(Release(q, n)) /\ Active(Release(q, n)) = Active(pool)
  BY <1>2, <1>3, <1>5, <1>7, ReleaseExact, ActiveSlots
<1>9. Release(q, n).fd = q.fd
  BY <1>2, ReleaseFields
<1> QED
  BY <1>2, <1>3, <1>5, <1>6, <1>8, <1>9 DEF n

\* The client at the head of the queue is nobody's event.
LEMMA DropHeadOrder ==
  ASSUME Inv, Order, backlog # <<>>, DropHead, pc' # "dead",
         answer' = answer \/ answer' = [answer EXCEPT ![Head(backlog)] = "503"]
  PROVE  /\ Calm'
         /\ Head(backlog) \in Clients
         /\ \A f \in Fds : sock[f] # NULL => Still(sock[f])
<1> DEFINE h == Head(backlog)
<1>1. /\ h \in Clients /\ h = backlog[1] /\ 1 \in 1 .. Len(backlog)
  BY SMT DEF Inv, Wiring
<1>2. \A f \in Fds : sock[f] # h
  BY <1>1 DEF Inv, Wiring
<1>3. /\ \A c \in Clients \ {h} : peer'[c] = peer[c] /\ inbox'[c] = inbox[c]
      /\ peer'[h] = "off" /\ inbox'[h] = "empty"
  BY <1>1 DEF DropHead, EndPeers
<1>4. \A c \in Clients \ {h} : answer'[c] = answer[c]
  BY DEF Inv, Programming
<1> HIDE DEF h
<1>5. Calm'
  BY <1>3, <1>4 DEF Order, Calm, Alive
<1>6. \A f \in Fds : sock[f] # NULL => Still(sock[f])
  BY <1>2, <1>3 DEF Inv, Wiring, Still
<1> QED
  BY <1>1, <1>5, <1>6 DEF h

\* An event of a connection finds what it was reported for.
LEMMA AtConnFacts ==
  ASSUME Inv, Order, NEW flag, AtConn(flag)
  PROVE  /\ HasEvent /\ pc = "events" /\ flag # "err"
         /\ Conn \in Active(pool) /\ ConnFd = Head(batch).fd
         /\ ConnFd \in Fds /\ reg[ConnFd] = Conn
         /\ sock[ConnFd] \in Clients /\ sock[ConnFd] # NULL
         /\ ClientsOf({ConnFd}) = {sock[ConnFd]}
         /\ flag = "in" => Pending \in {"keep", "close"}
         /\ flag = "hup" => peer[sock[ConnFd]] = "fin"
<1>1. batch \in Seq(Events) /\ batch # <<>> /\ pc = "events" /\ HasEvent
  BY DEF Inv, Batching, AtConn, HasEvent
<1>2. Head(batch) = batch[1] /\ 1 \in 1 .. Len(batch)
  BY <1>1, SMT
<1>3. Means(Head(batch)) /\ Head(batch).flag = flag
  BY <1>2 DEF Order, Current, AtConn
<1>4. /\ Conn \in Active(pool) /\ ConnFd = Head(batch).fd /\ ConnFd \in Fds
      /\ sock[ConnFd] # NULL /\ flag # "err"
      /\ flag = "in" => inbox[sock[ConnFd]] # "empty"
      /\ flag = "hup" => peer[sock[ConnFd]] = "fin"
  BY <1>3 DEF Means, Conn, ConnFd, Active
<1>5. sock[ConnFd] \in Clients
  BY <1>4 DEF Inv, Wiring
<1>6. reg[ConnFd] = Conn
  BY <1>1, <1>4 DEF Order, SlotsOwnSockets, ConnFd
<1>7. ClientsOf({ConnFd}) = {sock[ConnFd]}
  BY <1>4 DEF ClientsOf
<1>8. Pending = inbox[sock[ConnFd]]
  BY <1>4 DEF Pending
<1>9. inbox[sock[ConnFd]] \in {"keep", "close", "empty"}
  BY <1>5 DEF Order, Calm
<1> QED
  BY <1>1, <1>4, <1>5, <1>6, <1>7, <1>8, <1>9

\* No event is an error, and every request that is read is whole.
LEMMA NothingBreaks ==
  ASSUME Inv, Order
  PROVE  ~ HandleError /\ ~ ParseFails /\ ~ Dies
<1>1. ~ AtConn("err")
  BY AtConnFacts
<1>2. AtConn("in") => /\ Pending \in {"keep", "close"}
                      /\ \A c \in ClientsOf({ConnFd}) : peer[c] # "rst"
  BY AtConnFacts DEF Order, Calm
<1> QED
  BY <1>1, <1>2 DEF HandleError, ParseFails, Dies

\* Everything epoll_wait reports is true when it is reported, and it reports
\* a descriptor once.
LEMMA ReadyMeans ==
  ASSUME Inv, Order, pc # "finished"
  PROVE  /\ \A e \in Ready : e \in Events /\ (e.fd # ListenFd => Means(e))
         /\ \A e, x \in Ready : e.fd = x.fd => e = x
<1> DEFINE At(f) == [fd |-> f, ptr |-> reg[f], flag |-> Flag(sock[f])]
           Waiting == {g \in armed : peer[sock[g]] # "up" \/ inbox[sock[g]] # "empty"}
           Listen == [fd |-> ListenFd, ptr |-> NULL, flag |-> "in"]
<1>1. \A e \in Ready : e \in Events
  BY ReadyEvents DEF Inv
<1>2. \A e \in Ready : e = Listen \/ \E f \in Waiting : e = At(f)
  BY DEF Ready
<1>3. \A f \in Waiting : f # ListenFd
  BY ServerAssumption, SMT DEF Inv, Wiring, Fds, ListenFd
<1>4. ASSUME NEW f \in Waiting
      PROVE  Means(At(f))
  <2>1. f \in Fds /\ sock[f] # NULL /\ sock[f] \in Clients /\ peer[sock[f]] \in {"up", "fin"}
    BY DEF Inv, Wiring, Order, Calm, Alive
  <2>2. PICK s \in Active(pool) : pool.fd[s] = f
    BY <2>1 DEF Order, SlotsOwnSockets
  <2>3. reg[f] = s
    BY <2>2 DEF Order, SlotsOwnSockets
  <2>4. /\ peer[sock[f]] = "up" => Flag(sock[f]) = "in"
        /\ peer[sock[f]] = "fin" => Flag(sock[f]) = "hup"
    BY DEF Flag
  <2>5. s \in Slots /\ pool.state[s] = "ACTIVE"
    BY <2>2 DEF Active
  <2>6. /\ peer[sock[f]] = "up" => inbox[sock[f]] # "empty"
        /\ At(f).fd = f /\ At(f).ptr = s /\ At(f).flag = Flag(sock[f])
    BY <2>3
  <2> HIDE DEF At
  <2> QED
    BY <2>1, <2>2, <2>4, <2>5, <2>6 DEF Means
<1>5. \A f \in Waiting : At(f).fd = f
  OBVIOUS
<1>6. Listen.fd = ListenFd
  OBVIOUS
<1> HIDE DEF At, Waiting, Listen
<1>7. ASSUME NEW e \in Ready, NEW x \in Ready, e.fd = x.fd
      PROVE  e = x
  BY <1>2, <1>3, <1>5, <1>6, <1>7
<1>8. ASSUME NEW e \in Ready, e.fd # ListenFd
      PROVE  Means(e)
  BY <1>2, <1>4, <1>6, <1>8
<1> QED
  BY <1>1, <1>7, <1>8

LEMMA WaitOrder ==
  OInv /\ (Poll \/ CleanupExpired \/ CleanupSkips \/ EpollWait
             \/ EpollInterrupted \/ PollReturns) => Order'
<1> SUFFICES ASSUME OInv,
                    Poll \/ CleanupExpired \/ CleanupSkips \/ EpollWait
                      \/ EpollInterrupted \/ PollReturns
             PROVE  Order'
  OBVIOUS
<1> USE DEF OInv
<1>1. CASE CleanupExpired
  <2>1. pc = "cleanup" /\ scan \in Active(pool) /\ pool' = Release(pool, scan)
    BY <1>1 DEF CleanupExpired, Expired, Active, Inv, Programming
  <2>2. pc' \in {"cleanup", "wait"}
    BY <1>1, NextScanSlots DEF CleanupExpired, Inv
  <2>3. Calm' /\ Exact' /\ SlotsOwnSockets' /\ FinishClosesAll'
    BY <1>1, <2>1, <2>2, CloseSlot DEF CleanupExpired, Inv, Programming
  <2>4. Current'
    BY <1>1, <2>1, EmptyCurrent DEF CleanupExpired, Order, Current
  <2> QED
    BY <2>3, <2>4 DEF Order
<1>2. CASE EpollWait
  <2>1. PICK n \in 0 .. MaxEvents : \E b \in [1 .. n -> Ready] :
          (\A i, j \in 1 .. n : b[i] = b[j] => i = j) /\ batch' = b
    BY <1>2 DEF EpollWait
  <2>2. PICK b \in [1 .. n -> Ready] :
          (\A i, j \in 1 .. n : b[i] = b[j] => i = j) /\ batch' = b
    BY <2>1
  <2>3. /\ pc = "wait" /\ pc' = "events"
        /\ UNCHANGED <<pool, sock, reg, peer, inbox, answer>>
    BY <1>2 DEF EpollWait, clients
  <2>4. Len(batch') = n
    <3>1. b \in Seq(Events)
      <4>1. b \in [1 .. n -> Events] /\ n \in Nat
        BY ReadyEvents, ServerAssumption, SMT DEF Inv
      <4> QED
        BY <4>1, SeqDef, SMT
    <3> QED
      BY <2>2, <3>1, LenProperties, ServerAssumption, SMT
  <2>5. \A e \in Events : Means(e) => Means(e)'
    BY <2>3 DEF Means
  <2>6. ASSUME NEW i \in 1 .. n
        PROVE  b[i] \in Events /\ (b[i].fd # ListenFd => Means(b[i])')
    <3>1. b[i] \in Ready
      OBVIOUS
    <3>2. b[i] \in Events /\ (b[i].fd # ListenFd => Means(b[i]))
      BY <2>3, <3>1, ReadyMeans
    <3> QED
      BY <2>5, <3>2
  <2>7. ASSUME NEW i \in 1 .. n, NEW j \in 1 .. n, b[i].fd = b[j].fd
        PROVE  i = j
    BY <2>2, <2>3, <2>7, ReadyMeans
  <2>8. Current'
    BY <2>2, <2>3, <2>4, <2>6, <2>7 DEF Current
  <2>9. Calm' /\ Exact' /\ SlotsOwnSockets' /\ FinishClosesAll'
    BY <2>3 DEF Order, Calm, Exact, SlotsOwnSockets, FinishClosesAll
  <2> QED
    BY <2>8, <2>9 DEF Order
<1>3. CASE Poll \/ CleanupSkips \/ EpollInterrupted \/ PollReturns
  <2>1. /\ UNCHANGED <<batch, pool, sock, reg, peer, inbox, answer>>
        /\ batch = <<>>
        /\ pc \notin {"finished", "dead"} /\ pc' \notin {"finished", "dead"}
    BY <1>3, NextScanSlots
    DEF Poll, CleanupSkips, EpollInterrupted, PollReturns, kernel, clients,
        Order, Current, Inv
  <2>2. Calm' /\ Exact' /\ SlotsOwnSockets' /\ FinishClosesAll'
    BY <2>1 DEF Order, Calm, Exact, SlotsOwnSockets, FinishClosesAll
  <2>3. Current'
    BY <2>1, EmptyCurrent
  <2> QED
    BY <2>2, <2>3 DEF Order
<1> QED
  BY <1>1, <1>2, <1>3

\* The steps of create_new_connection.
LEMMA AcceptOrder ==
  OInv /\ (RefuseWith503 \/ RefuseNobody \/ AcceptOk \/ AcceptWouldBlock
             \/ AcceptFatal \/ AcceptSetupFails) => Order'
<1> SUFFICES ASSUME OInv,
                    RefuseWith503 \/ RefuseNobody \/ AcceptOk
                      \/ AcceptWouldBlock \/ AcceptFatal \/ AcceptSetupFails
             PROVE  Order'
  OBVIOUS
<1> USE DEF OInv
<1>0. /\ HasEvent /\ pc = "events" /\ Head(batch).fd = ListenFd
      /\ Batching /\ Current /\ Calm /\ Exact /\ pool \in Pools
  BY DEF RefuseWith503, RefuseNobody, AcceptOk, AcceptWouldBlock, AcceptFatal,
         AcceptSetupFails, CanPop, AtListener, HasEvent, Inv, Order, Pooling
<1>1. CASE RefuseWith503 \/ RefuseNobody
  <2>1. /\ NextEvent /\ pc' = "events"
        /\ UNCHANGED <<pool, sock, reg>>
    BY <1>0, <1>1
    DEF RefuseWith503, RefuseNobody, NextEvent, DropHead, kernel
  <2>2. Calm' /\ \A f \in Fds : sock[f] # NULL => Still(sock[f])
    <3>1. CASE UNCHANGED <<peer, inbox, answer>>
      BY <1>0, <2>1, <3>1 DEF Calm, Still
    <3>2. CASE /\ backlog # <<>> /\ DropHead
               /\ answer' = answer \/ answer' = [answer EXCEPT ![Head(backlog)] = "503"]
      BY <2>1, <3>2, DropHeadOrder
    <3> QED
      BY <1>1, <3>1, <3>2 DEF RefuseWith503, RefuseNobody, kernel
  <2>4. /\ SlotsOwnSockets' /\ FinishClosesAll'
        /\ \A e \in Events : Still(sock[e.fd]) /\ Means(e) => Means(e)'
    BY <1>0, <2>1, SameSlots
  <2>5. Current'
    <3>1. \A e \in Events : Means(e) => Means(e)'
      BY <2>2, <2>4 DEF Means
    <3> QED
      BY <1>0, <2>1, <3>1, TailCurrent
  <2> QED
    BY <1>0, <2>1, <2>2, <2>4, <2>5 DEF Order, Exact
<1>2. CASE AcceptWouldBlock
  <2>1. /\ CanPop /\ pool' = Release(GetFree(pool), NewConn)
        /\ NextEvent /\ pc' = "events"
        /\ UNCHANGED <<sock, reg, peer, inbox, answer>>
    BY <1>0, <1>2 DEF AcceptWouldBlock, NextEvent, kernel, clients
  <2>2. GetFree(pool) \in Pools
    BY <2>1, Popped DEF Inv
  <2>3. /\ PoolExact(pool') /\ Active(pool') = Active(pool)
        /\ \A s \in Active(pool) : pool'.fd[s] = pool.fd[s]
    BY <1>0, <2>1, <2>2, PopPush
  <2>4. \A c : Still(c)
    BY <2>1 DEF Still
  <2>5. /\ SlotsOwnSockets' /\ FinishClosesAll'
        /\ \A e \in Events : Means(e) => Means(e)'
    BY <1>0, <2>1, <2>3, <2>4, SameSlots
  <2>6. Current'
    BY <1>0, <2>1, <2>5, TailCurrent
  <2>7. Calm'
    BY <1>0, <2>1 DEF Calm
  <2> QED
    BY <2>3, <2>5, <2>6, <2>7 DEF Order, Exact
<1>3. CASE AcceptFatal
  <2>1. /\ CanPop /\ pool' = Release(GetFree(pool), NewConn)
        /\ pc' = "app" /\ batch' = <<>>
        /\ UNCHANGED <<sock, reg, answer>>
        /\ \/ UNCHANGED <<peer, inbox>>
           \/ backlog # <<>> /\ DropHead
    BY <1>3 DEF AcceptFatal, kernel, DropHead
  <2>2. GetFree(pool) \in Pools
    BY <2>1, Popped DEF Inv
  <2>3. /\ PoolExact(pool') /\ Active(pool') = Active(pool)
        /\ \A s \in Active(pool) : pool'.fd[s] = pool.fd[s]
    BY <1>0, <2>1, <2>2, PopPush
  <2>5. SlotsOwnSockets' /\ FinishClosesAll'
    BY <1>0, <2>1, <2>3, SameSlots
  <2>6. Current'
    BY <2>1, EmptyCurrent
  <2>7. Calm'
    BY <1>0, <2>1, DropHeadOrder DEF Calm
  <2> QED
    BY <2>3, <2>5, <2>6, <2>7 DEF Order, Exact
<1>4. CASE AcceptSetupFails
  <2> DEFINE q == [GetFree(pool) EXCEPT !.fd[NewConn] = LowestFree]
  <2>1. /\ CanPop /\ pool' = Release(q, NewConn)
        /\ backlog # <<>> /\ DropHead /\ FreeFds # {}
        /\ NextEvent /\ pc' = "events"
        /\ UNCHANGED <<sock, reg, answer>>
    BY <1>0, <1>4 DEF AcceptSetupFails, NextEvent, DropHead
  <2>2. /\ q \in Pools
        /\ q.free_conns = GetFree(pool).free_conns
        /\ q.conn_count = GetFree(pool).conn_count
        /\ q.state = GetFree(pool).state
        /\ q.next = GetFree(pool).next
        /\ \A s \in Slots : s # NewConn => q.fd[s] = GetFree(pool).fd[s]
    BY <2>1, PoppedFields, LowestFreeIsFree DEF Inv
  <2> HIDE DEF q
  <2>3. /\ PoolExact(pool') /\ Active(pool') = Active(pool)
        /\ \A s \in Active(pool) : pool'.fd[s] = pool.fd[s]
    BY <1>0, <2>1, <2>2, PopPush
  <2>4. Calm' /\ \A f \in Fds : sock[f] # NULL => Still(sock[f])
    BY <2>1, DropHeadOrder
  <2>5. /\ SlotsOwnSockets' /\ FinishClosesAll'
        /\ \A e \in Events : Still(sock[e.fd]) /\ Means(e) => Means(e)'
    BY <1>0, <2>1, <2>3, SameSlots
  <2>6. Current'
    <3>1. \A e \in Events : Means(e) => Means(e)'
      BY <2>4, <2>5 DEF Means
    <3> QED
      BY <1>0, <2>1, <3>1, TailCurrent
  <2> QED
    BY <2>3, <2>4, <2>5, <2>6 DEF Order, Exact
<1>5. CASE AcceptOk
  <2> DEFINE q == [GetFree(pool) EXCEPT !.fd[NewConn] = LowestFree]
             d == LowestFree
             n == NewConn
  <2>1. /\ CanPop /\ pool' = q
        /\ sock' = [sock EXCEPT ![d] = Head(backlog)]
        /\ reg' = [reg EXCEPT ![d] = n]
        /\ backlog # <<>> /\ FreeFds # {}
        /\ NextEvent /\ pc' = "events"
        /\ UNCHANGED <<peer, inbox, answer>>
    BY <1>0, <1>5 DEF AcceptOk, NextEvent, clients
  <2>2. /\ q \in Pools
        /\ q.free_conns = GetFree(pool).free_conns
        /\ q.conn_count = GetFree(pool).conn_count
        /\ q.state = GetFree(pool).state
        /\ q.next = GetFree(pool).next
        /\ q.fd[n] = d
        /\ \A s \in Slots : s # n => q.fd[s] = GetFree(pool).fd[s]
    BY <2>1, PoppedFields, LowestFreeIsFree DEF Inv
  <2>4. d \in Fds /\ sock[d] = NULL
    BY <2>1, LowestFreeIsFree DEF FreeFds
  <2>5. Head(backlog) \in Clients /\ Head(backlog) # NULL
    BY <2>1, ServerAssumption, SMT DEF Inv, Wiring
  <2>6. /\ n \notin Active(pool)
        /\ PoolExact(pool') /\ Active(pool') = Active(pool) \cup {n}
        /\ \A s \in Active(pool) : pool'.fd[s] = pool.fd[s]
    BY <1>0, <2>1, <2>2, PopPush
  <2>7. /\ sock'[d] = Head(backlog) /\ reg'[d] = n
        /\ \A f \in Fds : f # d => sock'[f] = sock[f] /\ reg'[f] = reg[f]
    BY <2>1, <2>4 DEF Inv, Wiring
  <2>8. pool'.fd[n] = d
    BY <2>1, <2>2
  <2> HIDE DEF q, d, n
  <2>9. /\ \A x \in Active(pool) : /\ pool.fd[x] \in Fds /\ reg[pool.fd[x]] = x
                                   /\ sock[pool.fd[x]] # NULL
        /\ \A f \in Fds : sock[f] # NULL => \E x \in Active(pool) : pool.fd[x] = f
    BY <1>0 DEF Order, SlotsOwnSockets
  <2>10. SlotsOwnSockets'
    <3>1. ASSUME NEW x \in Active(pool')
          PROVE  /\ pool'.fd[x] \in Fds /\ reg'[pool'.fd[x]] = x
                 /\ sock'[pool'.fd[x]] # NULL
      BY <2>4, <2>5, <2>6, <2>7, <2>8, <2>9
    <3>2. ASSUME NEW f \in Fds, sock'[f] # NULL
          PROVE  \E x \in Active(pool') : pool'.fd[x] = f
      BY <2>6, <2>7, <2>8, <2>9, <3>2
    <3> QED
      BY <3>1, <3>2 DEF SlotsOwnSockets
  <2>11. Current'
    <3>1. ASSUME NEW e \in Events, Means(e)
          PROVE  Means(e)'
      <4>1. e.ptr \in Active(pool) /\ e.ptr \in Active(pool') /\ e.fd # d
        BY <2>4, <2>6, <3>1 DEF Means, Active
      <4>2. pool'.state[e.ptr] = "ACTIVE"
        BY <4>1 DEF Active
      <4> QED
        BY <2>1, <2>6, <2>7, <3>1, <4>1, <4>2 DEF Means
    <3> QED
      BY <1>0, <2>1, <3>1, TailCurrent
  <2>12. Calm' /\ FinishClosesAll'
    BY <1>0, <2>1 DEF Calm, FinishClosesAll
  <2> QED
    BY <2>6, <2>10, <2>11, <2>12 DEF Order, Exact
<1> QED
  BY <1>1, <1>2, <1>3, <1>4, <1>5

\* The steps of sc_mgr_poll for a connection, and the end.
LEMMA ConnectionOrder ==
  OInv /\ (HandleError \/ HandleHangUp \/ ServeAndKeep \/ ServeAndClose
             \/ ParseFails \/ Dies \/ Finish) => Order'
<1> SUFFICES ASSUME OInv,
                    HandleError \/ HandleHangUp \/ ServeAndKeep
                      \/ ServeAndClose \/ ParseFails \/ Dies \/ Finish
             PROVE  Order'
  OBVIOUS
<1> USE DEF OInv
<1>0. Wiring /\ Batching /\ Current /\ Calm /\ Exact /\ pool \in Pools
  BY DEF Inv, Order, Pooling
<1>1. ~ HandleError /\ ~ ParseFails /\ ~ Dies
  BY NothingBreaks DEF OInv
<1>2. CASE HandleHangUp \/ ServeAndClose
  <2>1. /\ HasEvent /\ NextEvent /\ pc = "events" /\ pc' = "events"
        /\ Conn \in Active(pool) /\ ConnFd = Head(batch).fd
        /\ Close({ConnFd}) /\ pool' = Release(pool, Conn)
    BY <1>2, AtConnFacts DEF HandleHangUp, ServeAndClose, NextEvent
  <2>2. /\ answer' \in [Clients -> {"none", "reply", "500", "503"}]
        /\ \A c \in Clients : answer'[c] = "503" => answer[c] = "503"
    <3>1. CASE UNCHANGED answer
      BY <3>1 DEF Inv, Programming
    <3>2. CASE SendTo(ConnFd, "reply")
      <4>1. answer' \in [Clients -> {"none", "reply", "500", "503"}]
        BY <3>2, SendToAnswer DEF Inv
      <4> QED
        BY <3>2, <4>1 DEF SendTo
    <3> QED
      BY <1>2, <3>1, <3>2 DEF HandleHangUp, ServeAndClose
  <2>3. /\ Calm' /\ Exact' /\ SlotsOwnSockets' /\ FinishClosesAll'
        /\ \A e \in Events : e.fd # ConnFd /\ Means(e) => Means(e)'
    BY <2>1, <2>2, CloseSlot DEF ConnFd
  <2>4. Current'
    BY <1>0, <2>1, <2>3, TailCurrent
  <2> QED
    BY <2>3, <2>4 DEF Order
<1>3. CASE ServeAndKeep
  <2>1. /\ HasEvent /\ NextEvent /\ pc = "events" /\ pc' = "events"
        /\ Conn \in Active(pool) /\ ConnFd = Head(batch).fd
        /\ ConnFd \in Fds /\ reg[ConnFd] = Conn
        /\ sock[ConnFd] \in Clients /\ sock[ConnFd] # NULL
        /\ Pending = "keep"
    BY <1>3, AtConnFacts DEF ServeAndKeep, NextEvent
  <2>2. /\ SendTo(ConnFd, "reply")
        /\ inbox' = [inbox EXCEPT ![sock[ConnFd]] = "empty"]
        /\ pool' = [pool EXCEPT !.idle[Conn] = 0]
        /\ reg' = [reg EXCEPT ![ConnFd] = Conn]
        /\ UNCHANGED <<sock, peer>>
    BY <1>3, <2>1 DEF ServeAndKeep
  <2>3. /\ pool'.free_conns = pool.free_conns
        /\ pool'.conn_count = pool.conn_count
        /\ pool'.state = pool.state
        /\ pool'.next = pool.next
        /\ pool'.fd = pool.fd
    BY <1>0, <2>2, SMT DEF Pools
  <2>4. Exact' /\ Active(pool') = Active(pool)
    BY <1>0, <2>3, ExactFields DEF Exact, Active
  <2>5. \A f \in Fds : reg'[f] = reg[f]
    BY <1>0, <2>1, <2>2 DEF Wiring
  <2>6. \A c \in Clients : c # sock[ConnFd] => Still(c)
    BY <1>0, <2>2 DEF Still, Wiring
  <2>7. /\ SlotsOwnSockets' /\ FinishClosesAll'
        /\ \A e \in Events : Still(sock[e.fd]) /\ Means(e) => Means(e)'
    BY <2>1, <2>2, <2>3, <2>4, <2>5, SameSlots
  <2>8. ASSUME NEW e \in Events, e.fd # ConnFd, Means(e)
        PROVE  Means(e)'
    <3>1. sock[e.fd] \in Clients /\ sock[e.fd] # sock[ConnFd]
      BY <1>0, <2>1, <2>8 DEF Means, Wiring
    <3> QED
      BY <2>6, <2>7, <2>8, <3>1
  <2>9. Current'
    BY <1>0, <2>1, <2>8, TailCurrent
  <2>10. Calm'
    <3>1. answer' = [c \in Clients |-> IF c \in ClientsOf({ConnFd}) THEN "reply"
                                       ELSE answer[c]]
      BY <2>2 DEF SendTo
    <3>2. \A c \in Clients : inbox'[c] = "empty" \/ inbox'[c] = inbox[c]
      BY <1>0, <2>2 DEF Wiring
    <3> QED
      BY <1>0, <2>1, <2>2, <3>1, <3>2 DEF Calm
  <2> QED
    BY <2>4, <2>7, <2>9, <2>10 DEF Order
<1>4. CASE Finish
  <2> DEFINE S == {pool.fd[c] : c \in Active(pool)}
  <2>1. /\ pc = "app" /\ pc' = "finished" /\ CloseDown(S)
        /\ UNCHANGED <<batch, pool, answer>> /\ batch = <<>>
    BY <1>0, <1>4 DEF Finish, Current
  <2>2. Exact' /\ Current' /\ SlotsOwnSockets'
    BY <1>0, <2>1, EmptyCurrent DEF Exact, SlotsOwnSockets
  <2>3. \A f \in Fds : sock[f] # NULL => f \in S
    BY <2>1 DEF Order, SlotsOwnSockets
  <2> HIDE DEF S
  <2>4. FinishClosesAll'
    BY <2>1, <2>3 DEF CloseDown, FinishClosesAll
  <2>5. \A c \in Clients : \/ peer'[c] = peer[c] /\ inbox'[c] = inbox[c]
                           \/ peer'[c] = "off" /\ inbox'[c] = "empty"
    BY <2>1 DEF CloseDown, EndPeers
  <2>6. Calm'
    BY <1>0, <2>1, <2>5 DEF Calm, Alive
  <2> QED
    BY <2>2, <2>4, <2>6 DEF Order
<1> QED
  BY <1>1, <1>2, <1>3, <1>4

-----------------------------------------------------------------------------
(* The theorems.                                                           *)

LEMMA OrderlyNext == OInv /\ [Next]_vars => OInv'
<1> SUFFICES ASSUME OInv, [Next]_vars PROVE OInv'
  OBVIOUS
<1>1. Orderly' /\ Inv'
  BY NextInv DEF OInv, Orderly
<1>2. CASE UNCHANGED vars
  <2>1. UNCHANGED <<pc, batch, pool, sock, reg, peer, inbox, answer>>
    BY <1>2 DEF vars, program, kernel, clients
  <2>2. Current'
    BY <2>1 DEF OInv, Order, Current, Means
  <2> QED
    BY <1>1, <2>1, <2>2
    DEF OInv, Order, Calm, Exact, SlotsOwnSockets, FinishClosesAll
<1> QED
  BY <1>1, <1>2, EnvironmentOrder, WaitOrder, AcceptOrder, ConnectionOrder
  DEF OInv, Next, Loop

LEMMA OrderlySpec == Orderly /\ Spec => []OInv
  BY OrderlyInit, OrderlyNext, PTL DEF Spec

\* When no peer resets and no request is split or too long, the free list,
\* the states and conn_count agree: sc_mgr_conn_release is called once for
\* each connection that sc_mgr_conn_get_free gave, on every error path of
\* create_new_connection, on a hang-up, at a timeout and after a response.
THEOREM OrderlyExact == Orderly /\ Spec => []Exact
<1>1. OInv => Exact
  BY DEF OInv, Order
<1> QED
  BY <1>1, OrderlySpec, PTL

\* In the same environments conn_count, on which the loop decides to answer
\* 503, is the number of connections.
THEOREM OrderlyCount == Orderly /\ Spec => []CountIsActive
<1>1. OInv => CountIsActive
  BY ExactCount DEF OInv, Inv, Pooling, Order, Exact, CountIsActive
<1> QED
  BY <1>1, OrderlySpec, PTL

\* In the same environments each ACTIVE slot owns an open descriptor that epoll
\* knows under that slot, and no descriptor of a client is open without one.
THEOREM OrderlyOwnership == Orderly /\ Spec => []SlotsOwnSockets
<1>1. OInv => SlotsOwnSockets
  BY DEF OInv, Order
<1> QED
  BY <1>1, OrderlySpec, PTL

\* In the same environments the handling of one event of a batch never takes
\* the connection from under an event that waits behind it, and gives its
\* slot to nobody else, though hang-ups release slots and accepts take them
\* in the same batch.
THEOREM OrderlyBatch == Orderly /\ Spec => []NoStaleEvent
<1>1. OInv => NoStaleEvent
  BY DEF OInv, Order, Current, Means, NoStaleEvent
<1> QED
  BY <1>1, OrderlySpec, PTL

\* In the same environments sc_mgr_finish closes every connection that is
\* open: those of the ACTIVE slots are all there are.
THEOREM OrderlyFinish == Orderly /\ Spec => []FinishClosesAll
<1>1. OInv => FinishClosesAll
  BY DEF OInv, Order
<1> QED
  BY <1>1, OrderlySpec, PTL

-----------------------------------------------------------------------------
(* What a step may never do.                                               *)

\* The steps that open or close a client's descriptor.
LEMMA WhoOpensOrCloses ==
  ASSUME OInv, Next
  PROVE  \/ UNCHANGED sock
         \/ AcceptOk \/ CleanupExpired \/ HandleHangUp \/ ServeAndClose \/ Finish
<1>1. ~ HandleError /\ ~ ParseFails /\ ~ Dies
  BY NothingBreaks DEF OInv
<1>2. CASE Environment
  BY <1>2 DEF Environment, Connect, Send, SendRest, HangUp, Reset, Vanish, Tick,
              Signal, kernel
<1>3. CASE Poll \/ CleanupSkips \/ EpollWait \/ EpollInterrupted \/ PollReturns
             \/ ServeAndKeep
  BY <1>3 DEF Poll, CleanupSkips, EpollWait, EpollInterrupted, PollReturns,
              ServeAndKeep, kernel
<1>4. CASE RefuseWith503 \/ RefuseNobody \/ AcceptWouldBlock \/ AcceptFatal
             \/ AcceptSetupFails
  BY <1>4 DEF RefuseWith503, RefuseNobody, AcceptWouldBlock, AcceptFatal,
              AcceptSetupFails, DropHead, kernel
<1> QED
  BY <1>1, <1>2, <1>3, <1>4 DEF Next, Loop

\* At capacity every slot has a connection.
LEMMA FullMeansFull ==
  ASSUME OInv, ~HasRoom(pool)
  PROVE  Cardinality(Active(pool)) = MaxConns
  BY ExactFull, SlotsFinite DEF OInv, Inv, Pooling, Order, Exact

LEMMA BusyStep ==
  ASSUME OInv, Next, NEW c \in Clients, answer[c] # "503", answer'[c] = "503"
  PROVE  Cardinality(Active(pool)) = MaxConns
<1>1. RefuseWith503
  <2>1. answer \in [Clients -> {"none", "reply", "500", "503"}]
    BY DEF OInv, Inv, Programming
  <2>2. ~ (UNCHANGED answer)
    OBVIOUS
  <2>3. \A f, a : SendTo(f, a) => a = "503"
    BY DEF SendTo
  <2>4. ~ Environment
    <3>1. \A x \in Clients : answer' # [answer EXCEPT ![x] = "none"]
      BY <2>1
    <3> QED
      BY <2>2, <3>1
      DEF Environment, Connect, Send, SendRest, HangUp, Reset, Vanish, Tick,
          Signal, clients
  <2>5. ~ (HandleError \/ ServeAndKeep \/ ServeAndClose \/ ParseFails)
    BY <2>3 DEF HandleError, ServeAndKeep, ServeAndClose, ParseFails
  <2> QED
    BY <2>2, <2>4, <2>5
    DEF Next, Loop, Poll, CleanupExpired, CleanupSkips, EpollWait,
        EpollInterrupted, PollReturns, RefuseNobody, AcceptOk, AcceptWouldBlock,
        AcceptFatal, AcceptSetupFails, HandleHangUp, Dies, Finish, clients
<1> QED
  BY <1>1, FullMeansFull DEF RefuseWith503

\* When no peer resets and no request is split or too long, a client is told
\* "503" only by a server all of whose slots have a connection.
THEOREM OrderlyBusy == Orderly /\ Spec => BusyOnlyWhenFull
<1>1. OInv /\ [Next]_vars =>
        [\A c \in Clients : answer[c] # "503" /\ answer'[c] = "503"
           => Cardinality(Active(pool)) = MaxConns]_vars
  BY BusyStep
<1> QED
  BY <1>1, OrderlySpec, PTL DEF Spec, BusyOnlyWhenFull

LEMMA DropStep ==
  ASSUME OInv, Next, NEW c \in Clients, IsOpen(c), ~IsOpen(c)'
  PROVE  \/ peer[c] # "up"
         \/ exit_flag
         \/ inbox[c] # "empty" /\ answer'[c] # "none"
         \/ \E s \in Slots : /\ \/ pool.idle[s] > ConnTimeout
                                \/ pool.age[s] > ConnMaxAge
                             /\ pool.fd[s] \in Fds /\ sock[pool.fd[s]] = c
<1>1. PICK f \in Fds : sock[f] = c /\ sock'[f] # c
  BY DEF IsOpen
<1>2. \A S : Close(S) => f \in S
  BY <1>1 DEF Close
<1>3. c # NULL
  BY ServerAssumption
<1>4. CASE CleanupExpired
  <2>1. f = pool.fd[scan]
    BY <1>2, <1>4 DEF CleanupExpired
  <2>2. scan \in Slots /\ (pool.idle[scan] > ConnTimeout \/ pool.age[scan] > ConnMaxAge)
    BY <1>4 DEF CleanupExpired, Expired, OInv, Inv, Programming
  <2> QED
    BY <1>1, <2>1, <2>2
<1>5. CASE HandleHangUp
  <2>1. f = ConnFd /\ peer[sock[ConnFd]] = "fin"
    BY <1>2, <1>5, AtConnFacts DEF HandleHangUp, OInv
  <2> QED
    BY <1>1, <2>1
<1>6. CASE ServeAndClose
  <2>1. /\ f = ConnFd /\ Pending \in {"keep", "close"}
        /\ ClientsOf({ConnFd}) = {c} /\ answer'[c] = "reply"
    BY <1>1, <1>2, <1>6, AtConnFacts DEF ServeAndClose, OInv, SendTo
  <2>2. Pending = inbox[c]
    BY <1>1, <1>3, <2>1 DEF Pending
  <2> QED
    BY <2>1, <2>2
<1>7. CASE Finish
  BY <1>7 DEF Finish
<1>8. CASE AcceptOk
  <2>1. LowestFree \in Fds /\ sock[LowestFree] = NULL
    BY <1>8, LowestFreeIsFree DEF AcceptOk, FreeFds
  <2>2. sock' = [sock EXCEPT ![LowestFree] = Head(backlog)]
    BY <1>8 DEF AcceptOk
  <2>3. f # LowestFree
    BY <1>1, <1>3, <2>1
  <2>4. sock'[f] = sock[f]
    BY <2>2, <2>3 DEF OInv, Inv, Wiring
  <2> QED
    BY <1>1, <2>4
<1> QED
  BY <1>1, <1>4, <1>5, <1>6, <1>7, <1>8, WhoOpensOrCloses

\* In the same environments the server ends the connection of a client that
\* is still there only in answer to a request, for its age or idleness, or at
\* its own end: no event, error path or reused slot drops a bystander.
THEOREM OrderlyKeepsClients == Orderly /\ Spec => NoSilentDrop
<1>1. OInv /\ [Next]_vars =>
        [\A c \in Clients : IsOpen(c) /\ ~IsOpen(c)' =>
           \/ peer[c] # "up"
           \/ exit_flag
           \/ inbox[c] # "empty" /\ answer'[c] # "none"
           \/ \E s \in Slots : /\ \/ pool.idle[s] > ConnTimeout
                                 \/ pool.age[s] > ConnMaxAge
                              /\ pool.fd[s] \in Fds /\ sock[pool.fd[s]] = c]_vars
  BY DropStep
<1> QED
  BY <1>1, OrderlySpec, PTL DEF Spec, NoSilentDrop

LEMMA SlotStep ==
  ASSUME OInv, Next, NEW f \in Fds, NEW g \in Fds,
         sock[f] = NULL, sock'[f] # NULL, sock[g] # NULL
  PROVE  reg'[f] # reg[g]
<1>1. AcceptOk
  <2>1. \A S : ~ Close(S) /\ ~ CloseDown(S)
    BY DEF Close, CloseDown
  <2> QED
    BY <2>1, WhoOpensOrCloses
    DEF CleanupExpired, HandleHangUp, ServeAndClose, Finish
<1>2. /\ sock' = [sock EXCEPT ![LowestFree] = Head(backlog)]
      /\ reg' = [reg EXCEPT ![LowestFree] = NewConn]
      /\ pool.free_conns \in Slots /\ pool.state[NewConn] # "ACTIVE"
  BY <1>1, GetFreeExact
  DEF AcceptOk, CanPop, NewConn, OInv, Inv, Pooling, Order, Exact
<1>3. f = LowestFree /\ reg'[f] = NewConn
  BY <1>2 DEF OInv, Inv, Wiring
<1>4. pc # "finished"
  BY <1>1 DEF AcceptOk, CanPop, AtListener, HasEvent
<1>5. \E s \in Active(pool) : reg[g] = s
  BY <1>4 DEF OInv, Order, SlotsOwnSockets
<1> QED
  BY <1>2, <1>3, <1>5 DEF Active

\* In the same environments a new connection never gets a slot that another
\* open connection has.  (A reset, whose error path releases the slot twice,
\* breaks this.)
THEOREM OrderlySlots == Orderly /\ Spec => SlotIsUnused
<1>1. OInv /\ [Next]_vars =>
        [\A f, g \in Fds :
           sock[f] = NULL /\ sock'[f] # NULL /\ sock[g] # NULL
             => reg'[f] # reg[g]]_vars
  BY SlotStep
<1> QED
  BY <1>1, OrderlySpec, PTL DEF Spec, SlotIsUnused

-----------------------------------------------------------------------------
(* Every connection stays heard.                                           *)

\* accept never fails with anything but EAGAIN: no connection is aborted in
\* the queue, and the process may have a descriptor for each slot.
Roomy == "abort" \notin Env /\ MaxFds >= MaxConns

\* While there is a free slot there is a free descriptor: each open one has
\* a slot of its own.
LEMMA FreeSlotFreeFd ==
  ASSUME OInv, Roomy, pc # "finished", HasRoom(pool)
  PROVE  FreeFds # {}
<1> SUFFICES ASSUME FreeFds = {} PROVE FALSE
  OBVIOUS
<1> DEFINE slot == [f \in Fds |-> reg[f]]
<1>1. \A f \in Fds : reg[f] \in Active(pool) /\ pool.fd[reg[f]] = f
  BY DEF FreeFds, OInv, Order, SlotsOwnSockets
<1>2. slot \in Injection(Fds, Active(pool))
  BY <1>1 DEF Injection, IsInjective
<1>3. Cardinality(Fds) <= Cardinality(Active(pool))
  BY <1>2, ActiveFinite, FS_Injection
<1>4. Cardinality(Fds) = MaxFds
  <2>1. 5 \in Int /\ 4 + MaxFds \in Int /\ MaxFds \in Nat
    BY ServerAssumption, SMT
  <2> QED
    BY <2>1, FS_Interval, SMT DEF Fds
<1>5. Cardinality(Active(pool)) < MaxConns /\ Cardinality(Active(pool)) \in Nat
  BY ExactCount, ActiveFinite
  DEF OInv, Inv, Pooling, Order, Exact, HasRoom
<1> QED
  BY <1>3, <1>4, <1>5, PoolAssumption, ServerAssumption, SMT DEF Roomy

\* The events behind the head of the batch are still in it.
LEMMA TailHears ==
  ASSUME Batching, HasEvent, NextEvent, NEW f, f # Head(batch).fd,
         \E i \in 1 .. Len(batch) : batch[i].fd = f
  PROVE  \E i \in 1 .. Len(batch') : batch'[i].fd = f
<1>1. PICK i \in 1 .. Len(batch) : batch[i].fd = f
  OBVIOUS
<1>2. batch \in Seq(Events) /\ batch # <<>> /\ batch' = Tail(batch)
  BY DEF Batching, HasEvent, NextEvent
<1>3. i # 1
  BY <1>1, <1>2, SMT
<1>4. i - 1 \in 1 .. Len(batch') /\ batch'[i - 1] = batch[i]
  BY <1>2, <1>3, SMT
<1> QED
  BY <1>1, <1>4

Heard(f) == f \in armed \/ \E i \in 1 .. Len(batch) : batch[i].fd = f

HInv == OInv /\ Roomy /\ NoneIsDeaf

LEMMA HearInit == Orderly /\ Roomy /\ Init => HInv
<1> SUFFICES ASSUME Orderly, Roomy, Init PROVE HInv
  OBVIOUS
<1>1. NoneIsDeaf
  BY SMT DEF Init, NoneIsDeaf
<1> QED
  BY <1>1, OrderlyInit DEF HInv

\* Only the handling of an event for f makes f neither armed nor reported,
\* and it closes f or arms it again.
LEMMA HearStep == HInv /\ [Next]_vars => HInv'
<1> SUFFICES ASSUME HInv, [Next]_vars PROVE NoneIsDeaf'
  BY OrderlyNext DEF HInv, Roomy
<1>0. OInv /\ Roomy /\ NoneIsDeaf /\ Inv /\ Batching /\ Wiring /\ Current
  BY DEF HInv, OInv, Inv, Order
<1>1. ASSUME UNCHANGED <<batch, sock>>, armed' = armed,
             pc \notin {"finished", "dead"} \/ pc' = pc
      PROVE  NoneIsDeaf'
  BY <1>0, <1>1 DEF NoneIsDeaf, Running
<1>2. ASSUME HasEvent, NextEvent,
             \A f \in Fds : sock'[f] # NULL /\ f # Head(batch).fd =>
               f \in armed' \/ (sock[f] # NULL /\ (f \in armed => f \in armed')),
             \A f \in Fds : sock'[f] # NULL /\ f = Head(batch).fd => f \in armed'
      PROVE  NoneIsDeaf'
  <2> SUFFICES ASSUME NEW f \in Fds, sock'[f] # NULL
               PROVE  Heard(f)'
    BY DEF NoneIsDeaf, Heard
  <2>1. CASE f \in armed'
    BY <2>1 DEF Heard
  <2>2. CASE f # Head(batch).fd /\ sock[f] # NULL /\ f \notin armed
    <3>1. Running
      BY <1>2 DEF HasEvent, Running
    <3>2. \E i \in 1 .. Len(batch) : batch[i].fd = f
      BY <1>0, <2>2, <3>1 DEF NoneIsDeaf
    <3> QED
      BY <1>0, <1>2, <2>2, <3>2, TailHears DEF Heard
  <2> QED
    BY <1>2, <2>1, <2>2
<1>3. CASE Environment
  BY <1>1, <1>3 DEF Environment, Connect, Send, SendRest, HangUp, Reset, Vanish,
                    Tick, Signal, kernel, program
<1>4. CASE UNCHANGED vars
  BY <1>1, <1>4 DEF vars, program, kernel
<1>5. CASE Poll \/ CleanupSkips \/ EpollInterrupted \/ PollReturns
  BY <1>1, <1>5 DEF Poll, CleanupSkips, EpollInterrupted, PollReturns, kernel
<1>6. CASE CleanupExpired
  <2>1. /\ UNCHANGED batch /\ Running
        /\ \A f \in Fds : sock'[f] # NULL =>
             sock[f] # NULL /\ (f \in armed => f \in armed')
    BY <1>6 DEF CleanupExpired, Close, Running
  <2> QED
    BY <1>0, <2>1 DEF NoneIsDeaf
<1>7. CASE EpollWait
  <2>1. PICK n \in 0 .. MaxEvents : \E b \in [1 .. n -> Ready] :
          batch' = b /\ armed' = armed \ {b[i].fd : i \in 1 .. n}
    BY <1>7 DEF EpollWait
  <2>2. PICK b \in [1 .. n -> Ready] :
          batch' = b /\ armed' = armed \ {b[i].fd : i \in 1 .. n}
    BY <2>1
  <2>3. Len(batch') = n
    <3>1. b \in Seq(Events)
      <4>1. b \in [1 .. n -> Events] /\ n \in Nat
        BY <1>0, ReadyEvents, ServerAssumption, SMT DEF Inv
      <4> QED
        BY <4>1, SeqDef, SMT
    <3> QED
      BY <2>2, <3>1, LenProperties, ServerAssumption, SMT
  <2>4. UNCHANGED sock /\ Running /\ \A i \in 1 .. Len(batch) : FALSE
    <3>1. pc = "wait" /\ batch = <<>>
      BY <1>0, <1>7 DEF EpollWait, Current
    <3> QED
      BY <1>7, <3>1, SMT DEF EpollWait, Running
  <2>5. \A f \in Fds : sock[f] # NULL => f \in armed
    BY <1>0, <2>4 DEF NoneIsDeaf
  <2>6. \A f \in armed : f \in armed' \/ \E i \in 1 .. n : batch'[i].fd = f
    BY <2>2
  <2> QED
    BY <2>3, <2>4, <2>5, <2>6 DEF NoneIsDeaf
<1>8. CASE RefuseWith503 \/ RefuseNobody \/ AcceptWouldBlock \/ AcceptSetupFails
  <2>1. /\ HasEvent /\ NextEvent /\ UNCHANGED <<sock, armed>>
        /\ Head(batch).fd = ListenFd
    BY <1>8 DEF RefuseWith503, RefuseNobody, AcceptWouldBlock, AcceptSetupFails,
                CanPop, AtListener, DropHead, kernel
  <2>2. ListenFd \notin Fds
    BY ServerAssumption, SMT DEF ListenFd, Fds
  <2> QED
    BY <1>2, <2>1, <2>2
<1>9. CASE AcceptOk
  <2>1. /\ HasEvent /\ NextEvent /\ Head(batch).fd = ListenFd
        /\ sock' = [sock EXCEPT ![LowestFree] = Head(backlog)]
        /\ armed' = armed \cup {LowestFree}
    BY <1>9 DEF AcceptOk, CanPop, AtListener
  <2>2. ListenFd \notin Fds
    BY ServerAssumption, SMT DEF ListenFd, Fds
  <2>3. \A f \in Fds : f \in armed' \/ (sock'[f] = sock[f] /\ (f \in armed => f \in armed'))
    BY <1>0, <2>1 DEF Wiring
  <2> QED
    BY <1>2, <2>1, <2>2, <2>3
<1>10. ~ AcceptFatal
  BY <1>0, FreeSlotFreeFd DEF AcceptFatal, CanPop, AtListener, HasEvent, Roomy
<1>11. CASE HandleHangUp \/ ServeAndClose
  <2>1. HasEvent /\ NextEvent /\ Close({ConnFd}) /\ ConnFd = Head(batch).fd
    BY <1>0, <1>11, AtConnFacts DEF OInv, HandleHangUp, ServeAndClose
  <2>2. \A f \in Fds : sock'[f] # NULL =>
          /\ f # Head(batch).fd /\ sock[f] # NULL
          /\ f \in armed => f \in armed'
    BY <2>1 DEF Close
  <2> QED
    BY <1>2, <2>1, <2>2
<1>12. CASE ServeAndKeep
  <2>1. /\ HasEvent /\ NextEvent /\ ConnFd = Head(batch).fd
        /\ UNCHANGED sock /\ armed' = armed \cup {ConnFd}
    BY <1>0, <1>12, AtConnFacts DEF OInv, ServeAndKeep
  <2> QED
    BY <1>2, <2>1
<1>13. CASE Finish
  BY <1>13 DEF Finish, NoneIsDeaf, Running
<1>14. ~ HandleError /\ ~ ParseFails /\ ~ Dies
  BY NothingBreaks DEF OInv, HInv
<1> QED
  BY <1>3, <1>4, <1>5, <1>6, <1>7, <1>8, <1>9, <1>10, <1>11, <1>12, <1>13, <1>14
  DEF Next, Loop

\* When besides no accept is aborted and descriptors do not run out, no open
\* connection is ever lost from sight: epoll has it armed or its event is in
\* the batch, although EPOLLONESHOT disarms it at each event.
THEOREM OrderlyHears == Orderly /\ Roomy /\ Spec => []NoneIsDeaf
<1>1. HInv => NoneIsDeaf
  BY DEF HInv
<1> QED
  BY <1>1, HearInit, HearStep, PTL DEF Spec

-----------------------------------------------------------------------------
(* The loop implements Sessions.                                           *)

Inside == {c \in Clients : IsOpen(c)}
Turned == {c \in Clients : answer[c] = "503"}

\* The abstract specification counts as this module does.
LEMMA SameCount == \A S : Promise!Cardinality(S) = Cardinality(S)
  BY DEF Promise!Cardinality, Cardinality

\* The i-th element taken out of a sequence, in the words of the two modules.
LEMMA WithoutOne ==
  ASSUME NEW S, NEW q \in Seq(S), NEW k \in 1 .. Len(q)
  PROVE  SubSeq(q, 1, k - 1) \o SubSeq(q, k + 1, Len(q))
           = [j \in 1 .. Len(q) - 1 |-> q[IF j < k THEN j ELSE j + 1]]
<1> DEFINE a == SubSeq(q, 1, k - 1)
           b == SubSeq(q, k + 1, Len(q))
           t == [j \in 1 .. Len(q) - 1 |-> q[IF j < k THEN j ELSE j + 1]]
<1>1. Len(q) \in Nat /\ k \in Nat /\ k >= 1 /\ k <= Len(q)
  BY SMT
<1>2. \A i \in 1 .. Len(q) : q[i] \in S
  BY SMT
<1>3. /\ a \in Seq(S) /\ Len(a) = k - 1
      /\ \A i \in 1 .. k - 1 : a[i] = q[i]
  <2>1. \A i \in 1 .. k - 1 : q[i] \in S
    BY <1>1, <1>2, SMT
  <2>2. 1 \in Int /\ k - 1 \in Int
    BY <1>1, SMT
  <2>3. /\ a \in Seq(S)
        /\ Len(a) = IF 1 <= k - 1 THEN (k - 1) - 1 + 1 ELSE 0
        /\ \A i \in 1 .. (k - 1) - 1 + 1 : a[i] = q[1 + i - 1]
    BY <2>1, <2>2, SubSeqProperties
  <2> QED
    BY <1>1, <2>3, SMT
<1>4. /\ b \in Seq(S) /\ Len(b) = Len(q) - k
      /\ \A i \in 1 .. Len(q) - k : b[i] = q[k + i]
  <2>1. \A i \in k + 1 .. Len(q) : q[i] \in S
    BY <1>1, <1>2, SMT
  <2>2. k + 1 \in Int /\ Len(q) \in Int
    BY <1>1, SMT
  <2>3. /\ b \in Seq(S)
        /\ Len(b) = IF k + 1 <= Len(q) THEN Len(q) - (k + 1) + 1 ELSE 0
        /\ \A i \in 1 .. Len(q) - (k + 1) + 1 : b[i] = q[(k + 1) + i - 1]
    BY <2>1, <2>2, SubSeqProperties
  <2> QED
    BY <1>1, <2>3, SMT
<1> HIDE DEF a, b
<1>5. /\ a \o b \in Seq(S) /\ Len(a \o b) = Len(q) - 1
      /\ \A i \in 1 .. Len(q) - 1 :
           (a \o b)[i] = IF i <= k - 1 THEN a[i] ELSE b[i - (k - 1)]
  <2>1. /\ a \o b \in Seq(S)
        /\ Len(a \o b) = Len(a) + Len(b)
        /\ \A i \in 1 .. Len(a) + Len(b) :
             (a \o b)[i] = IF i <= Len(a) THEN a[i] ELSE b[i - Len(a)]
    BY <1>3, <1>4, ConcatProperties
  <2>2. Len(a) + Len(b) = Len(q) - 1
    BY <1>1, <1>3, <1>4, SMT
  <2> QED
    BY <1>3, <2>1, <2>2
<1>6. \A i \in 1 .. Len(q) - 1 : (a \o b)[i] = q[IF i < k THEN i ELSE i + 1]
  <2> SUFFICES ASSUME NEW i \in 1 .. Len(q) - 1
               PROVE  (a \o b)[i] = q[IF i < k THEN i ELSE i + 1]
    OBVIOUS
  <2>1. CASE i < k
    BY <1>1, <1>3, <1>5, <2>1, SMT
  <2>2. CASE ~ (i < k)
    <3>1. /\ ~ (i <= k - 1) /\ i - (k - 1) \in 1 .. Len(q) - k
          /\ k + (i - (k - 1)) = i + 1
      BY <1>1, <2>2, SMT
    <3> QED
      BY <1>4, <1>5, <2>2, <3>1
  <2> QED
    BY <2>1, <2>2
<1>7. t \in Seq(S) /\ Len(t) = Len(q) - 1
      /\ \A i \in 1 .. Len(q) - 1 : t[i] = q[IF i < k THEN i ELSE i + 1]
  <2>1. \A j \in 1 .. Len(q) - 1 : q[IF j < k THEN j ELSE j + 1] \in S
    BY <1>1, <1>2, SMT
  <2>2. t \in [1 .. Len(q) - 1 -> S] /\ Len(q) - 1 \in Nat
    BY <1>1, <2>1, SMT
  <2> QED
    BY <2>2, SeqDef, SMT
<1> HIDE DEF t
<1>8. a \o b = t
  BY <1>5, <1>6, <1>7, SeqEqual
<1> QED
  BY <1>8 DEF a, b, t

\* The head taken out of a sequence.
LEMMA WithoutHead ==
  ASSUME NEW S, NEW q \in Seq(S), q # <<>>
  PROVE  /\ 1 \in 1 .. Len(q)
         /\ Tail(q) = SubSeq(q, 1, 1 - 1) \o SubSeq(q, 1 + 1, Len(q))
<1>1. Len(q) \in Nat /\ 1 \in 1 .. Len(q)
  BY SMT
<1>2. SubSeq(q, 1, 1 - 1) \o SubSeq(q, 1 + 1, Len(q))
        = [j \in 1 .. Len(q) - 1 |-> q[IF j < 1 THEN j ELSE j + 1]]
  BY <1>1, WithoutOne
<1>3. Tail(q) = [j \in 1 .. Len(q) - 1 |-> q[j + 1]]
  <2> DEFINE t == [j \in 1 .. Len(q) - 1 |-> q[j + 1]]
  <2>1. \A j \in 1 .. Len(q) - 1 : q[j + 1] \in S
    BY <1>1, SMT
  <2>2. t \in [1 .. Len(q) - 1 -> S] /\ Len(q) - 1 \in Nat
    BY <1>1, <2>1, SMT
  <2>3. /\ t \in Seq(S) /\ Len(t) = Len(q) - 1
        /\ \A j \in 1 .. Len(q) - 1 : t[j] = q[j + 1]
    BY <2>2, SeqDef, SMT
  <2> HIDE DEF t
  <2>4. Tail(q) = t
    BY <2>3, HeadTailProperties, SeqEqual
  <2> QED
    BY <2>4 DEF t
<1>4. \A j \in 1 .. Len(q) - 1 : ~ (j < 1)
  BY <1>1, SMT
<1> QED
  BY <1>1, <1>2, <1>3, <1>4

\* Who is inside has a slot, and each slot somebody inside.
LEMMA InsideCount ==
  ASSUME OInv, pc # "finished"
  PROVE  Cardinality(Inside) = Cardinality(Active(pool))
<1> DEFINE client == [s \in Active(pool) |-> sock[pool.fd[s]]]
<1>1. /\ \A s \in Active(pool) :
           /\ pool.fd[s] \in Fds /\ reg[pool.fd[s]] = s
           /\ sock[pool.fd[s]] \in Clients /\ sock[pool.fd[s]] # NULL
      /\ \A f \in Fds : sock[f] # NULL => \E s \in Active(pool) : pool.fd[s] = f
  BY DEF OInv, Inv, Wiring, Order, SlotsOwnSockets
<1>2. \A s, r \in Active(pool) : sock[pool.fd[s]] = sock[pool.fd[r]] => s = r
  BY <1>1 DEF OInv, Inv, Wiring
<1>3. \A s \in Active(pool) : client[s] \in Inside
  BY <1>1 DEF Inside, IsOpen
<1>4. \A c \in Inside : \E s \in Active(pool) : client[s] = c
  BY <1>1, ServerAssumption DEF Inside, IsOpen
<1>5. client \in Bijection(Active(pool), Inside)
  BY <1>2, <1>3, <1>4 DEF Bijection, Injection, IsInjective, Surjection
<1> QED
  BY <1>5, ActiveFinite, FS_Bijection DEF ExistsBijection

LEMMA PromiseInit == Init => Promise!Init
<1> SUFFICES ASSUME Init PROVE Promise!Init
  OBVIOUS
<1>1. Inside = {}
  BY ServerAssumption DEF Init, Inside, IsOpen
<1>2. Turned = {}
  BY DEF Init, Turned
<1> QED
  BY <1>1, <1>2 DEF Init, Promise!Init, Inside, Turned

\* Each step of the loop and of its environment is one step of Sessions, or
\* changes nothing of what Sessions speaks of.
LEMMA PromiseStep ==
  OInv /\ OInv' /\ [Next]_vars => [Promise!Next]_<<backlog, Inside, Turned>>
<1> SUFFICES ASSUME OInv, OInv', [Next]_vars
             PROVE  [Promise!Next]_<<backlog, Inside, Turned>>
  OBVIOUS
<1>0. /\ Inv /\ Order /\ Wiring /\ Calm
      /\ backlog \in Seq(Clients)
      /\ sock \in [Fds -> Clients \cup {NULL}] /\ NULL \notin Clients
      /\ answer \in [Clients -> {"none", "reply", "500", "503"}]
  BY ServerAssumption DEF OInv, Inv, Order, Wiring, Programming
<1>1. ASSUME UNCHANGED sock
      PROVE  Inside' = Inside
  BY <1>1 DEF Inside, IsOpen
<1>2. ASSUME UNCHANGED answer
      PROVE  Turned' = Turned
  BY <1>2 DEF Turned
<1>3. ASSUME NEW f \in Fds, sock[f] # NULL
      PROVE  sock[f] \in Inside /\ sock[f] \notin Turned
  BY <1>0, <1>3 DEF Inside, IsOpen, Turned, Calm, Wiring
<1>4. ASSUME NEW f \in Fds, SendTo(f, "reply")
      PROVE  Turned' = Turned
  <2>1. ClientsOf({f}) \cap Turned = {}
    BY <1>0, <1>3 DEF ClientsOf
  <2> QED
    BY <1>4, <2>1 DEF SendTo, Turned
<1>5. ASSUME NEW f \in Fds, sock[f] # NULL, Close({f}), UNCHANGED backlog,
             Turned' = Turned
      PROVE  Promise!Next
  <2>1. sock[f] \in Clients
    BY <1>0, <1>5
  <2>2. Inside' = Inside \ {sock[f]}
    <3>1. \A g \in Fds : /\ g = f => sock'[g] = NULL
                         /\ g # f => sock'[g] = sock[g] /\ (sock[g] # sock[f])
      BY <1>0, <1>5 DEF Close, Wiring
    <3> QED
      BY <1>0, <2>1, <3>1 DEF Inside, IsOpen
  <2>3. Promise!Leave(sock[f])
    BY <1>3, <1>5, <2>2 DEF Promise!Leave, Inside, Turned
  <2> QED
    BY <2>1, <2>3 DEF Promise!Next
<1>6. ASSUME backlog # <<>>, backlog' = Tail(backlog), UNCHANGED <<sock, answer>>
      PROVE  Promise!Next
  <2>1. /\ 1 \in 1 .. Len(backlog)
        /\ backlog' = SubSeq(backlog, 1, 1 - 1) \o SubSeq(backlog, 1 + 1, Len(backlog))
    BY <1>0, <1>6, WithoutHead
  <2>2. Promise!Lose
    BY <1>1, <1>2, <1>6, <2>1 DEF Promise!Lose, Inside, Turned
  <2> QED
    BY <2>2 DEF Promise!Next
<1>7. CASE \/ UNCHANGED vars \/ Tick \/ Signal \/ Poll \/ CleanupSkips \/ EpollWait
           \/ EpollInterrupted \/ PollReturns \/ AcceptWouldBlock
           \/ \E c \in Clients : HangUp(c) \/ Reset(c) \/ SendRest(c)
  <2>1. UNCHANGED <<backlog, sock, answer>>
    BY <1>7 DEF vars, kernel, clients, Tick, Signal, Poll, CleanupSkips, EpollWait,
      EpollInterrupted, PollReturns, AcceptWouldBlock, HangUp, Reset, SendRest
  <2> QED
    BY <1>1, <1>2, <2>1
<1>8. ASSUME NEW c \in Clients, Send(c)
      PROVE  UNCHANGED <<backlog, Inside, Turned>>
  <2>1. /\ UNCHANGED <<backlog, sock>> /\ peer[c] = "up"
        /\ answer' = [answer EXCEPT ![c] = "none"]
    BY <1>8 DEF Send, kernel
  <2>2. c \notin Turned
    BY <1>0, <2>1 DEF Turned, Calm, Alive
  <2>3. Turned' = Turned
    BY <1>0, <2>1, <2>2 DEF Turned
  <2> QED
    BY <1>1, <2>1, <2>3
<1>9. ASSUME NEW c \in Clients, Connect(c)
      PROVE  Promise!Next
  <2>1. /\ backlog' = Append(backlog, c) /\ UNCHANGED sock
        /\ answer' = [answer EXCEPT ![c] = "none"]
        /\ peer[c] \notin Alive
    BY <1>9 DEF Connect, Alive
  <2>2. c \notin Inside /\ \A i \in 1 .. Len(backlog) : backlog[i] # c
    BY <1>0, <2>1 DEF Inside, IsOpen, Wiring
  <2>3. Turned' = Turned \ {c}
    BY <1>0, <2>1 DEF Turned
  <2>4. Promise!Come(c)
    BY <1>1, <2>1, <2>2, <2>3
    DEF Promise!Come, Promise!Waits, Inside, Turned
  <2> QED
    BY <2>4 DEF Promise!Next
<1>10. ASSUME NEW c \in Clients, Vanish(c)
       PROVE  Promise!Next
  <2>1. PICK i \in 1 .. Len(backlog) :
          backlog' = [j \in 1 .. Len(backlog) - 1 |->
                        backlog[IF j < i THEN j ELSE j + 1]]
    BY <1>10 DEF Vanish
  <2>2. backlog' = SubSeq(backlog, 1, i - 1) \o SubSeq(backlog, i + 1, Len(backlog))
    BY <1>0, <2>1, WithoutOne
  <2>3. UNCHANGED <<sock, answer>>
    BY <1>10 DEF Vanish
  <2>4. Promise!Lose
    BY <1>1, <1>2, <2>2, <2>3 DEF Promise!Lose, Inside, Turned
  <2> QED
    BY <2>4 DEF Promise!Next
<1>11. CASE CleanupExpired
  <2>1. /\ scan \in Active(pool) /\ pc # "finished"
        /\ Close({pool.fd[scan]}) /\ UNCHANGED <<backlog, answer>>
    BY <1>0, <1>11 DEF CleanupExpired, Expired, Active, Inv, Programming
  <2>2. pool.fd[scan] \in Fds /\ sock[pool.fd[scan]] # NULL
    BY <1>0, <2>1 DEF Order, SlotsOwnSockets
  <2> QED
    BY <1>2, <1>5, <2>1, <2>2
<1>12. CASE RefuseWith503
  <2>1. /\ backlog # <<>> /\ backlog' = Tail(backlog) /\ UNCHANGED sock
        /\ answer' = [answer EXCEPT ![Head(backlog)] = "503"]
        /\ ~HasRoom(pool) /\ pc # "finished"
    BY <1>12 DEF RefuseWith503, DropHead, AtListener, HasEvent
  <2>2. Head(backlog) \in Clients
    BY <1>0, <2>1, HeadTailProperties
  <2>3. Turned' = Turned \cup {Head(backlog)}
    BY <1>0, <2>1, <2>2 DEF Turned
  <2>4. Cardinality(Inside) = MaxConns
    BY <2>1, FullMeansFull, InsideCount
  <2>5. Promise!TurnAway
    BY <1>1, <2>1, <2>3, <2>4, SameCount DEF Promise!TurnAway, Inside, Turned
  <2> QED
    BY <2>5 DEF Promise!Next
<1>13. CASE RefuseNobody \/ AcceptFatal \/ AcceptSetupFails
  <2>1. \/ UNCHANGED <<backlog, sock, answer>>
        \/ backlog # <<>> /\ backlog' = Tail(backlog) /\ UNCHANGED <<sock, answer>>
    BY <1>13 DEF RefuseNobody, AcceptFatal, AcceptSetupFails, DropHead, kernel
  <2> QED
    BY <1>1, <1>2, <1>6, <2>1
<1>14. CASE AcceptOk
  <2>1. /\ backlog # <<>> /\ backlog' = Tail(backlog) /\ UNCHANGED answer
        /\ sock' = [sock EXCEPT ![LowestFree] = Head(backlog)]
        /\ HasRoom(pool) /\ pc # "finished" /\ FreeFds # {}
    BY <1>14 DEF AcceptOk, CanPop, AtListener, HasEvent, clients
  <2>2. LowestFree \in Fds /\ sock[LowestFree] = NULL
    BY <2>1, LowestFreeIsFree DEF FreeFds
  <2>3. Head(backlog) \in Clients
    BY <1>0, <2>1, HeadTailProperties
  <2>4. Inside' = Inside \cup {Head(backlog)}
    BY <1>0, <2>1, <2>2, <2>3 DEF Inside, IsOpen
  <2>5. Cardinality(Inside) < MaxConns
    BY <2>1, InsideCount, ExactCount
    DEF OInv, Inv, Pooling, Order, Exact, HasRoom
  <2>6. Promise!LetIn
    BY <1>2, <2>1, <2>4, <2>5, SameCount DEF Promise!LetIn, Inside, Turned
  <2> QED
    BY <2>6 DEF Promise!Next
<1>15. CASE HandleHangUp \/ ServeAndClose
  <2>1. /\ ConnFd \in Fds /\ sock[ConnFd] # NULL
        /\ Close({ConnFd}) /\ UNCHANGED backlog
    BY <1>0, <1>15, AtConnFacts DEF HandleHangUp, ServeAndClose
  <2>2. Turned' = Turned
    BY <1>2, <1>4, <1>15, <2>1 DEF HandleHangUp, ServeAndClose
  <2> QED
    BY <1>5, <2>1, <2>2
<1>16. CASE ServeAndKeep
  <2>1. ConnFd \in Fds /\ SendTo(ConnFd, "reply") /\ UNCHANGED <<backlog, sock>>
    BY <1>0, <1>16, AtConnFacts DEF ServeAndKeep
  <2> QED
    BY <1>1, <1>4, <2>1
<1>17. CASE Finish
  <2>1. backlog' = <<>> /\ UNCHANGED answer /\ pc' = "finished"
    BY <1>17 DEF Finish, CloseDown
  <2>2. Inside' = {}
    BY <1>0, <2>1 DEF Inside, IsOpen, OInv, Order, FinishClosesAll
  <2>3. Promise!Close
    BY <1>2, <2>1, <2>2 DEF Promise!Close, Inside, Turned
  <2> QED
    BY <2>3 DEF Promise!Next
<1>18. ~ HandleError /\ ~ ParseFails /\ ~ Dies
  BY <1>0, NothingBreaks
<1> QED
  BY <1>7, <1>8, <1>9, <1>10, <1>11, <1>12, <1>13, <1>14, <1>15, <1>16, <1>17, <1>18
  DEF Next, Environment, Loop

\* When no peer resets and no request is split or too long, the loop keeps
\* the promise of Sessions to any number of clients: first come, first let in,
\* never more than max_conn_count, 503 to the first of the queue and only when
\* that many are in, and whoever was let in leaves alone or at the end.
THEOREM OrderlySessions == Orderly /\ Spec => KeepsPromise
<1>1. Spec => Promise!Init
  BY PromiseInit DEF Spec
<1>2. Orderly /\ Spec => [][Promise!Next]_<<backlog, Inside, Turned>>
  BY OrderlySpec, PromiseStep, PTL DEF Spec
<1> QED
  BY <1>1, <1>2, PTL DEF KeepsPromise, Promise!Spec, Inside, Turned
=============================================================================
