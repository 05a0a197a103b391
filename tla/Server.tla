------------------------------- MODULE Server -------------------------------
(***************************************************************************)
(* The event loop of sculpt_conn.c (sc_mgr_poll and what it calls) driven  *)
(* by the loop of app.c, with the kernel objects it works on and the       *)
(* clients at the other end.                                               *)
(*                                                                         *)
(* The program is one thread.  Its steps are: the test of the exit flag,   *)
(* one iteration of sc_mgr_conns_cleanup, epoll_wait, the handling of one  *)
(* event of the batch, the return from sc_mgr_poll.  Clients and the clock *)
(* move between any two of them.  What is in a request, and which endpoint *)
(* it selects, is reduced to how parse_all_headers ends (see Requests).    *)
(***************************************************************************)
EXTENDS ConnPool, Sequences

CONSTANTS
  Clients,    \* the peers, each with one connection at a time
  MaxFds,     \* how many descriptors the process may have for clients
  MaxEvents,  \* mgr->max_events, the most epoll_wait returns
  Env         \* which of EnvEvents this environment is capable of

\* reset:     a peer resets its connection, which epoll reports as EPOLLERR
\* split:     a request arrives in two segments, or with bytes after it
\* oversized: a request in which SC_MAX_HEADER_ERROR_COUNT header lines
\*            in a row do not fit HEADER_BUF_SIZE
\* vanish:    the kernel drops a connection nobody has accepted yet
\* abort:     accept fails with ECONNABORTED, or for want of a resource that
\*            is not the process's own (ENFILE, ENOBUFS, ENOMEM)
\* setup:     fcntl or epoll_ctl fails for a descriptor that is open
\* signal:    SIGINT or SIGTERM
\* reconnect: a peer whose connection ended may connect again
EnvEvents == {"reset", "split", "oversized", "vanish", "abort", "setup",
              "signal", "reconnect"}

ASSUME ServerAssumption ==
  /\ MaxFds \in Nat
  /\ MaxEvents \in Nat \ {0}
  /\ Env \subseteq EnvEvents
  /\ NULL \notin Clients

ListenFd == 3           \* the first descriptor after the standard three
Fds == 5 .. 4 + MaxFds  \* 4 is the epoll descriptor

\* What is in the receive buffer of a connection.
\*   keep, close: at least a request line, then header lines, with or
\*                without "Connection: keep-alive" among them
\*   garbage:     bytes that are not a whole request line
\*   oversized:   see Env
Requests ==
  {"keep", "close"} \cup (IF "split" \in Env THEN {"garbage"} ELSE {})
                    \cup (Env \cap {"oversized"})

Bytes == {"keep", "close", "garbage", "oversized", "empty"}

VARIABLES
  pc,         \* where the program is
  scan,       \* the index of the loop of sc_mgr_conns_cleanup
  batch,      \* the events of mgr->events still to be handled
  pool,       \* the pool fields of mgr
  exit_flag,  \* s_exit_flag of app.c
  backlog,    \* the listening socket's queue of connections
  sock,       \* which client a descriptor is connected to
  reg,        \* epoll: the data.ptr registered with a descriptor
  armed,      \* epoll: the descriptors EPOLLONESHOT has not disabled
  peer,       \* how a client's end of its connection is
  inbox,      \* the unread bytes of a client's connection
  answer      \* what the server last sent to a client

program == <<pc, scan, batch, pool, exit_flag>>
kernel == <<backlog, sock, reg, armed>>
clients == <<peer, inbox, answer>>
vars == <<program, kernel, clients>>

\* An event names the descriptor it is for, as the kernel knows it; the
\* program sees that name only for the listening socket (data.fd), and for
\* a connection the pointer that was registered (data.ptr).
Events == [fd : Fds \cup {ListenFd}, ptr : Slots \cup {NULL},
           flag : {"in", "hup", "err"}]

TypeOK ==
  /\ pc \in {"app", "cleanup", "wait", "events", "finished", "dead"}
  /\ scan \in Slots
  /\ batch \in Seq(Events)
  /\ pool \in Pools
  /\ exit_flag \in BOOLEAN
  /\ backlog \in Seq(Clients)
  /\ sock \in [Fds -> Clients \cup {NULL}]
  /\ reg \in [Fds -> Slots \cup {NULL}]
  /\ armed \in SUBSET Fds
  /\ peer \in [Clients -> {"new", "up", "fin", "rst", "off"}]
  /\ inbox \in [Clients -> Bytes]
  /\ answer \in [Clients -> {"none", "reply", "500", "503"}]

Init ==
  /\ pc = "app" /\ scan = 0 /\ batch = <<>> /\ pool = NewPool
  /\ exit_flag = FALSE
  /\ backlog = <<>>
  /\ sock = [f \in Fds |-> NULL]
  /\ reg = [f \in Fds |-> NULL]
  /\ armed = {}
  /\ peer = [c \in Clients |-> "new"]
  /\ inbox = [c \in Clients |-> "empty"]
  /\ answer = [c \in Clients |-> "none"]

Running == pc \notin {"finished", "dead"}
IsOpen(c) == \E f \in Fds : sock[f] = c
InQueue(c) == \E i \in 1 .. Len(backlog) : backlog[i] = c

-----------------------------------------------------------------------------
(* The clients and the kernel's side of their connections.                 *)

Connect(c) ==
  /\ Running
  /\ peer[c] = "new" \/ (peer[c] = "off" /\ "reconnect" \in Env)
  /\ peer' = [peer EXCEPT ![c] = "up"]
  /\ answer' = [answer EXCEPT ![c] = "none"]
  /\ backlog' = Append(backlog, c)
  /\ UNCHANGED <<program, sock, reg, armed, inbox>>

Send(c) ==
  /\ peer[c] = "up" /\ inbox[c] = "empty"
  /\ \E r \in Requests : inbox' = [inbox EXCEPT ![c] = r]
  /\ answer' = [answer EXCEPT ![c] = "none"]
  /\ UNCHANGED <<program, kernel, peer>>

\* The segment that completes a request line nobody has read yet.
SendRest(c) ==
  /\ peer[c] = "up" /\ inbox[c] = "garbage"
  /\ \E r \in {"keep", "close"} : inbox' = [inbox EXCEPT ![c] = r]
  /\ UNCHANGED <<program, kernel, peer, answer>>

HangUp(c) ==
  /\ peer[c] = "up"
  /\ peer' = [peer EXCEPT ![c] = "fin"]
  /\ UNCHANGED <<program, kernel, inbox, answer>>

Reset(c) ==
  /\ "reset" \in Env
  /\ peer[c] \in {"up", "fin"}
  /\ peer' = [peer EXCEPT ![c] = "rst"]
  /\ UNCHANGED <<program, kernel, inbox, answer>>

Vanish(c) ==
  /\ "vanish" \in Env
  /\ \E i \in 1 .. Len(backlog) :
       /\ backlog[i] = c
       /\ backlog' = [j \in 1 .. Len(backlog) - 1 |->
                        backlog[IF j < i THEN j ELSE j + 1]]
  /\ peer' = [peer EXCEPT ![c] = "off"]
  /\ inbox' = [inbox EXCEPT ![c] = "empty"]
  /\ UNCHANGED <<program, sock, reg, armed, answer>>

\* The clock.  Not during the cleanup loop, which reads it once, before.
Tick ==
  /\ pc \in {"app", "wait", "events"}
  /\ pool' = PassTime(pool)
  /\ UNCHANGED <<pc, scan, batch, exit_flag, kernel, clients>>

\* signal_handler of app.c
Signal ==
  /\ "signal" \in Env /\ Running
  /\ exit_flag' = TRUE
  /\ UNCHANGED <<pc, scan, batch, pool, kernel, clients>>

-----------------------------------------------------------------------------
(* System calls, as parts of a step.                                       *)

\* The connections of the clients in C end: nothing they sent is read.
EndPeers(C) ==
  /\ peer' = [c \in Clients |-> IF c \in C THEN "off" ELSE peer[c]]
  /\ inbox' = [c \in Clients |-> IF c \in C THEN "empty" ELSE inbox[c]]

ClientsOf(S) == {sock[f] : f \in S \cap Fds} \ {NULL}

\* close of the descriptors in S, any number of times: a descriptor that is
\* not open is EBADF, and closing one takes it out of the epoll set, so an
\* epoll_ctl DEL before or after it changes nothing more.
Close(S) ==
  /\ sock' = [f \in Fds |-> IF f \in S THEN NULL ELSE sock[f]]
  /\ reg' = [f \in Fds |-> IF f \in S THEN NULL ELSE reg[f]]
  /\ armed' = armed \ S
  /\ EndPeers(ClientsOf(S))

\* The same, and the listening socket and the epoll descriptor with them.
CloseDown(S) ==
  /\ sock' = [f \in Fds |-> IF f \in S THEN NULL ELSE sock[f]]
  /\ reg' = [f \in Fds |-> NULL]
  /\ armed' = {}
  /\ backlog' = <<>>
  /\ EndPeers(ClientsOf(S) \cup {c \in Clients : InQueue(c)})

\* send of response a on descriptor f, which may be closed (EBADF)
SendTo(f, a) ==
  answer' = [c \in Clients |-> IF c \in ClientsOf({f}) THEN a ELSE answer[c]]

FreeFds == {f \in Fds : sock[f] = NULL}
LowestFree == CHOOSE f \in FreeFds : \A g \in FreeFds : f <= g

Flag(c) ==
  CASE peer[c] = "rst" -> "err"
    [] peer[c] = "fin" -> "hup"
    [] peer[c] = "up"  -> "in"

\* What epoll_wait could report now.
Ready ==
  {[fd |-> f, ptr |-> reg[f], flag |-> Flag(sock[f])] :
     f \in {g \in armed : peer[sock[g]] # "up" \/ inbox[sock[g]] # "empty"}}
  \cup (IF backlog = <<>> THEN {}
        ELSE {[fd |-> ListenFd, ptr |-> NULL, flag |-> "in"]})

-----------------------------------------------------------------------------
(* The loop.                                                               *)

\* while (!s_exit_flag) sc_mgr_poll(mgr, 1000);
Poll ==
  /\ pc = "app" /\ ~exit_flag
  /\ pc' = "cleanup" /\ scan' = 0
  /\ UNCHANGED <<batch, pool, exit_flag, kernel, clients>>

NextScan_PastTheEnd ==
  IF scan = MaxConns THEN pc' = "wait" /\ scan' = 0
                     ELSE scan' = scan + 1 /\ UNCHANGED pc

NextScan ==
  IF scan = MaxConns - 1 THEN pc' = "wait" /\ scan' = 0
                         ELSE scan' = scan + 1 /\ UNCHANGED pc

CleanupExpired_NoClose ==
  /\ pc = "cleanup" /\ Expired(pool, scan)
  /\ pool' = Release(pool, scan)
  /\ NextScan
  /\ UNCHANGED <<batch, exit_flag, kernel, clients>>

\* An iteration of sc_mgr_conns_cleanup that finds its connection too old.
CleanupExpired ==
  /\ pc = "cleanup" /\ Expired(pool, scan)
  /\ Close({pool.fd[scan]})
  /\ pool' = Release(pool, scan)
  /\ NextScan
  /\ UNCHANGED <<batch, exit_flag, backlog, answer>>

CleanupSkips ==
  /\ pc = "cleanup" /\ ~Expired(pool, scan)
  /\ NextScan
  /\ UNCHANGED <<batch, pool, exit_flag, kernel, clients>>

\* epoll_wait: some of what is ready, all of it if that fits, in any order;
\* nothing at all is its timeout.  Reporting a connection disarms it.
EpollWait ==
  /\ pc = "wait"
  /\ \E n \in 0 .. MaxEvents : \E b \in [1 .. n -> Ready] :
       /\ \A i, j \in 1 .. n : b[i] = b[j] => i = j
       /\ n = MaxEvents \/ \A e \in Ready : \E i \in 1 .. n : b[i] = e
       /\ batch' = b
       /\ armed' = armed \ {b[i].fd : i \in 1 .. n}
  /\ pc' = "events"
  /\ UNCHANGED <<scan, pool, exit_flag, backlog, sock, reg, clients>>

\* epoll_wait fails with EINTR, the signal having set the flag.
EpollInterrupted ==
  /\ pc = "wait" /\ exit_flag
  /\ pc' = "app"
  /\ UNCHANGED <<scan, batch, pool, exit_flag, kernel, clients>>

PollReturns ==
  /\ pc = "events" /\ batch = <<>>
  /\ pc' = "app"
  /\ UNCHANGED <<scan, batch, pool, exit_flag, kernel, clients>>

HasEvent == pc = "events" /\ batch # <<>>
NextEvent == batch' = Tail(batch) /\ UNCHANGED <<pc, scan, exit_flag>>

-----------------------------------------------------------------------------
(* create_new_connection: the listening socket is readable.                *)

AtListener == HasEvent /\ Head(batch).fd = ListenFd

\* The connection at the head of the queue ends without an event of its own.
DropHead ==
  /\ backlog' = Tail(backlog)
  /\ EndPeers({Head(backlog)})
  /\ UNCHANGED <<sock, reg, armed>>

RefuseWith503_NoAccept ==
  /\ AtListener /\ ~HasRoom(pool)
  /\ backlog # <<>> /\ FreeFds # {}
  /\ NextEvent /\ UNCHANGED <<pool, kernel, clients>>

RefuseWith503 ==
  /\ AtListener /\ ~HasRoom(pool)
  /\ backlog # <<>> /\ FreeFds # {}
  /\ DropHead
  /\ answer' = [answer EXCEPT ![Head(backlog)] = "503"]
  /\ NextEvent /\ UNCHANGED pool

\* At capacity, and accept fails: nothing is sent to anybody.
RefuseNobody ==
  /\ AtListener /\ ~HasRoom(pool)
  /\ \/ /\ backlog = <<>> \/ FreeFds = {} \/ "abort" \in Env
        /\ UNCHANGED <<kernel, peer, inbox>>
     \/ "abort" \in Env /\ backlog # <<>> /\ DropHead
  /\ NextEvent /\ UNCHANGED <<pool, answer>>

\* The slot that sc_mgr_conn_get_free takes, and the pool without it.
CanPop == AtListener /\ HasRoom(pool) /\ pool.free_conns # NULL
NewConn == pool.free_conns

AcceptOk ==
  /\ CanPop /\ backlog # <<>> /\ FreeFds # {}
  /\ pool' = [GetFree(pool) EXCEPT !.fd[NewConn] = LowestFree]
  /\ sock' = [sock EXCEPT ![LowestFree] = Head(backlog)]
  /\ reg' = [reg EXCEPT ![LowestFree] = NewConn]
  /\ armed' = armed \cup {LowestFree}
  /\ backlog' = Tail(backlog)
  /\ NextEvent /\ UNCHANGED clients

\* accept fails with EAGAIN: the connection of the event is gone.
AcceptWouldBlock ==
  /\ CanPop /\ backlog = <<>> /\ FreeFds # {}
  /\ pool' = Release(GetFree(pool), NewConn)
  /\ NextEvent /\ UNCHANGED <<kernel, clients>>

\* accept fails with anything else: EMFILE, or as Env has it.  The error is
\* returned from sc_mgr_poll at once, and app.c polls again: the rest of the
\* batch is forgotten.
AcceptFatal ==
  /\ CanPop
  /\ \/ /\ FreeFds = {} \/ "abort" \in Env
        /\ UNCHANGED <<kernel, peer, inbox>>
     \/ "abort" \in Env /\ backlog # <<>> /\ DropHead
  /\ pool' = Release(GetFree(pool), NewConn)
  /\ pc' = "app" /\ batch' = <<>>
  /\ UNCHANGED <<scan, exit_flag, answer>>

AcceptSetupFails_NoClose ==
  /\ "setup" \in Env
  /\ CanPop /\ backlog # <<>> /\ FreeFds # {}
  /\ pool' = Release([GetFree(pool) EXCEPT !.fd[NewConn] = LowestFree],
                     NewConn)
  /\ sock' = [sock EXCEPT ![LowestFree] = Head(backlog)]
  /\ backlog' = Tail(backlog)
  /\ NextEvent /\ UNCHANGED <<reg, armed, clients>>

\* fcntl or epoll_ctl ADD fails: the slot is released, then its fd closed.
AcceptSetupFails ==
  /\ "setup" \in Env
  /\ CanPop /\ backlog # <<>> /\ FreeFds # {}
  /\ pool' = Release([GetFree(pool) EXCEPT !.fd[NewConn] = LowestFree],
                     NewConn)
  /\ DropHead
  /\ NextEvent /\ UNCHANGED answer

-----------------------------------------------------------------------------
(* An event of a connection.                                               *)

AtConn(flag) ==
  HasEvent /\ Head(batch).fd # ListenFd /\ Head(batch).flag = flag
Conn == Head(batch).ptr
ConnFd == pool.fd[Conn]

\* cleanup_after_error: return_500 closes the descriptor and releases the
\* slot, and so does cleanup_after_error itself after it.
CleanedUp(p, c) == Release(Release(p, c), c)

HandleError ==
  /\ AtConn("err")
  /\ Close({ConnFd})
  /\ SendTo(ConnFd, "500")
  /\ pool' = CleanedUp(pool, Conn)
  /\ NextEvent /\ UNCHANGED backlog

HandleHangUp ==
  /\ AtConn("hup")
  /\ Close({ConnFd})
  /\ pool' = Release(pool, Conn)
  /\ NextEvent /\ UNCHANGED <<backlog, answer>>

\* What parse_all_headers finds to read; "empty" stands for every way in
\* which it gets no byte (EAGAIN, end of file, EBADF).
Pending ==
  IF ConnFd \in Fds /\ sock[ConnFd] # NULL THEN inbox[sock[ConnFd]] ELSE "empty"

ServeAndKeep_NoRearm ==
  /\ AtConn("in") /\ Pending = "keep"
  /\ SendTo(ConnFd, "reply")
  /\ inbox' = [inbox EXCEPT ![sock[ConnFd]] = "empty"]
  /\ pool' = [pool EXCEPT !.idle[Conn] = 0]
  /\ NextEvent /\ UNCHANGED <<kernel, peer>>

\* An oversized request is abandoned part of the way through.
ServeAndKeep ==
  /\ AtConn("in") /\ Pending \in {"keep", "oversized"}
  /\ SendTo(ConnFd, "reply")
  /\ \E rest \in {"empty"} \cup
                 (IF Pending = "oversized" THEN {"garbage"} ELSE {}) :
       inbox' = [inbox EXCEPT ![sock[ConnFd]] = rest]
  /\ pool' = [pool EXCEPT !.idle[Conn] = 0]
  /\ reg' = [reg EXCEPT ![ConnFd] = Conn]
  /\ armed' = armed \cup {ConnFd}
  /\ NextEvent /\ UNCHANGED <<backlog, sock, peer>>

\* No "Connection: keep-alive", or epoll_ctl MOD fails.
ServeAndClose ==
  /\ AtConn("in")
  /\ Pending \in {"close", "oversized"} \/ (Pending = "keep" /\ "setup" \in Env)
  /\ SendTo(ConnFd, "reply")
  /\ Close({ConnFd})
  /\ pool' = Release(pool, Conn)
  /\ NextEvent /\ UNCHANGED backlog

\* parse_all_headers cleans up after an unreadable request line and returns
\* an error; sc_mgr_poll frees the headers and goes on as if it had not,
\* to the release at the end, with an http_msg that was never written.
ParseFails ==
  /\ AtConn("in") /\ Pending \in {"empty", "garbage"}
  /\ SendTo(ConnFd, "500")
  /\ Close({ConnFd})
  /\ pool' = Release(CleanedUp(pool, Conn), Conn)
  /\ NextEvent /\ UNCHANGED backlog

\* The process ends in the middle of an event: SIGPIPE from a send without
\* MSG_NOSIGNAL to a peer that reset its connection, the use of the unwritten
\* http_msg, or the second free of the headers of an oversized request.
Dies ==
  /\ \/ AtConn("err")
     \/ /\ AtConn("in")
        /\ \/ Pending \in {"empty", "garbage", "oversized"}
           \/ \E c \in ClientsOf({ConnFd}) : peer[c] = "rst"
  /\ CloseDown(Fds)
  /\ pc' = "dead" /\ batch' = <<>>
  /\ UNCHANGED <<scan, pool, exit_flag, answer>>

Finish_KeepsConnections ==
  /\ pc = "app" /\ exit_flag
  /\ CloseDown({})
  /\ pc' = "finished"
  /\ UNCHANGED <<scan, batch, pool, exit_flag, answer>>

\* sc_mgr_finish, after the loop of app.c: sc_mgr_conn_pool_destroy closes
\* the ACTIVE connections, then epoll and the listening socket go.
Finish ==
  /\ pc = "app" /\ exit_flag
  /\ CloseDown({pool.fd[c] : c \in Active(pool)})
  /\ pc' = "finished"
  /\ UNCHANGED <<scan, batch, pool, exit_flag, answer>>

-----------------------------------------------------------------------------
Environment ==
  \/ \E c \in Clients : Connect(c) \/ Send(c) \/ SendRest(c) \/ HangUp(c)
                        \/ Reset(c) \/ Vanish(c)
  \/ Tick
  \/ Signal

\* One turn of the loop, in pieces.
Loop ==
  \/ Poll \/ CleanupExpired \/ CleanupSkips
  \/ EpollWait \/ EpollInterrupted \/ PollReturns
  \/ RefuseWith503 \/ RefuseNobody
  \/ AcceptOk \/ AcceptWouldBlock \/ AcceptFatal \/ AcceptSetupFails
  \/ HandleError \/ HandleHangUp
  \/ ServeAndKeep \/ ServeAndClose \/ ParseFails
  \/ Finish

Next == Environment \/ Loop \/ Dies

Spec == Init /\ [][Next]_vars

\* The loop of app.c never waits longer than the timeout it gives to
\* epoll_wait, so that the program always moves on ...
LoopSpec == Spec /\ WF_vars(Loop)

\* ... and the clock does not stop, even if it moves only at some steps.
FairSpec == LoopSpec /\ SF_vars(Tick)

-----------------------------------------------------------------------------
\* The free list, the states and conn_count agree whatever the order of
\* accepts, hang-ups, timeouts and failed system calls (sc_mgr_conn_release
\* is called once for each connection that sc_mgr_conn_get_free gave).
Exact == PoolExact(pool)

\* conn_count is the "current connection count" of sculpt.h.
CountIsActive == pool.conn_count = Cardinality(Active(pool))

\* Whatever clients do, sc_mgr_conn_get_free does not pop from an empty list.
NullSafe == PopsASlot(pool)
Shape == PoolShape(pool)

\* Each ACTIVE slot has an open descriptor of its own, registered with epoll
\* under that slot, and no client's descriptor is open without one.
SlotsOwnSockets ==
  pc # "finished" =>
    /\ \A s \in Active(pool) :
         /\ pool.fd[s] \in Fds
         /\ sock[pool.fd[s]] # NULL
         /\ reg[pool.fd[s]] = s
    /\ \A f \in Fds : sock[f] # NULL => \E s \in Active(pool) : pool.fd[s] = f

\* An event that waits in mgr->events behind others still means the
\* connection it was reported for: nothing handled before it in the batch
\* closed that connection or gave its slot to another one.
NoStaleEvent ==
  \A i \in 1 .. Len(batch) :
    LET e == batch[i] IN
    e.fd # ListenFd => /\ pool.state[e.ptr] = "ACTIVE"
                       /\ pool.fd[e.ptr] = e.fd
                       /\ sock[e.fd] # NULL

\* An open connection can still be heard: epoll has it armed, or its event
\* is in the batch.  (EPOLLONESHOT disarms; only the end of a keep-alive
\* request arms again.)
NoneIsDeaf ==
  Running =>
    \A f \in Fds : sock[f] # NULL =>
      f \in armed \/ \E i \in 1 .. Len(batch) : batch[i].fd = f

\* sc_mgr_finish leaves no client's descriptor open.
FinishClosesAll == pc = "finished" => \A f \in Fds : sock[f] = NULL

\* 503 is sent only when every slot has a connection.
BusyOnlyWhenFull ==
  [][\A c \in Clients : answer[c] # "503" /\ answer'[c] = "503"
       => Cardinality(Active(pool)) = MaxConns]_vars

\* The server ends the connection of a client that is still there only in
\* answer to what that client sent, when that connection is too old or idle
\* too long, or at its own end.
NoSilentDrop ==
  [][\A c \in Clients : IsOpen(c) /\ ~IsOpen(c)' =>
       \/ peer[c] # "up"
       \/ exit_flag
       \/ inbox[c] # "empty" /\ answer'[c] # "none"
       \/ \E s \in Slots : /\ \/ pool.idle[s] > ConnTimeout
                             \/ pool.age[s] > ConnMaxAge
                          /\ pool.fd[s] \in Fds /\ sock[pool.fd[s]] = c]_vars

\* A new connection gets a slot that no open connection is using.
SlotIsUnused ==
  [][\A f, g \in Fds :
       sock[f] = NULL /\ sock'[f] # NULL /\ sock[g] # NULL
         => reg'[f] # reg[g]]_vars

\* The loop implements Sessions: first come, first let in, never more than
\* max_conn_count, 503 only to the first of the queue and only when that many
\* are in, and one that was let in goes alone or when the server ends.
Promise ==
  INSTANCE Sessions WITH queue <- backlog,
                         inside <- {c \in Clients : IsOpen(c)},
                         turned <- {c \in Clients : answer[c] = "503"}
KeepsPromise == Promise!Spec

\* Whoever is in the queue of the listening socket is picked up from it.
QueueDrains == \A c \in Clients : InQueue(c) ~> ~InQueue(c) \/ ~Running

\* What a connected client sends is read, unless its connection ends.
RequestRead ==
  \A c \in Clients :
    IsOpen(c) /\ inbox[c] # "empty" ~> inbox[c] = "empty" \/ ~Running

\* No connection lasts for ever: conn_max_age ends even a busy one.
ConnectionsEnd == \A c \in Clients : IsOpen(c) ~> ~IsOpen(c)
=============================================================================
