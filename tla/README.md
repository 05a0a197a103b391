# A verification project for sculpt

sculpt is a small single-threaded HTTP server library in C: one epoll loop, a
fixed pool of connections, a list of endpoints. This directory holds TLA+
models of it, TLC configurations that check them on small instances, and
theorems that TLAPS proves for instances of any size. Paths such as
`sculpt_conn.c:126` are under `src/src/` unless they say otherwise.

## 1. The system

| Component | State | Operations | Interacts with |
|---|---|---|---|
| Connection pool (`sculpt_conn.c:407-465`) | `conn_pool`, `free_conns`, `conn_count`; per slot `state`, `next`, `fd`, `last_active`, `creation_time` | `sc_mgr_conn_pool_init`, `sc_mgr_conn_get_free`, `sc_mgr_conn_release` | called by the event loop |
| Event loop (`sculpt_conn.c:28-130, 286-405, 467-501`) | the epoll set, `events`, the batch being handled | `sc_mgr_poll`, `create_new_connection`, `cleanup_after_error`, `sc_mgr_conns_cleanup` | kernel sockets, pool, parser, endpoint functions |
| Request parser (`sculpt_conn.c:132-284`) | a header buffer, the header list, an error counter | `next_header`, `get_http_msg`, `parse_all_headers` | reads the socket; on a bad request line it closes the connection and releases its slot itself |
| Routing (`sculpt_mgr.c:132-163`, `sculpt_conn.c:341-362`) | `endpoints`, newest first | `sc_mgr_bind_hard`, `sc_mgr_bind_soft`, the lookup in `sc_mgr_poll` | calls the application's functions |
| Life cycle (`sculpt_mgr.c:15-130`, `sculpt_conn.c:28-48`) | `sc_conn_mgr` and what of it is set | `sc_mgr_create`, `sc_mgr_epoll_init`, `sc_mgr_conn_pool_init`, `sc_mgr_listen`, `sc_mgr_finish` | everything |
| Headers and responses (`sculpt_header.c`, `sculpt_util.c:85-147`) | heap copies of headers, a response buffer | `sc_header_append`, `sc_headers_free`, `sc_easy_request_build`, `sc_easy_send` | endpoint functions |
| Strings and logging (`sculpt_util.c:10-84`) | `ll` | `sc_str_*`, `sc_strcmp`, `sc_strprefix`, `sc_log` and friends | everything |
| Example application (`src/app.c`) | `s_exit_flag` | the loop of `main`, `signal_handler` | life cycle, event loop |
| Amalgamation (`src/prod/`) | none | `package.sh` concatenates the sources | `prod/sculpt.c` is a copy of the four C files |

What is hard in it, and why tests hardly reach it:

* **The order of events in a batch.** `epoll_wait` hands over several events;
  handling one may close a connection, release its slot and give that slot to a
  new connection while later events of the batch still carry its pointer.
* **`EPOLLONESHOT`.** A reported connection is disarmed. Each path must end it
  or arm it again; a path that leaves the batch early does neither.
* **Error paths.** `accept`, `fcntl`, `epoll_ctl`, `read` and `send` can each
  fail between the pop of a slot and its push. `cleanup_after_error` pushes
  twice; `sc_mgr_poll` goes on after a parse error and pushes a third time.
* **The free stack.** It is threaded through the slots; whether a slot is on it
  twice shows only many calls later.
* **Time.** Idle and age limits run against requests that are already in the
  receive buffer, because the scan comes before `epoll_wait`.
* **Signals and shutdown** at any step.

What makes each component correct: the pool hands out a slot that nobody holds
and refuses only when all are held; the loop keeps slots, descriptors and epoll
in agreement, hears every open connection, picks up every queued one, refuses
only when full, ends each connection for a reason, and closes everything at its
end; the parser does not depend on how bytes are cut into segments; routing
picks the newest matching endpoint; each allocation has one owner.

## 2. The modules

| Module | Models |
|---|---|
| `ConnPool` | The pool as a record, one operator per function (`NewPool`, `GetFree`, `Release`, `Expired`, `PassTime`), and what can be said of a pool (`PoolExact`, `PoolShape`). No variables: a handler that releases three times is a composition. |
| `LeasePool` | The abstract specification of the pool: a set of slots on lease. |
| `PoolCalls` | The pool alone, with callers that release what they hold (`ReleaseHeld`) and callers that release any slot, at any time, as the error paths of the loop do (`ReleaseAgain`); `misused` remembers the first of the latter. |
| `Server` | The event loop with the kernel's objects and the clients. |
| `Sessions` | The abstract specification of the loop: clients wait, are let in in that order, or are turned away when the server is full. |
| `RequestParser` | `next_header`, `get_http_msg` and `parse_all_headers` on bytes that arrive in segments. |
| `RequestMemory` | The heap blocks of a request: who allocates, holds and frees them, from the parser through the endpoint function and `sc_easy_send` back to `sc_mgr_poll`. |
| `Responses` | `RequestMemory` with sizes: the page `root_handler` writes and the response `sc_easy_request_build` writes, and the room there is for them. |
| `Routing` | Endpoints, their list, `sc_strcmp`, `sc_strprefix` and the lookup, as operators. |
| `Lifecycle` | `sc_conn_mgr` from `sc_mgr_create` to `sc_mgr_finish`, with setters and bindings; extends `Routing`. |
| `MC_Server`, `MC_RequestParser`, `MC_RequestMemory`, `MC_Lifecycle` | Symmetry and inputs for the runs. |
| `ConnPoolLemmas` | Lemmas on the operators of `ConnPool`. |
| `PoolProofs`, `ServerProofs`, `RoutingProofs`, `LifecycleProofs`, `RequestParserProofs` | The theorems of the module each is named after. |
| `OrderlyProofs` | The theorems of `Server` in orderly environments, and that it implements `Sessions` there. |
| `RequestMemoryProofs` | The theorems of `RequestMemory` and `Responses`. |

A definition named after another with an underscore and a remark
(`Release_NoLink`, `Finish_KeepsConnections`) is a plausible wrong version of
the definition after it. No specification uses it; it is there to show that a
property tells the two apart.

### How `Server` corresponds to the code

The program is one thread, so a step may be long; it is cut where the
environment can make a difference that a property sees. `pc` says where it is:

| `pc` | in the code | actions |
|---|---|---|
| `app` | the `while (!s_exit_flag)` of `app.c:85` | `Poll`, `Finish` |
| `cleanup` | one iteration of `sc_mgr_conns_cleanup` | `CleanupExpired`, `CleanupSkips` |
| `wait` | `epoll_wait` | `EpollWait`, `EpollInterrupted` |
| `events` | one iteration over the batch | `RefuseWith503`, `RefuseNobody`, `AcceptOk`, `AcceptWouldBlock`, `AcceptFatal`, `AcceptSetupFails` (`create_new_connection`, one for each way it ends); `HandleError` (`EPOLLERR`), `HandleHangUp` (`EPOLLHUP`, `EPOLLRDHUP`), `ServeAndKeep`, `ServeAndClose`, `ParseFails` (`EPOLLIN`, one for each way a request ends); `PollReturns` |
| `finished`, `dead` | after `sc_mgr_finish`; after a signal or an abort killed the process | |

Kernel state: `backlog` (the listening queue), `sock` (which client a
descriptor leads to), `reg` (the `data.ptr` registered with it), `armed` (what
`EPOLLONESHOT` has not disabled). An event carries the descriptor the kernel
knows and the pointer the program sees; only the pointer is used by the actions
of the program, and `NoStaleEvent` says that the two agree. Closing a descriptor
takes it out of the epoll set, so the program's `EPOLL_CTL_DEL` after `close`
changes nothing. `accept` returns the lowest free descriptor, so numbers are
reused as in the kernel.

Client state: `peer` (how its end is), `inbox` (its unread bytes, reduced to how
`parse_all_headers` ends on them), `answer` (what the server last sent).

`Env` lists what an environment may do beyond connecting, sending whole
requests and hanging up: `reset`, `split`, `oversized`, `vanish`, `abort`,
`setup`, `signal`, `reconnect`. An environment without `reset`, `split` and
`oversized` is called orderly below: no peer resets, every request arrives whole
in one segment, and no header overflows its buffer. In that environment no
error path with a double release is taken.

Undefined behaviour is a choice over its outcomes: after a failed parse the
unwritten `http_msg` is either harmless (`ParseFails`: the 404 goes to a closed
descriptor, and the slot is released once more) or kills the process (`Dies`).
The double free after an oversized request and `SIGPIPE` are choices of the same
kind.

### How the other modules correspond to the code

`RequestParser` takes one `read()` of one byte as a step, so that more bytes, the
end of the stream or a reset can come between any two. `pc` says whether
`next_header` is reading the request line or a header; `Overflow`,
`ReadLineEnd`, `ReadNothing` (EAGAIN and the end of the stream, which the code
treats alike but for the code it returns on an empty buffer) and `ReadFails` are
the ways out of its loop, and each contains what `parse_all_headers` then does
(`LineFails`, `LineDone`, `HeaderFails`, `HeaderDone`, `HeadersDone`). Bytes are
the ones the code tells apart, with two for the text of keep-alive. Buffer
sizes are constants. `whole` is a history variable: requests have come one or
more to a segment, and no reset. A header of `Requests` is not empty, since an
empty line is how the headers of a request end.

`OneLineHeaders` says of each header that `parse_all_headers` keeps where in the
client's bytes it lies: right before the place that `next_header` has come to, or
before the `\r\n` it has just read. No `LineBreaks` is in it behind its first
byte. Its first byte may well be the `\n` of a line: when the `\r` is the last
byte for which `header_buf` has room, the line is dropped, and the next call
reads the `\n` and the line behind it as one header; the same happens when a
segment ends between the two. So it begins where a line begins only while
requests come whole and the call before has not failed (`error_count = 0`).

`OnlyTerminatorsOverrun` speaks of requests whose lines fit. It must: let the
last header of a request that asks for keep-alive have its `\r` in the last byte
of `header_buf`. That header is dropped, its `\n` and the empty line behind it
pass for one header more, and reading goes on into the next request, where it is
given up within a long request line. The connection is kept, and the rest of
that line passes for a request line of its own, with a method of any length.

`RequestMemory` has no bytes. A block is what is freed together (a header's node
and text, a message's URI and method); a list is a sequence of blocks, and a
variable may hold a pointer to a block that is no longer `live`. Its `pc` goes
through parsing, routing, the endpoint function, `sc_easy_send` and the `end:`
label. Writing through NULL, using a freed block and freeing it again end the
process (`Dies`), with the reason in `fault`. `happened` remembers, for the
current request, which failures there were.

Each action of `Responses` is one or several of `RequestMemory` and what these
do to sizes: `len` is the length of each header, `page` and `text` are the
`strlen` of `root_handler`'s `body` and of the response, `room` is what `malloc`
was asked for. The literals have their real lengths; `BODY_BUF` and the lengths
of header lines are constants. `RSpec` implies `Spec` of `RequestMemory`, whose
properties the run checks under it.

`Lifecycle` has one action per call of `app.c`'s `main` and one for each way in
which the call fails. Fields that `malloc` left unset hold `UNSET`;
`sc_mgr_finish` on such fields does no harm if they happen to be zero (`Finish`)
or ends the process (`FinishDies`). Set-up may start over after a finish, so that
what one manager leaves behind stays visible. `bound` remembers the bindings as
the application made them, `lost` the blocks a failed binding has unlinked.

## 3. The runs

| Run | Instance | Checks | Shows |
|---|---|---|---|
| `pool` | 3 slots, `conn_count` down to -3 | `TypeOK` `Exact` `CountIsActive` `Shape` `NullSafe` `KeepsPromise` | Until a caller releases what it does not hold, the stack is exact and implements `LeasePool`; afterwards it still ends or loops, and is never empty while `conn_count` says there is room. |
| `server_orderly` | 3 clients, 2 slots, 3 descriptors | `TypeOK` `Exact` `SlotsOwnSockets` `NoStaleEvent` `FinishClosesAll` `BusyOnlyWhenFull` `NoSilentDrop` `KeepsPromise` | In an orderly environment, with every system call that can fail failing, slots, descriptors and epoll agree at every step; 503 means full; a connection ends for a reason; the loop implements `Sessions`. |
| `server_live` | 3 clients, 2 slots, room for all events | `NoneIsDeaf` `QueueDrains` `RequestRead` | Without failing accepts, every open connection is armed or in the batch, every queued client is picked up, every request is read. |
| `server_age` | 2 clients, 2 slots, aborted connections | `ConnectionsEnd` | Idle and age limits end every connection, a busy one included, and one whose event an accept that failed before it in the batch has lost. |
| `server_faulty` | 3 clients, 2 slots, resets, split and oversized requests, aborted calls and failed set-up | `NullSafe` `Shape` | What survives the double and triple releases. |
| `manager` | 3 overlapping texts, URIs of up to 3 characters, 2 functions, 2 bindings per manager, 3 blocks, every call may fail | `TypeOK` `NothingLeft` `Survives` `EventsFit` `ListOwnsBlocks` `NewestWins` | What `sc_mgr_finish` leaves behind (nothing but lost endpoints), when it must not be called, and that a URI goes to the newest binding for it. |
| `parser` | buffers of 11, 2 and 3 bytes, 1 or 2 requests in up to 3 segments, cut anywhere, ended or reset at any time, give-up after 2 errors | `TypeOK` `ParsesWhatWasSent` `BufferHolds` `OnlyTerminatorsOverrun` `OneLineHeaders` `ParseEnds` | Whole requests are parsed as sent, also pipelined ones; whatever arrives, the header buffer holds, a header is what one call has read of one line, and the parser returns. |
| `memory` | 7 blocks, lists of up to 2 headers before the content type, header lines of 3 lengths | `TypeOK` `ResponsesTypeOK` `NothingStale` `OwnersApart` `BuffersHold` `NothingLeaks` | Which failures lose memory (404, failed `send`, failed `malloc`), which frees twice (given-up header lines), that nothing else does either, and that what the page and the response need was added up right. |
| `server_reset` | 2 slots | `SlotIsUnused` violated | finding 1 |
| `server_split` | 2 slots | `CountIsActive` violated | finding 2 |
| `server_deaf` | 2 slots | `NoneIsDeaf` violated | finding 3 |
| `server_leak` | 1 slot, fair | `ConnectionsEnd` violated | finding 4 |

Bounds. Two slots are the least with an order on the stack and with a slot that a
second event of a batch can point to; three clients are one more than there are
slots, so that the server is full with a client waiting; batches hold the
listener and both connections (in `server_age`, two of the three). There two
clients and two slots are needed for a connection to be behind the listener in a
batch in which `accept` fails: it is deaf from then on, and only the scan can end
it. `idle` and `age` are counted to one above their limits, where the code stops
telling them apart. `ConnTimeout = 0` with `ConnMaxAge = 1` makes the idle limit
and the age limit bite at different times. `MaxDebt` bounds `conn_count` from
below in `PoolCalls`; in `server_faulty` clients do not come again, which bounds
it there. In `parser` each buffer is just large enough for a line that fits to
the last byte, one that is a byte too long, and one that fills the buffer twice,
which is what the error counter needs; three segments are two cuts, one in each
request. In `manager` two bindings and three blocks are enough for a list with an
order and, since lost blocks stay allocated, for a binding that fails over a list
that is not empty. In `memory` seven blocks are a message, two lists and a
response at their longest, so a request that follows a leak may run short of
blocks and wait: what it can do was covered by the requests before the leak.
`BODY_BUF` is such that a header line of 9 characters is the longest of which a
page has room for one, and one of 10 is left out. The theorems have none of these
bounds. `CHECK_DEADLOCK FALSE` where the program may stop: a server that has
finished, or died, with clients that do nothing; a connection that is done.

Fairness. `LoopSpec` is weak fairness of the program's own steps: the process is
scheduled, `sc_mgr_poll` blocks for at most the 1000 ms of `app.c:86`, no step
waits for another actor. The environment has no fairness: clients need do
nothing. `RequestRead` and `QueueDrains` are checked under it, without a moving
clock, so that no timeout helps them. `FairSpec` of `Server` adds that the clock
moves (strong fairness of `Tick`, since a tick is one of many steps in a turn of
the loop); only `ConnectionsEnd` needs it. The run `server_live` gives `epoll_wait`
room for everything that is ready; with less, progress would rest on the kernel's
rotation of its ready list. `server_age` does with less: the scan looks at every
slot, whatever epoll reports. `FairSpec` of `RequestParser` is weak fairness of the
parser: the thread that runs it does nothing else until it returns, and its
descriptor is non-blocking.

### Findings

1. `server_reset`: `cleanup_after_error` releases a slot that `return_500` has
   released (`sculpt_conn.c:119`, `126`). The slot's `next` then points to
   itself, and the two connections accepted next share one `sc_conn`.
2. `server_split`: after a failed parse `sc_mgr_poll` goes on
   (`sculpt_conn.c:335`) and releases the slot a third time; `conn_count` falls
   to -2 with nobody connected, and more than `max_conn_count` are let in later.
   EAGAIN in the middle of a request line is enough.
3. `server_deaf`: a failing `accept` returns from the middle of the batch
   (`sculpt_conn.c:313`); connections behind it stay disarmed until they time out.
4. `server_leak`: two connections on one slot (finding 1): the first one's
   descriptor is closed by nobody, `conn_max_age` or not.

### Other disagreements between code and text

Met while modelling, and stated in the models by the condition under which a
property holds:

* `documentation.md:48` and `54` call `sc_mgr_finish` after a failed
  `sc_mgr_epoll_init` or `sc_mgr_conn_pool_init`; it then walks `conn_pool` as
  far as `max_conn_count` and frees `events`, which nobody has set
  (`sculpt_mgr.c:99`). `Survives` names these calls.
* `sculpt.h:147` calls `listening` a "flag to check listening status"; it stays
  false when `getnameinfo` fails after `listen` has succeeded (`sculpt_mgr.c:78`).
* `sculpt.h:142` calls `max_events` the "max number of epoll events"; set after
  `sc_mgr_epoll_init` it exceeds the array (`sculpt_mgr.c:65`). `EventsFit` has
  `late`.
* A failed binding unlinks all earlier endpoints (`sculpt_mgr.c:147`), and
  `sc_mgr_bind_soft` may dereference NULL before it tests it (`sculpt_mgr.c:157`).
  `NewestWins` and `ListOwnsBlocks` have `lost`.
* EAGAIN ends a header, or all of them, where the comment at
  `sculpt_conn.c:171` speaks of "the end of the headers". `ParsesWhatWasSent`
  has `whole`.
* The length tests of `sculpt_conn.c:193` and `212` allow a method or URI of
  exactly the buffer's size, whose terminator is written behind it.
  `OnlyTerminatorsOverrun` says that this is all, of requests in lines that fit.
* `sculpt.h:73` says a copied string "requires freeing"; the 404 path
  (`sculpt_conn.c:364`) does not free the message, and `sc_easy_send` returns
  without freeing when `send` fails (`sculpt_util.c:139`). `NothingLeaks` names
  these.
* After a given-up request its headers are freed at `sculpt_conn.c:336`, walked by
  the endpoint function, and freed again at 377. `NothingStale` and
  `OwnersApart` have `gaveup`.
* Every response says `Connection: keep-alive` (`sculpt_util.c:12`,
  `sculpt_conn.c:369`), also when `sc_mgr_poll` closes the connection behind it.
* `app.c:42` says "Response sent" when `send` took a part of it.
* `sc_log` prints a message whose level is at least the manager's
  (`sculpt_util.c:19`); the comment above it says the opposite. Nothing calls it.

## 4. What is proved

For any number of slots, clients, descriptors, events, endpoints, headers and
blocks, any texts and any limits, assuming `PoolAssumption` (at least one slot,
natural limits), `ServerAssumption`, `RoutingAssumption` (a string is a sequence
of integers), `LifecycleAssumption` and `MemoryAssumption` (types, and that names
of blocks are not confused), `ParserAssumption` and `ResponseAssumption` (buffers
and limits are numbers, requests are of `Requests`, the fixed parts of a page fit
it), and, but for `OrderlyProofs`, nothing about the environment:

* `PoolProofs!AnyTypeCorrect`, `AnyShape`, `AnyNullSafe`: with any misuse;
  `HeldExact`, `HeldCount` and `HeldImplementsLease`: until the first.
* `ServerProofs!TypeCorrect`, `ShapeKept`, `NeverPopsNull`, about `Server`'s
  `Spec`, whatever `Env` is.
* `OrderlyProofs!OrderlyExact`, `OrderlyCount`, `OrderlyOwnership`,
  `OrderlyBatch`, `OrderlyFinish`, `OrderlyBusy`, `OrderlyKeepsClients`,
  `OrderlySlots` and `OrderlySessions` (`Server` implements `Sessions`): in
  environments that are `Orderly`, every property of the run `server_orderly`,
  and `CountIsActive` and `SlotIsUnused`, which findings 1 and 2 refute in others.
  `OrderlyHears`: `NoneIsDeaf`, where accepts do not fail either.
* `RoutingProofs!IsOrder` and `MatchesWhatItIsFor`: `sc_strcmp` is a total order
  that is 0 only for equal strings; an endpoint matches exactly the URIs it is
  documented for.
* `LifecycleProofs!TypeCorrect`, `LeavesNothing`, `DiesOnlyOfThose`,
  `RoomForEvents`, `OwnsItsBlocks`, `NewestIsFound`: every property of the run
  `manager`.
* `RequestParserProofs!ParserTyped`, `ParserBuffer`, `ParserHeaders`,
  `ParserRoundTrip`, `ParserOverrun`: every safety property of the run
  `parser`, and `ParserGoesOn`, on which its liveness rests.
* `RequestMemoryProofs!TypeCorrect`, `NeverStale`, `KeptApart`,
  `LeaksOnlyThere`, `ResponsesTyped`, `ResponsesFit`: every property of the run
  `memory`; `ResponsesKeepMemory`: `Responses` implements `RequestMemory`, so the
  first four hold of it too.

The argument for `NeverPopsNull`. `NullSafe` is not inductive: a double release
makes `conn_count` meaningless, and nothing in `NullSafe` itself keeps the stack
from running dry. `PoolShape` is inductive: a stack either ends, and then
`conn_count` counts exactly the slots it does not list, or is caught in a set
that `next` does not leave. A push of a slot that is not listed lengthens the
stack (by the pigeonhole principle it is still no longer than the pool); a push
of one that is listed closes a loop; a push on a loop, or a pop from one, leaves
a loop; a pop from a stack that ends shortens it by one. A stack that ends is
empty only with `conn_count = max_conn_count`, and a loop is never empty. The
event loop only ever composes these operations, with a pop behind the capacity
test, so `Shape` carries over; what `ServerProofs` adds is that each event leads
to a slot (`Batching`), which needs the kernel's objects to fit together
(`Wiring`: one descriptor per client, nobody both queued and open).

The argument for `HeldImplementsLease`. `Exact` (the stack lists every slot that
is not ACTIVE, once, and no other) is inductive with the types; a slot popped was
not ACTIVE, and a failing `get_free` means a count of `MaxConns`, hence an empty
stack, hence every slot ACTIVE.

The argument for `IsOrder`. `sc_strcmp(a, b) <= 0` exactly if `a` is the smaller
at some position before which the two agree, or `a` is how `b` begins
(`NotPositive`); the loop's return is the least such position, which exists
because naturals are well founded (`FirstIsLeast`). Transitivity is then a case
for each pair of reasons.

The argument for `Lifecycle`. `Inv` says of each stage which fields are set
(`FieldsSet`), that the descriptors and blocks in use are the ones the fields
lead to (`Owned`), and that the list of endpoints is the bindings since the last
failed one, newest first, while all earlier ones are lost (`Recent`). The first
match in the list is then the last match among the bindings.

The argument for `RequestMemory`. Whether a pointer may be dropped depends on
the place the program is at: `Released` says which variables are NULL or empty
there. With it `OwnersApart` is inductive, `NothingStale` follows (a list is
freed only while its blocks are live), and each step that drops a pointer to a
live block is one of the three excused ones; that `sc_easy_send` has an empty
list only after `malloc` failed is `EmptyForWant`.

The argument for `OrderlyProofs`. `Orderly` says that `Env` has no `reset`,
`split` or `oversized`, which are the three ways into a double release; system
calls fail, clients hang up and come back, and signals arrive as they like.
None of the invariants is inductive alone. A release is right only if the slot is
held, so `Exact` needs that the pointer in an event is the slot of a connection;
that needs `SlotsOwnSockets`, for the event as the kernel made it, and that no
event handled before it has closed the connection since. So `OInv` joins to the
`Inv` of `ServerProofs`: `Calm` (no peer is reset and every unread input is a
request, so that the actions of the error paths have no state to happen in),
`Current` (at most one event for each descriptor, each of which still means what
its flags say), `Exact`, `SlotsOwnSockets` and `FinishClosesAll`. An action that
handles an event closes at most that event's own descriptor, and no other event
has it (`TailCurrent`, `CloseSlot`); the scan for timeouts closes several, but
runs while there is no batch.

`NoneIsDeaf` fails where a failing accept leaves the loop. `Roomy` excludes what
makes it fail: aborted connections, and fewer descriptors than slots. That
`accept` then finds a descriptor is a matter of counting: open descriptors are
one to one with ACTIVE slots, of which one is free (`FreeSlotFreeFd`).

`OrderlySessions` maps `waiting` to the backlog and `inside` to the clients that
have a descriptor, and each step to one of `Sessions` or a stutter. That a client
is turned away only when the server is full compares the number of clients inside
with the number of ACTIVE slots (`InsideCount`, by the bijection that
`SlotsOwnSockets` is). The lemmas about popping and pushing on an exact stack
(`ExactFields`, `SlotsFinite`, `ExactCount`) are in `ConnPoolLemmas`.

The argument for `RequestParser`. The wire is `FlattenSeq` of encodings that are
themselves flattened, defined by recursion; since a theorem of induction cannot
be applied here, its type, its length and where each part of it lies are shown by
a least counterexample (`LeastIsLeast`, `FlattenStep`, `FlattenEnds`,
`FlattenText`). `BufferHolds` follows from the test that comes before each byte.
`OneLineHeaders` needs `Gathered`: `buf` is the last bytes read, and has no line
end in it. For where a header begins it needs `AtLineStart` as well: while
requests come whole, a call that did not fail has stopped behind a `\r\n`, which
it has read (`ReadsLineBreak`) or which ends a request, and with it what has
arrived (`RequestEndsBreak`). `ParserRoundTrip` needs to know where the parser
is. `InStep` says that while segments end with requests and the lines fit, the
parser stands between two requests at the end of the first (`Between`), or in
line `j` of the request that it has counted to, with `buf` the line so far and
with the headers before it in the list (`Within`); `Fresh` says that nothing is
left over from the request before. Within a request there is always a byte to
read and room for it, so a line is left only at its end (`OnlyLineEnds`), and the
encoding then says what it was (`LineEnds`), which `get_http_msg` takes apart as
it was put together (`RequestLineRead`). A request whose lines do not fit ends
all claims about those behind it; `Framed` says up to where they go.
`ParserOverrun` uses the same invariant. `ParserGoesOn` gives the order in which
each turn of the loop goes forward: a byte read, the reset reported, `buf`
emptied, an error counted. All of these are bounded, which is why `ParseEnds`
holds.

The argument for `Responses`. The sums over a list are folds over its set of
positions; that they exist, are numbers, and grow with what is added for each
header is shown for sets of any size, by a least counterexample again
(`SumExists`, `SumsGrow`). The loop of `root_handler` has stopped at a `Shown` for
which the page has room. `response_len` has a byte for each header that is not
written, and what it adds for the content length and the empty line is, with the
directives of the template that are replaced, more than the 20 digits that a
`size_t` has at most (`SizesFit`: `BODY_BUF` is less than 10^20; it is 4096).

Model-checked only: liveness, that is `QueueDrains`, `RequestRead`,
`ConnectionsEnd` and `ParseEnds`, which is out of the prover's reach.

## 5. What is not modelled

* What responses and pages say: only their sizes and their blocks are modelled.
  Endpoint functions whose content type has its `\r\n` elsewhere than at its end
  (`sculpt_util.c:119` assumes that they do not).
* How a client takes the stream of responses apart. `send` on a non-blocking
  socket may accept only a part of a response; `sc_easy_send` then returns `SC_OK`
  (`sculpt_util.c:139`), and the client takes the next response for the rest.
* `sc_log`, `sc_error_log`, `sc_perror`, `sc_header_free`, `sc_str_copy` on its
  own, `sc_easy_send2`, `parse_headers`: without a caller, or without a body.
* `prod/`, a concatenation of the sources, and the build files.
* In `Server`: EPOLLERR on the listening socket, on which the code would take the
  number of the socket for a pointer; the kernel's rotation of a ready list
  longer than `max_events`, of which a model was too large to check beside the
  rest of the loop; the bytes of requests, which `RequestParser` has.
* In `RequestParser`: the NUL byte. `next_header` takes a line that begins with
  one for an empty line (`sculpt_conn.c:171`), and `strchr` and `strstr` stop at
  one.
* In `RequestMemory`: a refused request line, after which an `http_msg` that
  nobody wrote is routed (`Server` has this as `ParseFails` and `Dies`).
* A negative or zero argument of `sc_mgr_conn_pool_init` and of the setters.
* Endpoint functions other than one like `root_handler`: it reads the headers,
  sends something, and leaves the connection alone.

## 6. The plan

1. The rotation of the ready list, in a model of the loop reduced to its
   descriptors.
2. What `server_faulty` leaves of the ownership of slots after a double release,
   stated as an invariant and proved.
3. For liveness, the safety part of each argument, as `ParserGoesOn` is for
   `ParseEnds`: what a turn of `sc_mgr_poll` uses up.
