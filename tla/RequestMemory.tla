--------------------------- MODULE RequestMemory ----------------------------
(***************************************************************************)
(* Who allocates and who frees what in the handling of requests: the copies*)
(* parse_all_headers makes (sculpt_conn.c, sculpt_header.c), the endpoint  *)
(* function, as root_handler of app.c, the response that sc_easy_send      *)
(* builds (sculpt_util.c), and what sc_mgr_poll frees when it is done.     *)
(*                                                                         *)
(* A block is what is allocated and freed together: a header is its node   *)
(* and its text, a message its URI and its method.  A list is the sequence *)
(* of its blocks from the head.  A pointer may outlive its block.          *)
(***************************************************************************)
EXTENDS Naturals, Sequences

CONSTANTS
  Blocks,      \* bound: the memory there is
  MaxHeaders,  \* bound: how long a list gets
  Env,         \* which of EnvEvents happen
  NULL

\* malloc:   malloc returns NULL
\* send:     send fails
\* notfound: a request matches no endpoint
\* gaveup:   SC_MAX_HEADER_ERROR_COUNT header lines in a row fail
EnvEvents == {"malloc", "send", "notfound", "gaveup"}

ASSUME MemoryAssumption ==
  MaxHeaders \in Nat /\ Env \subseteq EnvEvents /\ NULL \notin Blocks

VARIABLES
  pc,        \* where sc_mgr_poll is, or the function it called
  live,      \* the blocks that are allocated
  msg,       \* http_msg: the block of its strings
  headers,   \* the list of the request
  own,       \* the list the endpoint function gives to sc_easy_send
  response,  \* the buffer of the response
  fault,     \* what went wrong in a use of memory
  happened   \* which of Env happened to this request

vars == <<pc, live, msg, headers, own, response, fault, happened>>

Pcs == {"idle", "parsing", "routing", "handler", "building", "sending",
        "returned", "closing", "dead"}

TypeOK ==
  /\ pc \in Pcs
  /\ live \subseteq Blocks
  /\ msg \in Blocks \cup {NULL}
  /\ headers \in Seq(Blocks)
  /\ own \in Seq(Blocks)
  /\ response \in Blocks \cup {NULL}
  /\ fault \in {"none", "null", "stale", "double_free"}
  /\ happened \subseteq Env

Init ==
  /\ pc = "idle" /\ live = {}
  /\ msg = NULL /\ headers = <<>> /\ own = <<>> /\ response = NULL
  /\ fault = "none" /\ happened = {}

Happens(what) == what \in Env /\ happened' = happened \cup {what}

BlocksOf(list) == {list[i] : i \in 1 .. Len(list)}
Unallocated == Blocks \ live

Dies(f) == pc' = "dead" /\ fault' = f /\ UNCHANGED <<live, msg, headers, own, response>>

-----------------------------------------------------------------------------
(* The request is read.                                                    *)

\* get_http_msg copies the method and the URI.
ReadLine ==
  /\ pc = "idle"
  /\ \E b \in Unallocated : msg' = b /\ live' = live \cup {b}
  /\ pc' = "parsing" /\ happened' = {}
  /\ UNCHANGED <<headers, own, response, fault>>

\* sc_str_copy_n writes to what malloc returns without looking at it, for the
\* message as for the text of a header, in the request or of the response.
CopyDies ==
  /\ pc \in {"idle", "parsing", "handler"}
  /\ Happens("malloc") /\ Dies("null")

\* sc_header_append: the new header before the others.
ReadHeader ==
  /\ pc = "parsing" /\ Len(headers) < MaxHeaders
  /\ \E b \in Unallocated : headers' = <<b>> \o headers /\ live' = live \cup {b}
  /\ UNCHANGED <<pc, msg, own, response, fault, happened>>

ReadHeaderFails_LinksNull ==
  /\ pc = "parsing" /\ Len(headers) < MaxHeaders
  /\ Happens("malloc")
  /\ headers' = <<NULL>> \o headers
  /\ UNCHANGED <<pc, live, msg, own, response, fault>>

\* sc_header_append returns NULL, which becomes the list.
ReadHeaderFails ==
  /\ pc = "parsing" /\ Len(headers) < MaxHeaders
  /\ Happens("malloc")
  /\ headers' = <<>>
  /\ UNCHANGED <<pc, live, msg, own, response, fault>>

ReadEnds ==
  /\ pc = "parsing"
  /\ pc' = "routing"
  /\ UNCHANGED <<live, msg, headers, own, response, fault, happened>>

\* parse_all_headers returns an error, and sc_mgr_poll frees the list, but
\* goes on, and still has the pointer.
ReadGivesUp ==
  /\ pc = "parsing" /\ Happens("gaveup")
  /\ live' = live \ BlocksOf(headers)
  /\ pc' = "routing"
  /\ UNCHANGED <<msg, headers, own, response, fault>>

-----------------------------------------------------------------------------
(* It is routed to an endpoint function, or to the 404.                    *)

\* The function walks the list of headers.
Found ==
  /\ pc = "routing" /\ BlocksOf(headers) \subseteq live
  /\ pc' = "handler"
  /\ UNCHANGED <<live, msg, headers, own, response, fault, happened>>

FoundStale ==
  /\ pc = "routing" /\ ~(BlocksOf(headers) \subseteq live)
  /\ Dies("stale") /\ UNCHANGED happened

\* The 404 is a constant.  The message is not freed on this path.
NotFound ==
  /\ pc = "routing" /\ Happens("notfound")
  /\ msg' = NULL
  /\ pc' = "closing"
  /\ UNCHANGED <<live, headers, own, response, fault>>

\* A function may make headers of its own for the response.
OwnHeader ==
  /\ pc = "handler" /\ Len(own) < MaxHeaders
  /\ \E b \in Unallocated : own' = <<b>> \o own /\ live' = live \cup {b}
  /\ UNCHANGED <<pc, msg, headers, response, fault, happened>>

-----------------------------------------------------------------------------
(* sc_easy_send.                                                           *)

\* headers = sc_header_append(content_type, headers)
AddContentType ==
  /\ pc = "handler"
  /\ \E b \in Unallocated : own' = <<b>> \o own /\ live' = live \cup {b}
  /\ pc' = "building"
  /\ UNCHANGED <<msg, headers, response, fault, happened>>

AddContentTypeFails ==
  /\ pc = "handler" /\ Happens("malloc")
  /\ own' = <<>>
  /\ pc' = "building"
  /\ UNCHANGED <<live, msg, headers, response, fault>>

\* sc_easy_request_build, also when there is no list.
Build ==
  /\ pc = "building"
  /\ \E b \in Unallocated : response' = b /\ live' = live \cup {b}
  /\ pc' = "sending"
  /\ UNCHANGED <<msg, headers, own, fault, happened>>

\* It returns NULL: without a list sc_easy_send returns before it uses that,
\* with one strlen reads from it.
BuildFails ==
  /\ pc = "building" /\ Happens("malloc")
  /\ IF own = <<>>
     THEN pc' = "sending" /\ UNCHANGED <<live, msg, headers, own, response, fault>>
     ELSE Dies("null")

\* What the endpoint function and sc_easy_send point to is forgotten as they
\* return.
Returns == pc' = "returned" /\ own' = <<>> /\ response' = NULL
           /\ UNCHANGED <<msg, headers>>

Send_KeepsResponse ==
  /\ pc = "sending" /\ own # <<>>
  /\ live' = live \ BlocksOf(own)
  /\ Returns /\ UNCHANGED <<fault, happened>>

Send_FreesTheOthers ==
  /\ pc = "sending" /\ own # <<>>
  /\ live' = live \ (BlocksOf(own) \cup BlocksOf(headers) \cup {response})
  /\ Returns /\ UNCHANGED <<fault, happened>>

\* send succeeds, and the response and the list are freed.
Send ==
  /\ pc = "sending" /\ own # <<>>
  /\ live' = live \ (BlocksOf(own) \cup {response})
  /\ Returns /\ UNCHANGED <<fault, happened>>

\* SC_SEND_ERR, and SC_MALLOC_ERR for want of a list: nothing is freed.
SendFails ==
  /\ pc = "sending"
  /\ \/ own = <<>> /\ UNCHANGED happened
     \/ own # <<>> /\ Happens("send")
  /\ Returns /\ UNCHANGED <<live, fault>>

-----------------------------------------------------------------------------
(* The end of sc_mgr_poll's handling.                                      *)

FreeMessage ==
  /\ pc = "returned"
  /\ live' = live \ {msg} /\ msg' = NULL
  /\ pc' = "closing"
  /\ UNCHANGED <<headers, own, response, fault, happened>>

FreeHeaders ==
  /\ pc = "closing" /\ BlocksOf(headers) \subseteq live
  /\ live' = live \ BlocksOf(headers) /\ headers' = <<>>
  /\ pc' = "idle"
  /\ UNCHANGED <<msg, own, response, fault, happened>>

FreeHeadersAgain ==
  /\ pc = "closing" /\ ~(BlocksOf(headers) \subseteq live)
  /\ Dies("double_free") /\ UNCHANGED happened

Next ==
  \/ ReadLine \/ CopyDies \/ ReadHeader \/ ReadHeaderFails \/ ReadEnds
  \/ ReadGivesUp
  \/ Found \/ FoundStale \/ NotFound \/ OwnHeader
  \/ AddContentType \/ AddContentTypeFails \/ Build \/ BuildFails
  \/ Send \/ SendFails
  \/ FreeMessage \/ FreeHeaders \/ FreeHeadersAgain

Spec == Init /\ [][Next]_vars

-----------------------------------------------------------------------------
Held == BlocksOf(headers) \cup BlocksOf(own) \cup ({msg, response} \ {NULL})

\* A block loses its last pointer only in a request that finds no endpoint
\* (the message is not freed before the 404), whose response is not sent, or
\* during which malloc fails; every other request takes no memory with it
\* ("this method requires freeing the string after use", sculpt.h).
NothingLeaks ==
  [][\/ live' \ Held' \subseteq live \ Held
     \/ happened' \cap {"notfound", "send", "malloc"} # {}]_vars

\* Nothing is used after it was freed, and nothing is freed twice, unless the
\* header lines of the request were given up: then parse_all_headers and
\* sc_mgr_poll both take themselves for the owner of the list.
NothingStale == fault \in {"stale", "double_free"} => "gaveup" \in happened

\* The request's list, the function's list, the message and the response
\* have no memory in common, and every pointer to a block is to a live one,
\* after failed allocations and sends too.
OwnersApart ==
  pc # "dead" /\ "gaveup" \notin happened =>
    /\ Held \subseteq live
    /\ BlocksOf(headers) \cap BlocksOf(own) = {}
    /\ msg \notin BlocksOf(headers) \cup BlocksOf(own)
    /\ response \notin BlocksOf(headers) \cup BlocksOf(own)
    /\ msg # response \/ msg = NULL
=============================================================================
