--------------------------- MODULE RequestParser ----------------------------
(***************************************************************************)
(* Reading requests from one connection: next_header, get_http_msg and     *)
(* parse_all_headers of sculpt_conn.c, one read() at a time, while the     *)
(* bytes of the client arrive.  Module Server has the same calls as single *)
(* steps, by how they end; here it is their content that matters.          *)
(*                                                                         *)
(* A byte is one of "sp", "cr", "lf", "x" (anything else), and "k" and     *)
(* "a", the two halves of the text "Connection: keep-alive".               *)
(***************************************************************************)
EXTENDS Naturals, Sequences, SequencesExt

CONSTANTS
  HEADER_BUF_SIZE, METHOD_BUF_SIZE, URL_BUF_SIZE,
  SC_MAX_HEADER_ERROR_COUNT,
  Sendable,  \* the sequences of requests a client may send
  Env,       \* which of EnvEvents this environment is capable of
  MaxSegments, \* bound: how many segments the client's bytes come in
  UNSET      \* an http_msg nobody has written

\* split: a segment may end anywhere, not only at the end of a request
\* close: the client ends its side while the server is reading
\* reset: the connection fails while the server is reading
EnvEvents == {"split", "close", "reset"}

\* No header is empty: an empty line is the end of the headers.
Requests == [method : Seq({"x"}), uri : Seq({"x"}),
             headers : Seq(Seq({"x", "k", "a"}) \ {<<>>})]

ASSUME ParserAssumption ==
  /\ HEADER_BUF_SIZE \in Nat \ {0}
  /\ METHOD_BUF_SIZE \in Nat /\ URL_BUF_SIZE \in Nat
  /\ SC_MAX_HEADER_ERROR_COUNT \in Nat \ {0}
  /\ Sendable \subseteq Seq(Requests)
  /\ Env \subseteq EnvEvents
  /\ MaxSegments \in Nat

-----------------------------------------------------------------------------
(* What a client sends.                                                    *)

CRLF == <<"cr", "lf">>

Encode(r) ==
  r.method \o <<"sp">> \o r.uri \o <<"sp", "x">> \o CRLF
  \o FlattenSeq([i \in DOMAIN r.headers |-> r.headers[i] \o CRLF]) \o CRLF

WireOf(rs) == FlattenSeq([i \in DOMAIN rs |-> Encode(rs[i])])

\* strstr(header, "Connection: keep-alive")
AsksKeepAlive(h) ==
  \E i \in 1 .. Len(h) - 1 : h[i] = "k" /\ h[i + 1] = "a"

-----------------------------------------------------------------------------
(* get_http_msg.                                                           *)

Spaces(s) == {i \in 1 .. Len(s) : s[i] = "sp"}
Least(S) == CHOOSE i \in S : \A j \in S : i <= j

\* Where the method ends, where the URI begins, and where it ends: each the
\* position of a byte, or one past the end of the line.
MethodEnd(s) == Least(Spaces(s) \cup {Len(s) + 1})
UriStart(s) ==
  Least({i \in MethodEnd(s) + 1 .. Len(s) : s[i] # "sp"} \cup {Len(s) + 1})
UriEnd(s) == Least({i \in Spaces(s) : i > UriStart(s)} \cup {Len(s) + 1})

MethodLen(s) == MethodEnd(s) - 1
UriLen(s) == UriEnd(s) - UriStart(s)

MethodFits(s) ==
  MethodEnd(s) <= Len(s) /\ MethodLen(s) \in 1 .. METHOD_BUF_SIZE
UriFits_Any(s) == UriEnd(s) <= Len(s) /\ UriLen(s) >= 1
UriFits(s) == UriEnd(s) <= Len(s) /\ UriLen(s) \in 1 .. URL_BUF_SIZE

IsRequestLine(s) == MethodFits(s) /\ UriFits(s)
get_http_msg(s) ==
  [method |-> SubSeq(s, 1, MethodLen(s)),
   uri |-> SubSeq(s, UriStart(s), UriEnd(s) - 1)]

\* method_buf[method_len] or uri_buf[uri_len] is not an element of the buffer.
WritesPast(s) ==
  \/ MethodFits(s) /\ MethodLen(s) >= METHOD_BUF_SIZE
  \/ MethodFits(s) /\ UriFits(s) /\ UriLen(s) >= URL_BUF_SIZE

-----------------------------------------------------------------------------
VARIABLES
  sent,         \* the requests of the client
  wire,         \* the bytes they are
  segments,     \* in how many pieces they have come so far
  arrived,      \* how many of them are in the receive buffer or read
  ended,        \* how the client's side of the connection is
  whole,        \* history: every segment ended with a request, and no reset
  pos,          \* how many are read
  pc,           \* idle: waiting in epoll; line, headers: in next_header for
                \* the request line, for a header; done: the connection ended
  buf,          \* header_buf up to its terminator
  error_count,
  msg, headers, keep_alive,
  parsed,       \* what parse_all_headers has returned, for each request
  overrun       \* whether get_http_msg has written past a buffer

client == <<sent, wire, segments, arrived, ended, whole>>
parser == <<pos, pc, buf, error_count, msg, headers, keep_alive, parsed,
            overrun>>
vars == <<client, parser>>

Byte == {"x", "sp", "cr", "lf", "k", "a"}
Messages == [method : Seq(Byte), uri : Seq(Byte)] \cup {UNSET}
Results == [how : {"ok", "refused", "gaveup"}, msg : Messages,
            headers : Seq(Seq(Byte)), keep_alive : BOOLEAN]

TypeOK ==
  /\ sent \in Sendable /\ wire = WireOf(sent)
  /\ pos \in 0 .. arrived /\ arrived \in 0 .. Len(wire)
  /\ segments \in 0 .. MaxSegments
  /\ ended \in {"open", "fin", "rst"}
  /\ whole \in BOOLEAN
  /\ pc \in {"idle", "line", "headers", "done"}
  /\ buf \in Seq(Byte)
  /\ error_count \in 0 .. SC_MAX_HEADER_ERROR_COUNT - 1
  /\ msg \in Messages
  /\ headers \in Seq(Seq(Byte))
  /\ keep_alive \in BOOLEAN
  /\ parsed \in Seq(Results)
  /\ overrun \in BOOLEAN

Init ==
  /\ sent \in Sendable /\ wire = WireOf(sent)
  /\ segments = 0 /\ arrived = 0 /\ ended = "open" /\ whole = TRUE
  /\ pos = 0 /\ pc = "idle"
  /\ buf = <<>> /\ error_count = 0
  /\ msg = UNSET /\ headers = <<>> /\ keep_alive = FALSE
  /\ parsed = <<>> /\ overrun = FALSE

-----------------------------------------------------------------------------
(* The client and the kernel.                                              *)

RequestEnds == {Len(WireOf(SubSeq(sent, 1, i))) : i \in 1 .. Len(sent)}

Arrive ==
  /\ ended = "open" /\ segments < MaxSegments
  /\ \E n \in arrived + 1 .. Len(wire) :
       /\ "split" \in Env \/ n \in RequestEnds
       /\ arrived' = n
       /\ whole' = (whole /\ n \in RequestEnds)
  /\ segments' = segments + 1
  /\ UNCHANGED <<sent, wire, ended, parser>>

End ==
  /\ ended = "open"
  /\ \/ "close" \in Env /\ ended' = "fin" /\ UNCHANGED whole
     \/ "reset" \in Env /\ ended' = "rst" /\ whole' = FALSE
  /\ UNCHANGED <<sent, wire, segments, arrived, parser>>

-----------------------------------------------------------------------------
(* parse_all_headers, from what next_header returns to it.                 *)

\* EPOLLIN of a connection that is not also hung up.
Begin ==
  /\ pc = "idle" /\ ended = "open" /\ pos < arrived
  /\ pc' = "line"
  /\ UNCHANGED <<client, pos, buf, error_count, msg, headers, keep_alive,
                 parsed, overrun>>

\* A connection that is: sc_mgr_poll closes it.
HangUp ==
  /\ pc = "idle" /\ ended # "open"
  /\ pc' = "done"
  /\ UNCHANGED <<client, pos, buf, error_count, msg, headers, keep_alive,
                 parsed, overrun>>

Return_KeepsFlag(how, k) ==
  /\ parsed' = Append(parsed, [how |-> how, msg |-> msg, headers |-> headers,
                               keep_alive |-> k])
  /\ pc' = IF k THEN "idle" ELSE "done"
  /\ buf' = <<>> /\ error_count' = 0
  /\ msg' = UNSET /\ headers' = <<>> /\ keep_alive' = k
  /\ UNCHANGED overrun

\* parse_all_headers returns, and sc_mgr_poll closes or keeps the connection.
\* The variables it declares for each request begin afresh.
Return(how, k) ==
  /\ parsed' = Append(parsed, [how |-> how, msg |-> msg, headers |-> headers,
                               keep_alive |-> k])
  /\ pc' = IF k THEN "idle" ELSE "done"
  /\ buf' = <<>> /\ error_count' = 0
  /\ msg' = UNSET /\ headers' = <<>> /\ keep_alive' = FALSE
  /\ UNCHANGED overrun

NextCall == buf' = <<>> /\ pc' = "headers" /\ UNCHANGED parsed

Errors == {"SC_BUFFER_OVERFLOW_ERR", "SC_READ_ERR"}

\* An unreadable request line: cleanup_after_error.
LineFails(err, line) ==
  /\ pc = "line"
  /\ err \in Errors \/ ~IsRequestLine(line)
  /\ overrun' = (overrun \/ (err \notin Errors /\ WritesPast(line)))
  /\ parsed' = Append(parsed, [how |-> "refused", msg |-> UNSET,
                               headers |-> <<>>, keep_alive |-> FALSE])
  /\ pc' = "done" /\ buf' = <<>>
  /\ UNCHANGED <<error_count, msg, headers, keep_alive>>

LineDone(err, line) ==
  /\ pc = "line"
  /\ err \notin Errors /\ IsRequestLine(line)
  /\ overrun' = (overrun \/ WritesPast(line))
  /\ msg' = get_http_msg(line)
  /\ NextCall
  /\ UNCHANGED <<error_count, headers, keep_alive>>

HeaderFails_OneMore(err) ==
  /\ pc = "headers" /\ err \in Errors
  /\ IF error_count + 1 > SC_MAX_HEADER_ERROR_COUNT
     THEN Return("gaveup", keep_alive)
     ELSE /\ error_count' = error_count + 1
          /\ NextCall /\ UNCHANGED <<msg, headers, keep_alive, overrun>>

HeaderFails(err) ==
  /\ pc = "headers" /\ err \in Errors
  /\ IF error_count + 1 >= SC_MAX_HEADER_ERROR_COUNT
     THEN Return("gaveup", keep_alive)
     ELSE /\ error_count' = error_count + 1
          /\ NextCall /\ UNCHANGED <<msg, headers, keep_alive, overrun>>

HeaderDone_KeepsText(err, line) ==
  /\ pc = "headers" /\ err = "SC_OK"
  /\ keep_alive' = (keep_alive \/ AsksKeepAlive(line))
  /\ headers' = <<line>> \o headers
  /\ error_count' = 0
  /\ pc' = "headers" /\ buf' = line
  /\ UNCHANGED <<msg, overrun, parsed>>

HeaderDone(err, line) ==
  /\ pc = "headers" /\ err = "SC_OK"
  /\ keep_alive' = (keep_alive \/ AsksKeepAlive(line))
  /\ headers' = <<line>> \o headers
  /\ error_count' = 0
  /\ NextCall /\ UNCHANGED <<msg, overrun>>

HeadersDone(err) ==
  /\ pc = "headers" /\ err = "SC_FINISHED"
  /\ Return("ok", keep_alive)

HeaderRead(err, line) ==
  \/ LineFails(err, line) \/ LineDone(err, line)
  \/ HeaderFails(err) \/ HeaderDone(err, line) \/ HeadersDone(err)

-----------------------------------------------------------------------------
(* next_header, a turn of its loop at a time.                              *)

Reading == pc \in {"line", "headers"}

\* header_len reaches buf_len - 1: no room for another byte and '\0'.
Full_NoTerminator == Len(buf) >= HEADER_BUF_SIZE
Full == Len(buf) >= HEADER_BUF_SIZE - 1

\* The header is empty: the end of the headers, to parse_all_headers.  (But
\* for the end of the stream the code asks whether its first byte is NUL; no
\* Byte is.)
Outcome(line) == IF line = <<>> THEN "SC_FINISHED" ELSE "SC_OK"

Overflow ==
  /\ Reading /\ Full
  /\ HeaderRead("SC_BUFFER_OVERFLOW_ERR", buf)
  /\ UNCHANGED <<client, pos>>

CanRead == Reading /\ ~Full /\ ended # "rst" /\ pos < arrived
AtLineEnd == buf # <<>> /\ Last(buf) = "cr" /\ wire[pos + 1] = "lf"

ReadByte ==
  /\ CanRead /\ ~AtLineEnd
  /\ pos' = pos + 1
  /\ buf' = Append(buf, wire[pos + 1])
  /\ UNCHANGED <<client, pc, error_count, msg, headers, keep_alive, parsed,
                 overrun>>

ReadLineEnd ==
  /\ CanRead /\ AtLineEnd
  /\ pos' = pos + 1
  /\ HeaderRead(Outcome(Front(buf)), Front(buf))
  /\ UNCHANGED client

ReadNothing_Retries ==
  /\ Reading /\ ~Full /\ ended # "rst" /\ pos = arrived
  /\ UNCHANGED vars

\* EAGAIN, or the end of the stream: what is there is taken for a header.
ReadNothing ==
  /\ Reading /\ ~Full /\ ended # "rst" /\ pos = arrived
  /\ HeaderRead(Outcome(buf), buf)
  /\ UNCHANGED <<client, pos>>

\* The reset is reported once, and has emptied the receive buffer.
ReadFails ==
  /\ Reading /\ ~Full /\ ended = "rst"
  /\ ended' = "fin" /\ arrived' = pos
  /\ HeaderRead("SC_READ_ERR", buf)
  /\ UNCHANGED <<sent, wire, segments, whole, pos>>

Parse == Begin \/ HangUp \/ Overflow \/ ReadByte \/ ReadLineEnd
         \/ ReadNothing \/ ReadFails

Next == Arrive \/ End \/ Parse

Spec == Init /\ [][Next]_vars

\* The thread that parses does nothing else meanwhile.
FairSpec == Spec /\ WF_vars(Parse)

-----------------------------------------------------------------------------
\* Every line of a request, and in Fits also its URI and method, leaves room
\* for what the parser puts behind it.
LineFits(n) == n <= HEADER_BUF_SIZE - Len(CRLF) - 1
LinesFit(r) ==
  /\ LineFits(Len(r.method) + Len(r.uri) + 3)
  /\ \A i \in 1 .. Len(r.headers) : LineFits(Len(r.headers[i]))
Fits(r) ==
  /\ Len(r.method) \in 1 .. METHOD_BUF_SIZE - 1
  /\ Len(r.uri) \in 1 .. URL_BUF_SIZE - 1
  /\ LinesFit(r)

\* While requests come whole and fit the buffers, the parser gives back what
\* was sent, headers last first, request by request, stopping where the next
\* one begins, for as long as the client asks to keep the connection; that
\* the client shuts its side down meanwhile makes no difference.
ParsesWhatWasSent ==
  whole =>
    \A i \in 1 .. Len(parsed) :
      (\A j \in 1 .. Len(sent) : j <= i => Fits(sent[j])) =>
        /\ i <= Len(sent)
        /\ parsed[i] =
             [how |-> "ok",
              msg |-> [method |-> sent[i].method, uri |-> sent[i].uri],
              headers |-> Reverse(sent[i].headers),
              keep_alive |-> \E j \in 1 .. Len(sent[i].headers) :
                               AsksKeepAlive(sent[i].headers[j])]

\* However bytes arrive, the terminator of header_buf is inside of it.
BufferHolds == Len(buf) < HEADER_BUF_SIZE

\* Where the lines of what the client sends end, the LF included.
LineBreaks == {n \in 2 .. Len(wire) : wire[n - 1] = "cr" /\ wire[n] = "lf"}

\* The last bytes of the client's before a place, with no end of a line behind
\* the first of them.  They begin where a line begins, unless requests come in
\* pieces or the call of next_header before this one failed: then they may
\* begin inside a line, even with the LF of a line whose CR that call took.
OfOneLine(h, end) ==
  LET begin == end - Len(h)
  IN  /\ begin \in Nat
      /\ h = SubSeq(wire, begin + 1, end)
      /\ \A n \in begin + 2 .. end : n \notin LineBreaks
      /\ whole /\ error_count = 0 => begin \in LineBreaks

\* A header that parse_all_headers keeps is what lies before the place that
\* next_header has come to, or before the line end it has just read: it holds
\* nothing that an earlier call of next_header had read, and text of one line.
OneLineHeaders ==
  [][Len(headers') > Len(headers) =>
       IF pos' = pos
       THEN OfOneLine(Head(headers'), pos)
       ELSE pos' \in LineBreaks /\ OfOneLine(Head(headers'), pos' - Len(CRLF))
    ]_vars

\* While requests come whole in lines that fit, the length tests of
\* get_http_msg let nothing be written behind its buffers but by a method or a
\* URI of exactly their size, of which the terminator is.
OnlyTerminatorsOverrun ==
  whole /\ overrun /\ (\A i \in 1 .. Len(sent) : LinesFit(sent[i])) =>
    \E i \in 1 .. Len(sent) :
      Len(sent[i].method) = METHOD_BUF_SIZE \/ Len(sent[i].uri) = URL_BUF_SIZE

\* next_header and parse_all_headers return, with or without more input: one
\* client's failing header lines do not hold the server's only thread.
ParseEnds == Reading ~> ~Reading
=============================================================================
