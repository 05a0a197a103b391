----------------------------- MODULE Responses ------------------------------
(***************************************************************************)
(* RequestMemory with the sizes of what is written into its blocks: the    *)
(* page root_handler of app.c puts together on its stack from the headers  *)
(* of the request, and the response sc_easy_request_build (sculpt_util.c)  *)
(* puts together from that page and the headers given to sc_easy_send.     *)
(* Both add up the sizes first and then write without a limit.             *)
(***************************************************************************)
EXTENDS RequestMemory, FiniteSetsExt

CONSTANTS
  BODY_BUF,     \* the size of root_handler's buffer
  LineLengths   \* how long the texts of headers are

Intro == 42     \* "<html><h1>Hello, world! Your request:</h1>"
Paragraph == 7  \* "<p>" and "</p>"
Outro == 7      \* "</html>"

Template == 61         \* http_template,
Directives == 7        \* of which "%d", "%s" and "%zu" are replaced
CodeLength == 3        \* by "200",
CodeStrLength == 2     \* "OK" and the length of the body
CRLFLength == 2

ASSUME ResponseAssumption ==
  /\ BODY_BUF \in Nat /\ Intro + Outro < BODY_BUF
  /\ LineLengths \subseteq Nat

VARIABLES
  len,   \* header.len, of the headers of both lists
  page,  \* strlen(body) in root_handler
  room,  \* what sc_easy_request_build allocates
  text   \* strlen(response)

rvars == <<vars, len, page, room, text>>

Sizes == <<page, room, text>>

ResponsesTypeOK ==
  /\ DOMAIN len = BlocksOf(headers) \cup BlocksOf(own)
  /\ \A b \in DOMAIN len : len[b] \in Nat
  /\ page \in Nat /\ room \in Nat /\ text \in Nat

RInit == Init /\ len = <<>> /\ page = 0 /\ room = 0 /\ text = 0

-----------------------------------------------------------------------------
(* Headers.                                                                *)

\* sc_header_append ends a text with "\r\n", unless it has one.
Terminated_Chops(n, hasCRLF) == IF hasCRLF THEN n ELSE n - CRLFLength
Terminated(n, hasCRLF) == IF hasCRLF THEN n ELSE n + CRLFLength

\* Those of the two lists keep their lengths, and a new one gets length n.
Lengths(n) ==
  len' = [b \in BlocksOf(headers') \cup BlocksOf(own') |->
            IF b \in DOMAIN len THEN len[b] ELSE n]

\* A line of the request has no "\r\n" (next_header ends it there).
HeaderOfRequest ==
  /\ ReadHeader
  /\ \E n \in LineLengths : Lengths(Terminated(n, FALSE))
  /\ UNCHANGED Sizes

\* A header of the response may bring its own.
HeaderOfResponse ==
  /\ OwnHeader \/ AddContentType
  /\ \E n \in LineLengths :
       \/ Lengths(Terminated(n, FALSE))
       \/ n >= CRLFLength /\ Lengths(Terminated(n, TRUE))
  /\ UNCHANGED Sizes

-----------------------------------------------------------------------------
(* The page.                                                               *)

Total(list, S, extra) == MapThenSumSet(LAMBDA i : len[list[i]] + extra, S)

\* body_size, after the loop has added k headers to it.
BodySize(k) == Intro + Total(headers, 1 .. k, Paragraph)

\* 8 for the </html>
HeaderFits_Before(k) == BodySize(k - 1) + Outro + 1 < BODY_BUF
HeaderFits(k) == BodySize(k) + Outro + 1 < BODY_BUF

\* The loop stops at the first header that does not fit.
Shown ==
  CHOOSE k \in 0 .. Len(headers) :
    /\ \A i \in 1 .. k : HeaderFits(i)
    /\ k < Len(headers) => ~HeaderFits(k + 1)

WritePage ==
  /\ Found
  /\ page' = BodySize(Shown) + Outro
  /\ UNCHANGED <<len, room, text>>

-----------------------------------------------------------------------------
(* The response.                                                           *)

\* How many characters "%zu" writes.
Digits(n) ==
  CHOOSE d \in 1 .. 20 : n < 10 ^ d /\ \A e \in 1 .. d - 1 : ~(n < 10 ^ e)

\* response_len: 16 for the content-length, 4 for the \r\n\r\n, and one more
\* for each header than its length.
ResponseLen_NoHeaders == Template + CodeStrLength + CodeLength + 16 + 4 + page

ResponseLen ==
  Template + CodeStrLength + CodeLength + 16 + 4
    + Total(own, 1 .. Len(own), 1) + page

\* What snprintf writes of the template, cut at response_len - 1.
Written == Min({Template - Directives + CodeLength + CodeStrLength + Digits(page),
             ResponseLen - 1})

WriteResponse ==
  /\ Build
  /\ room' = ResponseLen + 1
  /\ text' = Written + Total(own, 1 .. Len(own), 0) + CRLFLength + page
  /\ UNCHANGED <<len, page>>

-----------------------------------------------------------------------------
\* The function returns, and its buffers are gone.
Return ==
  /\ Send \/ SendFails
  /\ Lengths(0)
  /\ page' = 0 /\ room' = 0 /\ text' = 0

\* All else writes into no buffer.
Elsewhere ==
  /\ \/ ReadLine \/ CopyDies \/ ReadHeaderFails \/ ReadEnds \/ ReadGivesUp
     \/ FoundStale \/ NotFound \/ AddContentTypeFails \/ BuildFails
     \/ FreeMessage \/ FreeHeaders \/ FreeHeadersAgain
  /\ Lengths(0)
  /\ UNCHANGED Sizes

RNext ==
  \/ HeaderOfRequest \/ HeaderOfResponse
  \/ WritePage \/ WriteResponse \/ Return \/ Elsewhere

RSpec == RInit /\ [][RNext]_rvars

-----------------------------------------------------------------------------
\* What the sizes were added up for is enough for what is then written, with
\* its '\0': the page in the buffer of root_handler, whatever headers a
\* request has, and the response in what sc_easy_request_build allocated.
BuffersHold ==
  /\ page < BODY_BUF
  /\ pc = "sending" /\ response # NULL => text < room
=============================================================================
