-------------------------- MODULE MC_RequestParser --------------------------
(* Short requests in small buffers. *)
EXTENDS RequestParser

Line(n) == [i \in 1 .. n |-> "x"]
KeepAlive == <<"k", "a">>

Request(m, u, hs) == [method |-> Line(m), uri |-> Line(u), headers |-> hs]

\* A header of the longest line that fits.
LongestLine == HEADER_BUF_SIZE - Len(CRLF) - 1

\* Alone: URIs and lines that fit to the last byte, are one too long, or much
\* too long; the text of keep-alive in two headers.
Alone ==
  {Request(1, u, <<KeepAlive>>) :
     u \in {1, URL_BUF_SIZE - 1, URL_BUF_SIZE, URL_BUF_SIZE + 1, HEADER_BUF_SIZE}}
  \cup {Request(m, 1, <<>>) : m \in {METHOD_BUF_SIZE, METHOD_BUF_SIZE + 1}}
  \cup {Request(1, 1, hs) :
          hs \in {<<KeepAlive, Line(LongestLine)>>,
                  <<KeepAlive, Line(LongestLine + 1), KeepAlive>>,
                  <<KeepAlive, Line(2 * HEADER_BUF_SIZE)>>,
                  <<<<"k">> \o Line(LongestLine) \o KeepAlive>>,
                  <<<<"k">>, <<"a">>>>}}

\* Pipelined: the second request is read only if the first asks to be kept.
Pairs ==
  {<<Request(1, 1, hs), Request(1, 2, <<Line(1)>>)>> :
     hs \in {<<>>, <<KeepAlive>>, <<Line(1), KeepAlive>>}}

ShortRequests == {<<r>> : r \in Alone} \cup Pairs
=============================================================================
