--------------------------- MODULE MC_HttpReader ---------------------------
(* Responses for model checking the reader: a status line, header lines,  *)
(* the blank line and a body framed by Content-Length or chunked.         *)
EXTENDS HttpReader

Tok(k, n, nm, v) == [kind |-> k, len |-> n, name |-> nm, val |-> v]

StatusTok  == Tok("status", 3, "none", 200)
EndTok     == Tok("end", 1, "none", 0)
CL(n)      == Tok("header", 3, "content-length", n)
TE         == Tok("header", 3, "transfer-encoding", 0)
Other      == Tok("header", 3, "other", 0)
Long(n)    == Tok("header", n, "other", 0)
Data(n)    == Tok("data", n, "none", 0)
Size(n)    == Tok("size", 1, "none", n)
LastChunk  == Tok("last", 1, "none", 0)

\* Content-Length: 2 with a body of two bytes
RespCL      == << StatusTok, Other, CL(2), EndTok, Data(2) >>
\* chunked, one chunk of one byte
RespChunked == << StatusTok, TE, EndTok, Size(1), Data(1), LastChunk >>
\* Content-Length: 0
RespEmpty   == << StatusTok, CL(0), EndTok >>

\* neither Content-Length nor chunked: the body runs to the close; a
\* header line as long as a large buffer (LargeSize 4)
RespUnframed == << StatusTok, Long(4), EndTok, Data(1) >>
\* a header line longer than a large buffer
RespTooLong  == << StatusTok, Long(5), CL(0), EndTok >>

\* the responses of a run
MCFramed    == {RespCL, RespEmpty}
MCAll       == {RespCL, RespEmpty, RespUnframed, RespTooLong, RespChunked}
MCCL        == {RespCL}
MCChunked   == {RespChunked}

=============================================================================
