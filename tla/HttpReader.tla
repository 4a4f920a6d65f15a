----------------------------- MODULE HttpReader -----------------------------
(***************************************************************************)
(* The HTTP response reader of a dispatched call                          *)
(* (src/common/ngx_wasm_socket_tcp_readers.c) driven by the socket read    *)
(* loop that feeds it, against a peer that delivers one response in any    *)
(* split of TCP reads and may close the connection at any time.            *)
(*                                                                         *)
(* Data abstraction.  The response is a sequence of tokens (status line,   *)
(* header lines, blank line, body data, chunk-size lines, last chunk),     *)
(* each a few bytes long.  A byte is named by its index in the response    *)
(* stream, so a buffer is a window [start, end) of stream indices and a    *)
(* pointer is an address [b |-> buffer id, s |-> stream index].  Buffer    *)
(* b holds the stream bytes mem[b].lo .. mem[b].hi - 1; reading memory     *)
(* anywhere else yields Garbage, and so does a span between two pointers   *)
(* into different buffers.  nginx's status, header and chunk parsers (not  *)
(* part of this repository) are modelled by how far they consume and      *)
(* which parser fields they set.                                           *)
(***************************************************************************)
EXTENDS Integers, Sequences, SequencesExt

CONSTANTS
  BufferSize,   \* size of the socket's read buffer (sock->buffer_size)
  LargeSize,    \* wasm_socket_large_buffers size
  LargeNum,     \* wasm_socket_large_buffers number
  Responses,    \* the responses the peer may send (sequences of tokens)
  NoAddr,       \* a NULL pointer
  Garbage       \* a pointer or byte that is not what it should be

ASSUME BufferSize \in Nat \ {0} /\ LargeSize \in Nat \ {0} /\ LargeNum \in Nat

VARIABLES
  resp,     \* the response the peer sends
  sent,     \* number of response bytes the peer has delivered
  eof,      \* the peer has closed the connection
  src,      \* sock->buffer: [id, start, pos, last, end] in stream indices
  inLast,   \* sock->buf_in->buf->last, an address
  mem,      \* mem[b]: the stream bytes [lo, hi) buffer b holds
  nbusy,    \* sock->nbusy, large buffers in use
  rd,       \* the reader context (in_ctx, its fake request, headers_in)
  outcome,  \* "none", "ok" or "error": the last result of the reader
  cause     \* why the reader failed

vars == <<resp, sent, eof, src, inLast, mem, nbusy, rd, outcome, cause>>

-----------------------------------------------------------------------------
(* The response stream.                                                    *)

Len1(t) == t.len
RespLen == FoldLeft(LAMBDA acc, t : acc + Len1(t), 0, resp)

TokStart(t) == FoldLeft(LAMBDA acc, u : acc + Len1(u), 0, SubSeq(resp, 1, t - 1))

\* the token that stream byte i belongs to
TokIndex(i) ==
  CHOOSE t \in 1..Len(resp) : TokStart(t) <= i /\ i < TokStart(t) + resp[t].len

\* indices of the header-line tokens, in order
HeaderIdx == SelectSeq([t \in 1..Len(resp) |-> t], LAMBDA t : resp[t].kind = "header")

\* the stream indices of the body data, in order
ExpectedBody ==
  SelectSeq([i \in 1..RespLen |-> i - 1],
            LAMBDA i : resp[TokIndex(i)].kind = "data")

Addr == [b : Nat, s : Int]

\* a pointer that is neither NULL nor Garbage
IsAddr(a) == a \notin {NoAddr, Garbage}

At(c, s) == [b |-> c.src.id, s |-> s]

\* the byte at address a, as the stream index it holds
Byte(c, a) ==
  IF a.b \in DOMAIN c.mem /\ c.mem[a.b].lo <= a.s /\ a.s < c.mem[a.b].hi
  THEN a.s ELSE Garbage

\* ngx_memcpy of the span [a, z)
Copy(c, a, z) ==
  IF IsAddr(a) /\ IsAddr(z) /\ a.b = z.b /\ a.s <= z.s
  THEN [i \in 1..(z.s - a.s) |-> Byte(c, [b |-> a.b, s |-> a.s + i - 1])]
  ELSE <<Garbage>>

\* The parser fields set when a line parser consumes offset o - 1 of line
\* tok: a header line is a one-byte name, its value, and the line end.
LineMarks(tok) ==
  CASE tok.kind = "status" -> << {}, {"status_start"}, {"status_end"} >>
    [] tok.kind = "header" ->
         [o \in 1..tok.len |-> CASE o = 1 -> {"header_name_start"}
                                 [] o = 2 -> {"header_name_end", "header_start"}
                                 [] o = tok.len -> {"header_end"}
                                 [] OTHER -> {}]
    [] OTHER -> << {"header_name_start"} >>

FieldNames == {"request_start", "status_start", "status_end",
               "header_name_start", "header_name_end", "header_start",
               "header_end"}

RdInit ==
  [init |-> FALSE, statusN |-> 0, lineOff |-> 0,
   fields |-> [f \in FieldNames |-> NoAddr],
   statusLine |-> <<>>, headers |-> <<>>, headerDone |-> FALSE,
   cl |-> 0, chunked |-> FALSE, size |-> 0, bodyLen |-> 0,
   chunks |-> <<>>, body |-> <<>>]

-----------------------------------------------------------------------------
(* A configuration c = [src, inLast, mem, nbusy, rd] is what one call of   *)
(* the reader may change; a result is the configuration after the call,   *)
(* the return code and the cause of a failure.                             *)

Ret(c, rc) == [c |-> c, rc |-> rc, cause |-> "none"]
Fail(c, why) == [c |-> c, rc |-> "error", cause |-> why]

\* F applied to the value of x, evaluated once (TLC evaluates a LET-bound
\* name anew at each use when it computes ENABLED for the fairness)
Apply(F(_), x) == CHOOSE y \in {F(v) : v \in {x}} : TRUE

\* (size_t) a >= (size_t) b, a negative number standing for a huge one
UGE(a, b) == IF (a < 0) = (b < 0) THEN a >= b ELSE a < 0

\* ngx_wasm_read_bytes: consume min(bytes, rest) bytes
ReadBytes(bytes, rest) ==
  IF bytes = 0 THEN [rc |-> "error", adv |-> 0, rest |-> rest]
  ELSE IF UGE(bytes, rest) THEN [rc |-> "ok", adv |-> rest, rest |-> 0]
  ELSE [rc |-> "again", adv |-> bytes, rest |-> rest - bytes]

\* ngx_http_parse_status_line / ngx_http_parse_header_line on the line
\* that is token t: consume it up to its end or up to last, setting the
\* parser fields of the offsets consumed; r->state is lineOff # 0.
ParseLineAt(c, kinds, t) ==
  LET tok   == resp[t]
      ls    == c.src.pos - c.rd.lineOff
      avail == c.src.last - c.src.pos
      n     == IF tok.len - c.rd.lineOff < avail THEN tok.len - c.rd.lineOff ELSE avail
      offs  == c.rd.lineOff .. (c.rd.lineOff + n - 1)
      setAt(f) == {o \in offs : f \in LineMarks(tok)[o + 1]}
      done  == c.rd.lineOff + n = tok.len
  IN  IF ls # TokStart(t) \/ tok.kind \notin kinds
      THEN [c |-> c, rc |-> "error", tok |-> tok]
      ELSE [c   |-> [c EXCEPT !.src.pos = @ + n,
                              !.rd.lineOff = IF done THEN 0 ELSE @ + n,
                              !.rd.fields = [f \in FieldNames |->
                                 IF setAt(f) = {} THEN @[f]
                                 ELSE At(c, ls + CHOOSE o \in setAt(f) : TRUE)]],
            rc  |-> IF done THEN "ok" ELSE "again",
            tok |-> tok]

ParseLine(c, kinds) ==
  IF c.src.last - c.src.pos <= 0 THEN [c |-> c, rc |-> "again", tok |-> "none"]
  ELSE Apply(LAMBDA t : ParseLineAt(c, kinds, t), TokIndex(c.src.pos - c.rd.lineOff))

\* ngx_http_parse_chunked: one chunk-size line or the last chunk
ParseChunked(c) ==
  IF c.src.last - c.src.pos <= 0 THEN [c |-> c, rc |-> "again"]
  ELSE LET i   == TokIndex(c.src.pos)
           c1  == [c EXCEPT !.src.pos = @ + 1]
       IN  CASE c.src.pos # TokStart(i) -> [c |-> c, rc |-> "error"]
             [] resp[i].kind = "size" ->
                  [c |-> [c1 EXCEPT !.rd.size = resp[i].val], rc |-> "ok"]
             [] resp[i].kind = "last" ->
                  [c |-> [c1 EXCEPT !.rd.size = 0], rc |-> "done"]
             [] OTHER -> [c |-> c, rc |-> "error"]

-----------------------------------------------------------------------------
(* ngx_wasm_http_alloc_large_buffer                                        *)

\* a pointer rebased as new + (p - old); one before old is Garbage
RebaseField(a, old, new) ==
  IF IsAddr(a) /\ a.b = old.b /\ a.s >= old.s THEN [b |-> new, s |-> a.s]
  ELSE Garbage

\* the status-phase fields: request_start, then status->start and ->end
RebaseStatusFields(f, old, new) ==
  [f EXCEPT !["request_start"] = [b |-> new, s |-> old.s],
            !["status_start"]  = IF @ = NoAddr THEN @ ELSE RebaseField(@, old, new),
            !["status_end"]    = IF @ = NoAddr \/ f["status_start"] = NoAddr
                                 THEN @ ELSE RebaseField(@, old, new)]

\* mutant: header_start is not rebased
RebaseHeaderFields_NoHeaderStart(f, old, new) ==
  [f EXCEPT !["header_name_start"] = [b |-> new, s |-> old.s],
            !["header_name_end"]   = RebaseField(@, old, new),
            !["header_end"]        = RebaseField(@, old, new)]

\* the header-phase fields, rebased unconditionally
RebaseHeaderFields(f, old, new) ==
  [f EXCEPT !["header_name_start"] = [b |-> new, s |-> old.s],
            !["header_name_end"]   = RebaseField(@, old, new),
            !["header_start"]      = RebaseField(@, old, new),
            !["header_end"]        = RebaseField(@, old, new)]

\* mutant: a partial line one byte short of a large buffer is refused
HeadersTooLarge_OffByOne(s0, old) == s0.pos - old.s >= LargeSize - 1

\* the part of the line already read, [old, pos), fills a large buffer
HeadersTooLarge(s0, old) == s0.pos - old.s >= LargeSize

\* mutant: an off-by-one in the large buffers ceiling
LargeBufferAvailable_OffByOne(c) == c.nbusy <= LargeNum

\* sock->nbusy < loc->socket_large_buffers.num
LargeBufferAvailable(c) == c.nbusy < LargeNum

AllocLargeBuffer(c) ==
  LET s0      == c.src
      old     == IF c.rd.statusN # 0 THEN c.rd.fields["header_name_start"]
                 ELSE c.rd.fields["request_start"]
      partial == c.rd.lineOff # 0
      new     == Len(c.mem) + 1
      c1      == [c EXCEPT !.nbusy = @ + 1]
  IN
  CASE c.rd.statusN = 0 /\ ~partial ->
         \* "the client fills up the buffer with \r\n": rewind header_in
         Ret([c EXCEPT !.src = [s0 EXCEPT !.start = s0.last, !.pos = s0.last,
                                          !.end = s0.last + (s0.end - s0.start)],
                       !.mem[s0.id] = [lo |-> s0.last, hi |-> s0.last]], "ok")
    [] partial /\ ~(IsAddr(old) /\ old.b = s0.id) -> Fail(c, "wild")
    [] partial /\ HeadersTooLarge(s0, old) -> Fail(c, "too_large")
    [] ~LargeBufferAvailable(c) -> Fail(c, "limit")
    [] ~partial ->
         \* a line was parsed: install the new buffer, buf_in is kept
         Ret([c1 EXCEPT !.src = [id |-> new, start |-> s0.pos, pos |-> s0.pos,
                                 last |-> s0.pos, end |-> s0.pos + LargeSize],
                        !.mem = Append(@, [lo |-> s0.pos, hi |-> s0.pos])], "ok")
    [] OTHER ->
         \* copy [old, pos) to the new buffer's start, rebase, install
         Ret([c1 EXCEPT
                !.src = [id |-> new, start |-> old.s, pos |-> s0.pos,
                         last |-> s0.pos, end |-> old.s + LargeSize],
                !.inLast = [b |-> new, s |-> s0.pos],
                !.mem = Append(@, [lo |-> old.s, hi |-> s0.pos]),
                !.rd.fields = IF c.rd.statusN = 0
                              THEN RebaseStatusFields(@, old, new)
                              ELSE RebaseHeaderFields(@, old, new)], "ok")

\* a parser's NGX_AGAIN: a large buffer and NGX_AGAIN, or NGX_ERROR
OnAgain(c) ==
  Apply(LAMBDA a : IF a.rc = "ok" THEN Ret(a.c, "again") ELSE a, AllocLargeBuffer(c))

-----------------------------------------------------------------------------
(* ngx_wasm_read_http_response                                             *)

\* the header pushed to headers_in, and the upstream module's handlers
\* for Content-Length and Transfer-Encoding
RecordHeader(c, tok) ==
  LET f == c.rd.fields
      h == [key   |-> Copy(c, f["header_name_start"], f["header_name_end"]),
            value |-> Copy(c, f["header_start"], f["header_end"])]
  IN  [c EXCEPT !.rd.headers = Append(@, h),
                !.rd.cl = IF tok.name = "content-length" THEN tok.val ELSE @,
                !.rd.chunked = @ \/ tok.name = "transfer-encoding"]

\* the status line
StatusDone(p) ==
  LET f == p.c.rd.fields
  IN  Ret([p.c EXCEPT !.inLast = At(p.c, p.c.src.pos),
                      !.rd.statusN = p.tok.val,
                      !.rd.statusLine = Copy(p.c, f["status_start"], f["status_end"])],
          "again")

StatusStep(c) ==
  Apply(LAMBDA p : CASE p.rc = "error" -> Fail(p.c, "status")
                     [] p.rc = "again" -> OnAgain(p.c)
                     [] OTHER          -> StatusDone(p),
        ParseLine(c, {"status"}))

\* the concatenation of the non-empty body chunk views
Assemble(c) ==
  FoldLeft(LAMBDA acc, v : acc \o Copy(c, v.pos, v.last), <<>>, c.rd.chunks)

\* the end of ngx_wasm_read_http_response: copy the body into one buffer
\* of body_len bytes, NGX_OK; a negative body_len is a size_t past any
\* allocation, so ngx_wasm_chain_get_free_buf fails and so does the call
Finish(c) ==
  CASE c.rd.bodyLen < 0 -> Fail(c, "alloc")
    [] c.rd.bodyLen # 0 -> Ret([c EXCEPT !.rd.body = Assemble(c)], "ok")
    [] OTHER -> Ret(c, "ok")

\* the chunked framing of one round of the body loop
ChunkFrame(p) ==
  LET c1 == [p.c EXCEPT !.inLast = At(p.c, p.c.src.pos),
                        !.rd.bodyLen = @ + p.c.rd.size]
  IN  CASE p.rc = "error" -> [go |-> "return", r |-> Fail(p.c, "chunk")]
        [] p.rc = "again" -> [go |-> "return", r |-> Ret(p.c, "again")]
        [] p.rc = "done"  -> [go |-> "finish", r |-> Ret(c1, "ok")]
        [] OTHER          -> [go |-> "read", r |-> Ret(c1, "ok")]

\* the framing of one round of the body loop: "read" the chunk's bytes,
\* "finish", or "return" a result
BodyFrame(c) ==
  IF c.rd.chunked /\ c.rd.size = 0 THEN Apply(ChunkFrame, ParseChunked(c))
  ELSE LET c1 == IF c.rd.bodyLen = 0
                 THEN [c EXCEPT !.rd.bodyLen = c.rd.cl, !.rd.size = c.rd.cl]
                 ELSE c
       IN  [go |-> IF c1.rd.size = 0 THEN "finish" ELSE "read", r |-> Ret(c1, "ok")]

\* a chunk view b = [pos |-> src->pos, last |-> buf_in->buf->last] appended
\* to in_ctx->chunks, then ngx_wasm_read_bytes; b->last is set on NGX_OK
ReadChunk(c, bytes) ==
  LET v  == [pos |-> At(c, c.src.pos), last |-> c.inLast]
      r  == ReadBytes(bytes, c.rd.size)
      c1 == [c EXCEPT !.src.pos = @ + r.adv, !.inLast.s = @ + r.adv,
                      !.rd.size = r.rest, !.rd.chunks = Append(@, v)]
  IN  IF r.rc = "ok"
      THEN Ret([c1 EXCEPT !.rd.chunks[Len(c1.rd.chunks)].last = c1.inLast], "ok")
      ELSE [c |-> c1, rc |-> r.rc, cause |-> IF r.rc = "error" THEN "eof" ELSE "none"]

RECURSIVE BodyLoop(_, _, _)
\* the body loop; k bounds the recursion (one round per token)
BodyLoop(c, bytes, k) ==
  Apply(LAMBDA fr :
          CASE fr.go = "return" -> fr.r
            [] fr.go = "finish" -> Finish(fr.r.c)
            [] k = 0 -> Fail(c, "loop")
            [] OTHER ->
                 Apply(LAMBDA rc : IF rc.rc = "ok" THEN BodyLoop(rc.c, bytes, k - 1)
                                   ELSE rc,
                       ReadChunk(fr.r.c, bytes)),
        BodyFrame(c))

\* mutant: content_length_n = -1 (no Content-Length) taken for "no body"
Body_KnownLengthOnly(c, bytes) ==
  IF c.rd.cl > 0 \/ c.rd.chunked THEN BodyLoop(c, bytes, Len(resp))
  ELSE Finish(c)

\* headers_in->content_length_n || headers_in->chunked: -1 takes the loop
Body(c, bytes) ==
  IF c.rd.cl # 0 \/ c.rd.chunked THEN BodyLoop(c, bytes, Len(resp))
  ELSE Finish(c)

\* the blank line ends the headers
HeadersDone(c, bytes) ==
  IF c.src.pos - c.src.start >= bytes
  THEN Ret(c, IF c.rd.cl = 0 THEN "ok" ELSE "again")
  ELSE Body(c, bytes)

RECURSIVE HeaderLoop(_, _, _)
\* the header loop; k bounds the recursion (one round per token)
HeaderLoop(c, bytes, k) ==
  Apply(LAMBDA p :
          LET c1 == [p.c EXCEPT !.inLast = At(p.c, p.c.src.pos)]
          IN  CASE p.rc = "error" -> Fail(p.c, "invalid_header")
                [] p.rc = "again" -> OnAgain(p.c)
                [] p.tok.kind = "end" ->
                     Apply(LAMBDA c2 : HeadersDone(c2, bytes),
                           [c1 EXCEPT !.rd.headerDone = TRUE])
                [] k = 0 -> Fail(c1, "loop")
                [] OTHER ->
                     Apply(LAMBDA c2 : HeaderLoop(c2, bytes, k - 1),
                           RecordHeader(c1, p.tok)),
        ParseLine(c, {"header", "end"}))

\* the fake request's first-call initialisation
InitRequest(c) ==
  IF c.rd.init THEN c
  ELSE [c EXCEPT !.rd.init = TRUE, !.rd.cl = -1,
                 !.rd.fields["request_start"] = At(c, c.src.pos)]

\* the status line, the headers or the body, whichever is next
ParseResponse(c, bytes) ==
  Apply(LAMBDA c0 :
          CASE ~c0.rd.headerDone /\ c0.rd.statusN = 0 -> StatusStep(c0)
            [] ~c0.rd.headerDone -> HeaderLoop(c0, bytes, Len(resp))
            [] OTHER -> Body(c0, bytes),
        InitRequest(c))

ReadHttpResponse(c, bytes) ==
  IF bytes = 0 THEN Fail(c, "eof") ELSE ParseResponse(c, bytes)

-----------------------------------------------------------------------------
(* The socket read loop (ngx_wasm_socket_tcp_read, outside this            *)
(* repository) and the peer.                                               *)

Cfg == [src |-> src, inLast |-> inLast, mem |-> mem, nbusy |-> nbusy, rd |-> rd]

Init ==
  /\ resp \in Responses
  /\ sent = 0
  /\ eof = FALSE
  /\ src = [id |-> 1, start |-> 0, pos |-> 0, last |-> 0, end |-> BufferSize]
  /\ inLast = [b |-> 1, s |-> 0]
  /\ mem = << [lo |-> 0, hi |-> 0] >>
  /\ nbusy = 0
  /\ rd = RdInit
  /\ outcome = "none"
  /\ cause = "none"

\* The loop hands the reader the unread bytes of sock->buffer (or 0 at
\* end of file) until the reader returns NGX_OK or NGX_ERROR.
Read ==
  /\ outcome = "none"
  /\ src.last # src.pos \/ eof
  /\ \E r \in {ReadHttpResponse(Cfg, src.last - src.pos)} :
         /\ src' = r.c.src
         /\ inLast' = r.c.inLast
         /\ mem' = r.c.mem
         /\ nbusy' = r.c.nbusy
         /\ rd' = r.c.rd
         /\ outcome' = IF r.rc = "again" THEN "none" ELSE r.rc
         /\ cause' = r.cause
  /\ UNCHANGED <<resp, sent, eof>>

\* The loop receives k more bytes at sock->buffer.last; a full, consumed
\* buffer is replaced by a fresh one of buffer_size that buf_in follows.
Recv ==
  /\ outcome = "none"
  /\ src.pos = src.last
  /\ ~eof
  /\ sent < RespLen
  /\ LET full == src.last = src.end
         id   == IF full THEN Len(mem) + 1 ELSE src.id
         b0   == IF full
                 THEN [id |-> id, start |-> src.last, pos |-> src.last,
                       last |-> src.last, end |-> src.last + BufferSize]
                 ELSE src
         m0   == IF full THEN Append(mem, [lo |-> src.last, hi |-> src.last])
                 ELSE mem
         room == IF b0.end - b0.last < RespLen - sent
                 THEN b0.end - b0.last ELSE RespLen - sent
     IN  \E k \in 1..room :
           /\ src' = [b0 EXCEPT !.last = @ + k]
           /\ mem' = [m0 EXCEPT ![id].hi = b0.last + k]
           /\ sent' = sent + k
           /\ inLast' = IF full THEN [b |-> id, s |-> b0.start] ELSE inLast
  /\ UNCHANGED <<resp, eof, nbusy, rd, outcome, cause>>

\* The peer closes the connection, possibly before the whole response.
Close ==
  /\ outcome = "none"
  /\ ~eof
  /\ eof' = TRUE
  /\ UNCHANGED <<resp, sent, src, inLast, mem, nbusy, rd, outcome, cause>>

Next == Read \/ Recv \/ Close

Spec == Init /\ [][Next]_vars /\ WF_vars(Read) /\ WF_vars(Recv) /\ WF_vars(Close)

-----------------------------------------------------------------------------
(* Properties                                                              *)

TypeOK ==
  /\ sent \in 0..RespLen
  /\ eof \in BOOLEAN
  /\ src \in [id : Nat, start : Int, pos : Int, last : Int, end : Int]
  /\ inLast \in Addr
  /\ nbusy \in 0..LargeNum
  /\ outcome \in {"none", "ok", "error"}
  /\ rd.statusN \in Nat /\ rd.lineOff \in Nat
  /\ \A f \in FieldNames : ~IsAddr(rd.fields[f]) \/ rd.fields[f] \in Addr

\* Every status line and header the reader has recorded holds exactly the
\* bytes of the response (code and header key and value), whatever the
\* split of the reads and the large buffers allocated and copied on the
\* way; all headers are recorded once the blank line is parsed.
HeadersRoundTrip ==
  /\ rd.statusN # 0 => rd.statusLine = << TokStart(1) + 1 >>
  /\ Len(rd.headers) <= Len(HeaderIdx)
  /\ \A i \in 1..Len(rd.headers) :
       LET ls == TokStart(HeaderIdx[i])
       IN  rd.headers[i] = [key |-> <<ls>>,
                            value |-> [j \in 1..resp[HeaderIdx[i]].len - 2 |-> ls + j]]
  /\ rd.headerDone => Len(rd.headers) = Len(HeaderIdx)

\* A reader that returns NGX_OK has assembled exactly the response body.
BodyRoundTrip == outcome = "ok" => rd.body = ExpectedBody

LargeBufferOnExhaustion == [][nbusy' > nbusy => src.last = src.end]_vars

\* A reader that returns NGX_OK has counted exactly the body the peer
\* sends: the body loop of ngx_wasm_read_http_response is left only at
\* the framing's end, and a response without Content-Length (length -1)
\* or chunked framing is never reported complete.
BodyLengthExact == outcome = "ok" => rd.bodyLen = Len(ExpectedBody)

\* ngx_wasm_http_alloc_large_buffer refuses a response as "too large"
\* only when one of its lines does not fit in a large buffer: a line as
\* long as wasm_socket_large_buffers' size is copied and read whole.
LinesFitAccepted ==
  cause = "too_large" => \E t \in 1..Len(resp) : resp[t].len > LargeSize
=============================================================================
