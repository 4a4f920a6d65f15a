-------------------------- MODULE ReaderPrimitives --------------------------
(***************************************************************************)
(* ngx_wasm_read_line (src/common/ngx_wasm_socket_tcp_readers.c), the    *)
(* resumable line reader of the socket: each call reads the bytes that    *)
(* one TCP read delivered at src->pos and copies them, CRs dropped, to     *)
(* buf_in->buf->last, until the LF.  buf_in's buffer is the socket buffer  *)
(* itself (ngx_wasm_read_all advances its last without copying), so the    *)
(* copy is made in place, behind src->pos.                                 *)
(*                                                                         *)
(* A buffer is a sequence of bytes; pos and dst are 1-based indices into   *)
(* it.  The callers (ngx_wasm_socket_tcp.c) are not in this repository:    *)
(* Deliver models them, one call per TCP read, then 0 bytes at the end.    *)
(***************************************************************************)
EXTENDS Integers, Sequences, SequencesExt

CONSTANTS
  CR, LF,       \* the two bytes read_line interprets
  Chars,        \* the other bytes of an input
  MaxLineLen    \* bound on the length of an input

Bytes == Chars \cup {CR, LF}

\* the state of one reading: the buffer, src->pos and buf_in->buf->last
Cursor(m, pos, dst, rc) == [m |-> m, pos |-> pos, dst |-> dst, rc |-> rc]

RECURSIVE Scan(_, _)
\* the while (bytes--) loop: n bytes left of this call
Scan(c, n) ==
  IF n = 0 THEN [c EXCEPT !.rc = "again"]
  ELSE CASE c.m[c.pos] = LF -> [c EXCEPT !.pos = @ + 1, !.rc = "ok"]
         [] c.m[c.pos] = CR -> Scan([c EXCEPT !.pos = @ + 1], n - 1)
         [] OTHER -> Scan([c EXCEPT !.m[c.dst] = c.m[c.pos], !.pos = @ + 1,
                                    !.dst = @ + 1], n - 1)

\* mutant: dst restarts at the buffer's start on every call, losing the
\* partial line of the earlier calls
ReadLine_ResetDst(c, bytes) ==
  IF bytes = 0 THEN [c EXCEPT !.rc = "error"] ELSE Scan([c EXCEPT !.dst = 1], bytes)

\* ngx_wasm_read_line: NGX_ERROR on 0 bytes, else the scan from dst =
\* buf_in->buf->last, which is stored back on both returns
ReadLine(c, bytes) ==
  IF bytes = 0 THEN [c EXCEPT !.rc = "error"] ELSE Scan(c, bytes)

VARIABLES
  in,    \* the bytes the peer sends
  sent,  \* how many of them it has delivered to the socket buffer
  eof,   \* the peer has closed the connection
  cur    \* Cursor: the socket buffer, src->pos, buf_in->buf->last, last rc

vars == <<in, sent, eof, cur>>

\* the socket buffer holds the bytes delivered so far; beyond them, data
\* the properties do not read
Init ==
  /\ \E n \in 1..MaxLineLen : in \in [1..n -> Bytes]
  /\ sent = 0
  /\ eof = FALSE
  /\ cur = Cursor(in, 1, 1, "again")

\* the socket loop calls the reader with the unread bytes, or with 0 at
\* end of file, while it returns NGX_AGAIN
Call ==
  /\ cur.rc = "again"
  /\ sent + 1 > cur.pos \/ eof
  /\ cur' = ReadLine(cur, sent + 1 - cur.pos)
  /\ UNCHANGED <<in, sent, eof>>

\* a TCP read of k more bytes, once the reader has consumed the earlier ones
Recv ==
  /\ cur.rc = "again" /\ ~eof
  /\ sent + 1 = cur.pos
  /\ \E k \in 1..Len(in) - sent : sent' = sent + k
  /\ UNCHANGED <<in, eof, cur>>

\* the peer closes the connection, possibly before the LF
Close ==
  /\ cur.rc = "again" /\ ~eof
  /\ eof' = TRUE
  /\ UNCHANGED <<in, sent, cur>>

Next == Call \/ Recv \/ Close

Spec == Init /\ [][Next]_vars

-----------------------------------------------------------------------------
(* Properties                                                              *)

TypeOK ==
  /\ sent \in 0..Len(in) /\ eof \in BOOLEAN
  /\ cur.rc \in {"again", "ok", "error"}
  /\ cur.pos \in 1..Len(in) + 1 /\ cur.dst \in 1..cur.pos

\* the reference: the bytes of s before its first LF, without the CRs
NoCR(s) == SelectSeq(s, LAMBDA b : b # CR)
BeforeLF(s) ==
  IF \E i \in 1..Len(s) : s[i] = LF
  THEN SubSeq(s, 1, (CHOOSE i \in 1..Len(s) : s[i] = LF /\ \A j \in 1..i - 1 : s[j] # LF) - 1)
  ELSE s

\* Across the resumed calls of ngx_wasm_read_line, whatever the split of
\* the input into TCP reads, buf_in holds the bytes consumed so far without
\* the CRs, copied in place behind src->pos without overwriting an unread
\* byte: after NGX_AGAIN the partial line, after NGX_OK the line before
\* the first LF with src->pos just past it.  NGX_ERROR comes only at end
\* of file before an LF.
LineSoFar ==
  LET consumed == SubSeq(in, 1, cur.pos - 1)
  IN  /\ SubSeq(cur.m, 1, cur.dst - 1) = NoCR(BeforeLF(consumed))
      /\ SubSeq(cur.m, cur.pos, sent) = SubSeq(in, cur.pos, sent)
      /\ cur.rc = "ok" => /\ consumed[cur.pos - 1] = LF
                          /\ BeforeLF(consumed) = SubSeq(consumed, 1, cur.pos - 2)
      /\ cur.rc = "error" => eof /\ \A i \in 1..sent : in[i] # LF
=============================================================================
