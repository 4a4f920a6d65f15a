\* Framed (Content-Length and chunked), empty and unframed responses, lines that fit a large buffer and one that does not,
\* every split of the reads, an early close, and a reachable large-buffer ceiling.
CONSTANTS
  BufferSize = 4
  LargeSize = 4
  LargeNum = 2
  Responses <- MCAll
  NoAddr = NoAddr
  Garbage = Garbage
SPECIFICATION Spec
INVARIANTS TypeOK HeadersRoundTrip BodyLengthExact LinesFitAccepted
\* the reader is one-shot: it stops at NGX_OK or NGX_ERROR
CHECK_DEADLOCK FALSE
