\* Does a Content-Length body come out whole, whatever the split of reads?
CONSTANTS
  BufferSize = 4
  LargeSize = 4
  LargeNum = 8
  Responses <- MCCL
  NoAddr = NoAddr
  Garbage = Garbage
SPECIFICATION Spec
INVARIANT BodyRoundTrip
\* the reader is one-shot: it stops at NGX_OK or NGX_ERROR
CHECK_DEADLOCK FALSE
