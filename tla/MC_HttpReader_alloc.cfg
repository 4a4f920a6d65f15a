\* Does the reader allocate a large buffer only when sock->buffer is full?
CONSTANTS
  BufferSize = 4
  LargeSize = 4
  LargeNum = 8
  Responses <- MCFramed
  NoAddr = NoAddr
  Garbage = Garbage
SPECIFICATION Spec
PROPERTY LargeBufferOnExhaustion
\* the reader is one-shot: it stops at NGX_OK or NGX_ERROR
CHECK_DEADLOCK FALSE
