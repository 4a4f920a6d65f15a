\* Two calls of one request, with request bodies: does the body chain that
\* dispatch_destroy makes the free list belong to anybody else?
CONSTANTS
    c1 = c1
    c2 = c2
    Calls <- MCCalls
    NLinks = 5
    ReqLen = 2
    BodyLens = {0, 3}
    RespBodyLen = 1
    SockBufSize = 4
    MaxAgain = 1
    MaxChunks = 2
    IdWidth = 1
    Nil = Nil
SPECIFICATION Spec
INVARIANT BufferOwnership
\* Every call ends destroyed or refused: the system stops.
CHECK_DEADLOCK FALSE
