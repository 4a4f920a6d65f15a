\* Two calls of one request without request bodies, every interleaving of
\* their events, timeouts and transport outcomes (2 NGX_AGAIN each, 3 chunks).
CONSTANTS
    c1 = c1
    c2 = c2
    Calls <- MCCalls
    NLinks = 6
    ReqLen = 2
    BodyLens = {0}
    RespBodyLen = 1
    SockBufSize = 4
    MaxAgain = 2
    MaxChunks = 3
    IdWidth = 1
    Nil = Nil
SPECIFICATION Spec
INVARIANTS TypeOK BufferOwnership CompletesOnce
PROPERTIES LifecycleSpec
\* Every call ends destroyed or refused: the system stops.
CHECK_DEADLOCK FALSE
