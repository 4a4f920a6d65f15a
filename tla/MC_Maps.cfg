\* Faithful allocations and sockaddr: the properties hold.
CONSTANTS
    NotFoundV = NotFoundV
    NilV = NilV
    NotFound <- NotFoundV
    Nil <- NilV
    Keys <- MCKeys
    Vals <- MCVals
    Shims <- MCShims
    MaxHeaders = 2
    SchemeVar = "http"
    ServerName = ""
    Hostname = "h"
    Port = 8080
    AllocFails = FALSE
    SockaddrFails = FALSE
SPECIFICATION Spec
INVARIANTS TypeOK PseudoHeadersNotInList AuthorityCorrect
PROPERTIES SpecialKeysExact
CHECK_DEADLOCK FALSE
