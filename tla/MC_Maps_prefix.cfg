\* Keys that are prefixes of special keys (":", ":p", the empty key).
CONSTANTS
    NotFoundV = NotFoundV
    NilV = NilV
    NotFound <- NotFoundV
    Nil <- NilV
    Keys <- MCPrefixKeys
    Vals <- MCVals
    Shims <- MCShims
    MaxHeaders = 2
    SchemeVar = "http"
    ServerName = ""
    Hostname = "h"
    Port = 8080
    AllocFails = FALSE
    SockaddrFails = FALSE
SPECIFICATION Spec
PROPERTIES SpecialKeysExact
CHECK_DEADLOCK FALSE
