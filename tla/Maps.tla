-------------------------------- MODULE Maps --------------------------------
(***************************************************************************)
(* The proxy-wasm header maps, common/proxy_wasm/ngx_proxy_wasm_maps.c:    *)
(* the filter's get, set, get_all and set_all on the request and response  *)
(* headers, in front of which sits the table of special keys (:path,       *)
(* :method, :scheme, :authority) with their getters and setters, and the   *)
(* stream context's cached :scheme and :authority.                         *)
(*                                                                         *)
(* A key is a sequence of characters, because the special-key lookup is a  *)
(* byte comparison (ngx_strncmp); header values are model strings.         *)
(***************************************************************************)
EXTENDS Integers, Sequences, SequencesExt

CONSTANTS
    Keys,          \* the keys a filter passes (sequences of characters)
    Vals,          \* the values a filter passes
    MaxHeaders,    \* length bound of each header list
    Shims,         \* the shim response headers of ngx_http_header_filter
    SchemeVar,     \* the $scheme variable, or NotFound
    ServerName,    \* cscf->server_name ("" when unset)
    Hostname,      \* ngx_cycle->hostname
    Port,          \* the port of the local sockaddr (0 for a unix socket)
    AllocFails,    \* whether ngx_palloc and friends may return NULL
    SockaddrFails, \* whether ngx_connection_local_sockaddr may fail
    NotFound, Nil

KPath      == <<":", "p", "a", "t", "h">>
KMethod    == <<":", "m", "e", "t", "h", "o", "d">>
KScheme    == <<":", "s", "c", "h", "e", "m", "e">>
KAuthority == <<":", "a", "u", "t", "h", "o", "r", "i", "t", "y">>

MapTypes == {"req", "resp"}

\* ngx_proxy_wasm_maps_special_keys: key, map type, getter, setter (Nil:
\* read-only), in table order.
SpecialKeys ==
    << [key |-> KPath,      mt |-> "req", get |-> "path",      set |-> "path"],
       [key |-> KMethod,    mt |-> "req", get |-> "method",    set |-> "method"],
       [key |-> KScheme,    mt |-> "req", get |-> "scheme",    set |-> Nil],
       [key |-> KAuthority, mt |-> "req", get |-> "authority", set |-> Nil] >>

VARIABLES
    headers,    \* r->headers_in.headers and r->headers_out.headers, by map type
    uri,        \* r->uri
    method,     \* r->method_name
    scheme,     \* sctx->scheme ("" while not cached)
    authority,  \* sctx->authority: [len, data]; data is Nil or [name, port]
    crashed,    \* a NULL value was dereferenced
    last        \* the last call of the filter, its arguments and its result

vars == <<headers, uri, method, scheme, authority, crashed, last>>

\* The state the C functions read and write, as one record.
World == [headers |-> headers, uri |-> uri, method |-> method,
          scheme |-> scheme, authority |-> authority, crashed |-> crashed]

SetWorld(w) ==
    /\ headers' = w.headers /\ uri' = w.uri /\ method' = w.method
    /\ scheme' = w.scheme /\ authority' = w.authority /\ crashed' = w.crashed

\* A result: the new world and a value (Nil for NULL) or return code.
Res(w, v) == [w |-> w, v |-> v]

-----------------------------------------------------------------------------
(* Getters and setters of the special keys *)

\* ngx_proxy_wasm_maps_get_scheme: the cached value, else $scheme, cached.
GetScheme(w, oom) ==
    CASE w.scheme # "" -> Res(w, w.scheme)
      [] oom \/ SchemeVar = NotFound -> Res(w, Nil)
      [] OTHER -> Res([w EXCEPT !.scheme = SchemeVar], SchemeVar)

\* The authority the code prints: the server name (the hostname when it is
\* unset), and ":port" when there is a port.
AuthName == IF ServerName # "" THEN ServerName ELSE Hostname
AuthorityValue == [name |-> AuthName, port |-> Port]
HasPort == Port # 0 /\ Port < 65536

\* The number of decimal digits %ui prints.
RECURSIVE Digits(_)
Digits(n) == IF n < 10 THEN 1 ELSE 1 + Digits(n \div 10)

\* Mutant: the printed length never replaces the reserved one.
GetAuthority_ReservedLen(w, oom, sockFail) ==
    LET reserved == Len(AuthName) + (IF HasPort THEN 1 + 5 ELSE 0) IN
    CASE w.authority.len # 0 -> Res(w, w.authority)
      [] sockFail -> Res(w, Nil)
      [] oom -> Res([w EXCEPT !.authority = [len |-> reserved, data |-> Nil]], Nil)
      [] OTHER ->
            LET a == [len |-> reserved, data |-> AuthorityValue]
            IN  Res([w EXCEPT !.authority = a], a)

\* ngx_proxy_wasm_maps_get_authority: the cached value when its len is not
\* 0; else len is set to the reserved length, the data is allocated, and
\* the printed length replaces it.
GetAuthority(w, oom, sockFail) ==
    LET reserved == Len(AuthName) + (IF HasPort THEN 1 + 5 ELSE 0)
        printed  == Len(AuthName) + (IF HasPort THEN 1 + Digits(Port) ELSE 0)
    IN
    CASE w.authority.len # 0 -> Res(w, w.authority)
      [] sockFail -> Res(w, Nil)
      [] oom -> Res([w EXCEPT !.authority = [len |-> reserved, data |-> Nil]], Nil)
      [] OTHER ->
            LET a == [len |-> printed, data |-> AuthorityValue]
            IN  Res([w EXCEPT !.authority = a], a)

\* The getter named g; get_path and get_method return &r->uri and
\* &r->method_name.
CallGetter(w, g, oom, sockFail) ==
    CASE g = "path" -> Res(w, w.uri)
      [] g = "method" -> Res(w, w.method)
      [] g = "scheme" -> GetScheme(w, oom)
      [] OTHER -> GetAuthority(w, oom, sockFail)

\* ngx_strncmp(mkey->key.data, key->data, key->len) == 0: the first
\* key->len bytes agree, so any prefix of the special key matches.
StrnMatch(mkey, key) == IsPrefix(key, mkey)

\* Mutant: the map type of the special key is not compared.
SpecialIndex_AnyMapType(mt, key) ==
    LET hits == {i \in 1..Len(SpecialKeys) : StrnMatch(SpecialKeys[i].key, key)}
    IN  IF hits = {} THEN 0 ELSE CHOOSE i \in hits : \A j \in hits : i <= j

\* The index of the first special key of map type mt that key matches, 0
\* for none.
SpecialIndex(mt, key) ==
    LET hits == {i \in 1..Len(SpecialKeys) :
                    SpecialKeys[i].mt = mt /\ StrnMatch(SpecialKeys[i].key, key)}
    IN  IF hits = {} THEN 0 ELSE CHOOSE i \in hits : \A j \in hits : i <= j

\* ngx_proxy_wasm_maps_get_special_key.
GetSpecialKey(w, mt, key, oom, sockFail) ==
    LET i == SpecialIndex(mt, key) IN
    IF i = 0 THEN Res(w, Nil) ELSE CallGetter(w, SpecialKeys[i].get, oom, sockFail)

\* Mutant: a setter's NGX_OK does not end the loop with NGX_DONE.
SetSpecialKey_SetterFallsThrough(w, mt, key, val) ==
    LET i == SpecialIndex(mt, key) IN
    CASE i = 0 -> Res(w, "declined")
      [] SpecialKeys[i].set = Nil -> Res(w, "abort")
      [] SpecialKeys[i].set = "path" -> Res([w EXCEPT !.uri = val], "declined")
      [] OTHER -> Res([w EXCEPT !.method = val], "declined")

\* ngx_proxy_wasm_maps_set_special_key: "abort" for a read-only key, "done"
\* when a setter took the value (set_path and set_method always do),
\* "declined" when no special key matched.
SetSpecialKey(w, mt, key, val) ==
    LET i == SpecialIndex(mt, key) IN
    CASE i = 0 -> Res(w, "declined")
      [] SpecialKeys[i].set = Nil -> Res(w, "abort")
      [] SpecialKeys[i].set = "path" -> Res([w EXCEPT !.uri = val], "done")
      [] OTHER -> Res([w EXCEPT !.method = val], "done")

-----------------------------------------------------------------------------
(* The header lists (ngx_wasm_get_list_elem, ngx_http_wasm_set_req_header,  *)
(* ngx_http_wasm_set_resp_header and the shim headers are not in this       *)
(* repository: replace-all, append, remove-all-matching, first match)       *)

Without(l, key) == SelectSeq(l, LAMBDA h : h.key # key)

ListOp(l, key, val, mode) ==
    CASE mode = "set" -> Append(Without(l, key), [key |-> key, val |-> val])
      [] mode = "add" -> Append(l, [key |-> key, val |-> val])
      [] OTHER -> Without(l, key)

\* The value of the first element of l with key, Nil when none has it.
ListGet(l, key) ==
    LET is == {i \in 1..Len(l) : l[i].key = key} IN
    IF is = {} THEN Nil ELSE l[CHOOSE i \in is : \A j \in is : i <= j].val

-----------------------------------------------------------------------------
(* The map operations *)

\* ngx_proxy_wasm_maps_get: a special key, else the list, else (response
\* headers) the shim headers.  A special getter that returns NULL falls
\* through to the list.
MapsGet(w, mt, key, oom, sockFail) ==
    LET sp == GetSpecialKey(w, mt, key, oom, sockFail)
        lv == ListGet(w.headers[mt], key)
    IN  CASE sp.v # Nil -> sp
          [] lv # Nil -> Res(sp.w, lv)
          [] mt = "resp" -> Res(sp.w, ListGet(Shims, key))
          [] OTHER -> Res(sp.w, Nil)

\* Mutant: NGX_DONE of a setter is returned to the filter as it is.
MapsSet_DoneNotOk(w, mt, key, val, op, oom) ==
    LET sp == SetSpecialKey(w, mt, key, val) IN
    CASE op # "remove" /\ oom -> Res(w, "error")
      [] sp.v = "done" -> Res(sp.w, "done")
      [] sp.v = "abort" -> Res(sp.w, "abort")
      [] OTHER -> Res([sp.w EXCEPT !.headers[mt] = ListOp(@, key, val, op)], "ok")

\* ngx_proxy_wasm_maps_set with op "set", "add" or "remove": copy key and
\* value for set and add (NULL: error), then the special keys, then the
\* list.  A bad header value (NGX_DECLINED of the list setter) counts as ok.
MapsSet(w, mt, key, val, op, oom) ==
    LET sp == SetSpecialKey(w, mt, key, val) IN
    CASE op # "remove" /\ oom -> Res(w, "error")
      [] sp.v = "done" -> Res(sp.w, "ok")
      [] sp.v = "abort" -> Res(sp.w, "abort")
      [] OTHER -> Res([sp.w EXCEPT !.headers[mt] = ListOp(@, key, val, op)], "ok")

\* ngx_proxy_wasm_maps_set_all: set each pair in turn, stopping at the first
\* that fails; oomAt is the pair whose copy fails (0: none).
RECURSIVE SetAllFrom(_, _, _, _, _)
SetAllFrom(w, mt, pairs, i, oomAt) ==
    IF i > Len(pairs) THEN Res(w, "ok")
    ELSE LET r == MapsSet(w, mt, pairs[i].key, pairs[i].val, "set", i = oomAt) IN
         IF r.v # "ok" THEN r ELSE SetAllFrom(r.w, mt, pairs, i + 1, oomAt)

MapsSetAll(w, mt, pairs, oomAt) == SetAllFrom(w, mt, pairs, 1, oomAt)

\* ngx_proxy_wasm_maps_get_all with extras: the list, then every special key
\* of the map type with its getter's value (*value is read without a NULL
\* check, behind ngx_wasm_assert(value)), then the shim headers for the
\* response; ngx_array_push failing (oom) returns NULL.
RECURSIVE ExtrasFrom(_, _, _, _, _)
ExtrasFrom(w, mt, i, oom, sockFail) ==
    IF i > Len(SpecialKeys) THEN Res(w, <<>>)
    ELSE IF SpecialKeys[i].mt # mt THEN ExtrasFrom(w, mt, i + 1, oom, sockFail)
    ELSE LET g == CallGetter(w, SpecialKeys[i].get, oom, sockFail) IN
         IF g.v = Nil THEN Res([g.w EXCEPT !.crashed = TRUE], <<>>)
         ELSE LET rest == ExtrasFrom(g.w, mt, i + 1, oom, sockFail) IN
              Res(rest.w, <<[key |-> SpecialKeys[i].key, val |-> g.v]>> \o rest.v)

MapsGetAll(w, mt, oom, sockFail) ==
    LET e == ExtrasFrom(w, mt, 1, oom, sockFail) IN
    CASE e.w.crashed -> Res(e.w, Nil)
      [] oom -> Res(e.w, Nil)
      [] OTHER -> Res(e.w, w.headers[mt] \o e.v \o (IF mt = "resp" THEN Shims ELSE <<>>))

-----------------------------------------------------------------------------
(* The filter's calls *)

Fails(b) == IF b THEN BOOLEAN ELSE {FALSE}

NoArgs == [op |-> "none", mt |-> "req", key |-> <<>>, val |-> "", pairs |-> <<>>, ret |-> Nil]

Init ==
    /\ headers = [mt \in MapTypes |-> <<>>]
    /\ uri = "/"
    /\ method = "GET"
    /\ scheme = ""
    /\ authority = [len |-> 0, data |-> Nil]
    /\ crashed = FALSE
    /\ last = NoArgs

Room(mt, n) == Len(headers[mt]) + n <= MaxHeaders

Get(mt, key) ==
    /\ ~crashed
    /\ \E oom \in Fails(AllocFails), sf \in Fails(SockaddrFails) :
         \E r \in {MapsGet(World, mt, key, oom, sf)} :
            /\ SetWorld(r.w)
            /\ last' = [NoArgs EXCEPT !.op = "get", !.mt = mt, !.key = key, !.ret = r.v]

Set(mt, key, val, op) ==
    /\ ~crashed /\ Room(mt, 1)
    /\ \E oom \in Fails(AllocFails) :
         \E r \in {MapsSet(World, mt, key, val, op, oom)} :
            /\ SetWorld(r.w)
            /\ last' = [NoArgs EXCEPT !.op = op, !.mt = mt, !.key = key,
                                      !.val = val, !.ret = r.v]

SetAll(mt, pairs) ==
    /\ ~crashed /\ Room(mt, Len(pairs))
    /\ \E oomAt \in IF AllocFails THEN 0..Len(pairs) ELSE {0} :
         \E r \in {MapsSetAll(World, mt, pairs, oomAt)} :
            /\ SetWorld(r.w)
            /\ last' = [NoArgs EXCEPT !.op = "set_all", !.mt = mt, !.pairs = pairs,
                                      !.ret = r.v]

GetAll(mt) ==
    /\ ~crashed
    /\ \E oom \in Fails(AllocFails), sf \in Fails(SockaddrFails) :
         \E r \in {MapsGetAll(World, mt, oom, sf)} :
            /\ SetWorld(r.w)
            /\ last' = [NoArgs EXCEPT !.op = "get_all", !.mt = mt, !.ret = r.v]

Pairs == [key : Keys, val : Vals]

Next ==
    \E mt \in MapTypes :
        \/ \E key \in Keys : Get(mt, key)
        \/ \E key \in Keys, val \in Vals, op \in {"set", "add", "remove"} : Set(mt, key, val, op)
        \/ \E p1, p2 \in Pairs : SetAll(mt, <<p1, p2>>)
        \/ GetAll(mt)

Spec == Init /\ [][Next]_vars

-----------------------------------------------------------------------------
(* Properties *)

SpecialNames == {SpecialKeys[i].key : i \in 1..Len(SpecialKeys)}
Header == [key : Keys, val : Vals]
Authority == [len : Nat, data : {Nil} \cup {AuthorityValue}]
\* The filter's calls see only NGX_OK, NGX_ERROR and NGX_ABORT from set and
\* set_all (ngx_proxy_wasm_maps_set turns the setters' NGX_DONE and the
\* lists' NGX_DECLINED into NGX_OK).
TypeOK ==
    /\ headers \in [MapTypes -> Seq(Header)]
    /\ \A mt \in MapTypes : Len(headers[mt]) <= MaxHeaders
    /\ uri \in {"/"} \cup Vals /\ method \in {"GET"} \cup Vals
    /\ scheme \in {"", SchemeVar} /\ authority \in Authority
    /\ crashed \in BOOLEAN
    /\ last.op \in {"set", "add", "remove", "set_all"} => last.ret \in {"ok", "error", "abort"}

\* The pseudo-headers never reach the request header list (spec: the
\* special keys precede the list on write, so a pseudo-header never appears
\* twice): set, add, remove and set_all of :path, :method, :scheme and
\* :authority are taken by a setter or refused as read-only.
PseudoHeadersNotInList ==
    \A i \in 1..Len(headers["req"]) : headers["req"][i].key \notin SpecialNames

\* Only a request-header call whose key is exactly :path (:method) changes
\* r->uri (r->method_name), and a get of any other key is answered by the
\* header list or the shim headers: the special-key table in
\* ngx_proxy_wasm_maps_get_special_key and _set_special_key is matched by map
\* type and key.
SetsKey(k) == last'.key = k \/ \E i \in 1..Len(last'.pairs) : last'.pairs[i].key = k
SpecialKeysExact ==
    [][ /\ uri' # uri => last'.mt = "req" /\ SetsKey(KPath)
        /\ method' # method => last'.mt = "req" /\ SetsKey(KMethod)
        /\ last'.op = "get" /\ ~(last'.mt = "req" /\ last'.key \in SpecialNames) =>
             last'.ret = LET lv == ListGet(headers[last'.mt], last'.key) IN
                         IF lv = Nil /\ last'.mt = "resp" THEN ListGet(Shims, last'.key) ELSE lv
      ]_vars

\* Every :authority the filter reads, by get or in the get_all view, is the
\* server name and port ngx_proxy_wasm_maps_get_authority prints, with the
\* printed length; repeated gets return the value cached by the first.
AuthorityRead ==
    CASE last.op = "get" /\ last.mt = "req" /\ last.key = KAuthority /\ last.ret # Nil -> {last.ret}
      [] last.op = "get_all" /\ last.mt = "req" /\ last.ret # Nil ->
            {last.ret[i].val : i \in {j \in 1..Len(last.ret) : last.ret[j].key = KAuthority}}
      [] OTHER -> {}
AuthorityCorrect ==
    \A a \in AuthorityRead :
        a = [len |-> Len(AuthName) + (IF HasPort THEN 1 + Digits(Port) ELSE 0),
             data |-> AuthorityValue]

\* get_all never dereferences a NULL special-key value (the getters of
\* :scheme and :authority return NULL when $scheme, the allocation or the
\* local sockaddr fails; ngx_proxy_wasm_maps_get_all reads *value behind
\* ngx_wasm_assert only).
GetAllNoNullValue == ~crashed

=============================================================================
