------------------------------ MODULE HttpUtil ------------------------------
(***************************************************************************)
(* The HTTP utilities of src/http/ngx_http_wasm_util.c for one request:    *)
(* sending a chain link of the response, reading the client body, the      *)
(* default response headers, the request and response body setters, and   *)
(* adding a proxy-wasm filter to a plan.                                   *)
(*                                                                         *)
(* Each function calls nginx (ngx_http_send_header, ngx_http_output_filter, *)
(* ngx_http_read_client_request_body, the header setters) or the chain     *)
(* helpers of ngx_wasm_util.c, none of them in this repository: a call is  *)
(* a choice over the return codes the code tests or asserts.  "http"       *)
(* stands for an HTTP status code (rc > NGX_OK, or >= 300).  Bodies are    *)
(* their lengths.                                                          *)
(***************************************************************************)
EXTENDS Integers, Sequences, FiniteSets

CONSTANTS
  MaxCalls,    \* bound on the calls of a behaviour
  Lens,        \* the body lengths a filter may pass (0 included)
  Nil

VARIABLES
  status,      \* r->headers_out.status (0: unset)
  headerSent,  \* r->header_sent
  headerOnly,  \* r->header_only
  count,       \* r->main->count
  contentSent, \* rctx->resp_content_sent
  entered,     \* rctx->entered_header_filter
  reqBody,     \* r->request_body: Nil, or the length of rb->bufs
  cl,          \* r->headers_in.content_length_n
  chunk,       \* rctx->resp_chunk: Nil, or its length
  chunkLen,    \* rctx->resp_chunk_len
  hdrs,        \* the default headers headers_out holds: "server", "date", "last_modified"
  produced,    \* produced[h]: how many times produce_resp_headers set h
  lmTime,      \* r->headers_out.last_modified_time: -1 or a time
  plan,        \* the filters of the ops plan, by id
  alloc,       \* the objects allocated in plan->pool and not freed
  calls,       \* the calls made so far
  last,        \* the last call and its return code
  dst          \* the ngx_str_t given to ngx_http_copy_escaped: len, data

vars == <<status, headerSent, headerOnly, count, contentSent, entered,
          reqBody, cl, chunk, chunkLen, hdrs, produced, lmTime, plan, alloc, calls, last, dst>>

DefaultHeaders == {"server", "date", "last_modified"}

\* the return codes of the nginx calls
SendHeaderRcs == {"error", "ok", "again", "done", "declined", "http"}
SendSpecialRcs == {"error", "ok", "again", "http"}
OutputRcs == {"error", "ok", "again"}
ReadBodyRcs == {"ok", "error", "http"}

Init ==
  /\ status = 0 /\ headerSent = FALSE /\ headerOnly = FALSE
  /\ count = 1 /\ contentSent = FALSE
  /\ entered = FALSE
  /\ reqBody = Nil /\ cl = -1
  /\ chunk = Nil /\ chunkLen = 0
  /\ hdrs = {} /\ produced = [h \in DefaultHeaders |-> 0] /\ lmTime \in {-1, 0}
  /\ plan = <<>> /\ alloc = {}
  /\ calls = 0
  /\ last = [op |-> "none", rc |-> "none"]
  /\ dst = [len |-> 1, data |-> "raw"]

\* a call of the filter: counted and recorded with its return code
Call(op, rc) == /\ calls < MaxCalls /\ calls' = calls + 1
                /\ last' = [op |-> op, rc |-> rc]

-----------------------------------------------------------------------------
(* ngx_http_wasm_read_client_request_body and _send_chain_link            *)

\* ngx_http_read_client_request_body takes r->main->count first; the
\* wrapper releases it unless the caller must finalize with rc (>= 300 or
\* NGX_ERROR); rb is created.
ReadClientRequestBody ==
  \E rc \in ReadBodyRcs, n \in Lens :
    /\ Call("read_body", rc)
    /\ count' = IF rc \in {"error", "http"} THEN count + 1 ELSE count
    /\ reqBody' = IF reqBody = Nil THEN n ELSE reqBody
    /\ UNCHANGED <<status, headerSent, headerOnly, contentSent, entered, cl,
                   chunk, chunkLen, hdrs, produced, lmTime, plan, alloc, dst>>

\* ngx_http_send_header: NGX_ERROR when the header was already sent ("header
\* already sent"), else the filters' rc; the header filter marks it sent
\* and sets header_only for a HEAD request or a bodiless status.
SendHeader(sh) == IF headerSent THEN "error" ELSE sh

\* after the header, with in the link (FALSE: NULL): the last buffer by
\* ngx_http_send_special (rc < 300 is NGX_OK), or ngx_http_output_filter,
\* then r->main->count taken unless resp_content_sent, which is set
SendRest(in, so, of) ==
  CASE ~in -> [rc |-> IF so = "error" THEN "error" ELSE IF so = "http" THEN "http" ELSE "ok",
               take |-> FALSE, sent |-> FALSE]
    [] OTHER -> [rc |-> of, take |-> of # "error", sent |-> of # "error"]

\* ngx_http_wasm_send_chain_link; the request context always exists here
SendChainLink(in) ==
  \E sh \in SendHeaderRcs, only \in BOOLEAN, so \in SendSpecialRcs, of \in OutputRcs :
    LET h   == SendHeader(sh)
        hs  == headerSent \/ h # "error"
        ho  == IF headerSent \/ h = "error" THEN headerOnly ELSE only
        r   == SendRest(in, so, of)
        rc  == CASE h = "error" -> "error"
                 [] h = "http" \/ ho -> h
                 [] OTHER -> r.rc
        on  == h # "error" /\ h # "http" /\ ~ho
    IN  /\ Call("send", rc)
        /\ status' = IF status = 0 THEN 200 ELSE status
        /\ headerSent' = hs /\ headerOnly' = ho
        /\ count' = IF on /\ r.take /\ ~contentSent THEN count + 1 ELSE count
        /\ contentSent' = (contentSent \/ (on /\ r.sent))
        /\ UNCHANGED <<entered, reqBody, cl, chunk, chunkLen, hdrs,
                       produced, lmTime, plan, alloc, dst>>

-----------------------------------------------------------------------------
(* ngx_http_wasm_produce_resp_headers                                      *)

\* mutant: Date produced whether or not headers_out.date is set
Todo_DateAlways(hs, lm) ==
  {h \in DefaultHeaders : h = "date" \/ (h \notin hs /\ (h = "last_modified" => lm # -1))}

\* the default headers a call sets: Server unless headers_out.server is set,
\* Date unless headers_out.date is, Last-Modified unless headers_out.
\* last_modified is or last_modified_time is -1
Todo(hs, lm) ==
  {h \in DefaultHeaders : h \notin hs /\ (h = "last_modified" => lm # -1)}

\* ngx_http_wasm_produce_resp_headers: in the order Server, Date,
\* Last-Modified; ngx_http_wasm_set_resp_header (or the pnalloc of the
\* Last-Modified value) may fail, which ends the call with NGX_ERROR and the
\* headers before it set; Last-Modified resets last_modified_time to -1.
ProduceRespHeaders ==
  \E failAt \in DefaultHeaders \cup {"none"} :
    LET todo  == Todo(hdrs, lmTime)
        order == <<"server", "date", "last_modified">>
        pos(h) == CHOOSE i \in 1..3 : order[i] = h
        stop  == IF failAt \in todo THEN pos(failAt) ELSE 4
        done  == {h \in todo : pos(h) < stop}
    IN  /\ Call("produce", IF stop = 4 THEN "ok" ELSE "error")
        /\ hdrs' = hdrs \cup done
        /\ produced' = [h \in DefaultHeaders |-> produced[h] + IF h \in done THEN 1 ELSE 0]
        /\ lmTime' = IF "last_modified" \in done THEN -1 ELSE lmTime
        /\ UNCHANGED <<status, headerSent, headerOnly, count, contentSent,
                       entered, reqBody, cl, chunk, chunkLen, plan, alloc, dst>>

-----------------------------------------------------------------------------
(* The body setters.  ngx_wasm_chain_append(at) replaces the bytes from at  *)
(* on with the body, ngx_wasm_chain_prepend puts it first; either may fail  *)
(* and leave the chain as it was.                                          *)

ChainAppend(cur, at, n) == (IF at < cur THEN at ELSE cur) + n
Min2(a, b) == IF a < b THEN a ELSE b

\* ngx_http_wasm_set_req_body (op "set", body cut to max, written at at)
\* and _prepend_req_body (op "prepend"): NGX_ABORT once the header filter
\* was entered; get_request_body creates rb (rest -1) or fails; the new
\* chain length becomes r->headers_in.content_length_n.
ReqBody(op, n, at, max) ==
  /\ \E rbFail, chainFail \in BOOLEAN :
       LET cur == IF reqBody = Nil THEN 0 ELSE reqBody
           new == IF op = "set" THEN ChainAppend(cur, at, Min2(n, max)) ELSE cur + n
       IN  CASE entered -> Call(op, "abort") /\ UNCHANGED <<reqBody, cl>>
             [] reqBody = Nil /\ rbFail -> Call(op, "error") /\ UNCHANGED <<reqBody, cl>>
             [] chainFail -> Call(op, "error") /\ reqBody' = cur /\ UNCHANGED cl
             [] OTHER -> Call(op, "ok") /\ reqBody' = new /\ cl' = new
  /\ UNCHANGED <<status, headerSent, headerOnly, count, contentSent,
                 entered, chunk, chunkLen, hdrs, produced, lmTime, plan, alloc, dst>>

\* ngx_http_wasm_set_resp_body (op "set_resp") and _prepend_resp_body (op
\* "prepend_resp"): NGX_ABORT without a current chunk; resp_chunk_len is the
\* new chain length, and an empty chunk is discarded.
RespBody(op, n, at, max) ==
  /\ \E chainFail \in BOOLEAN :
       LET new == IF op = "set_resp" THEN ChainAppend(chunk, at, Min2(n, max)) ELSE chunk + n
       IN  CASE chunk = Nil -> Call(op, "abort") /\ UNCHANGED <<chunk, chunkLen>>
             [] chainFail -> Call(op, "error") /\ UNCHANGED <<chunk, chunkLen>>
             [] OTHER -> /\ Call(op, "ok") /\ chunkLen' = new
                         /\ chunk' = IF new = 0 THEN Nil ELSE new
  /\ UNCHANGED <<status, headerSent, headerOnly, count, contentSent,
                 entered, reqBody, cl, hdrs, produced, lmTime, plan, alloc, dst>>

\* the body filter (not in this repository) holds a chunk of the response
\* for the filters, then passes it on; the header filter is entered once
BodyFilter ==
  /\ chunk = Nil /\ calls < MaxCalls
  /\ \E n \in Lens : chunk' = n /\ chunkLen' = n
  /\ UNCHANGED <<status, headerSent, headerOnly, count, contentSent,
                 entered, reqBody, cl, hdrs, produced, lmTime, plan, alloc, calls, last, dst>>
ChunkPassed ==
  /\ chunk # Nil
  /\ chunk' = Nil
  /\ UNCHANGED <<status, headerSent, headerOnly, count, contentSent,
                 entered, reqBody, cl, chunkLen, hdrs, produced, lmTime, plan, alloc, calls, last, dst>>
HeaderFilter ==
  /\ ~entered /\ entered' = TRUE
  /\ UNCHANGED <<status, headerSent, headerOnly, count, contentSent,
                 reqBody, cl, chunk, chunkLen, hdrs, produced, lmTime, plan, alloc, calls, last, dst>>

-----------------------------------------------------------------------------
(* ngx_http_wasm_ops_add_filter: the objects of filter id in plan->pool     *)

Obj(id, kind) == [id |-> id, kind |-> kind]

\* mutant: the error label frees the filter but not its config copy
ErrorLabel_KeepConfig(objs) == {o \in objs : o.kind # "filter"}

\* the error label: pfree of filter->config.data and of the filter; the op
\* stays in the pool
ErrorLabel(objs) == {o \in objs : o.kind \notin {"filter", "config"}}

\* pcalloc of the filter, pstrdup of the config (when one is given),
\* ngx_wavm_module_lookup (NGX_ABORT when the module is unknown), pcalloc
\* of the op, ngx_wasm_ops_plan_add; the first failure ends the call at
\* the error label.  The filter's id is the call's number.
AddFilter(hasConfig) ==
  \E fails \in SUBSET {"filter", "config", "module", "op", "plan_add"} :
    LET id   == calls
        f    == {Obj(id, "filter")}
        fc   == f \cup (IF hasConfig THEN {Obj(id, "config")} ELSE {})
        all  == fc \cup {Obj(id, "op")}
        res  == CASE "filter" \in fails -> [rc |-> "error", objs |-> {}]
                  [] hasConfig /\ "config" \in fails -> [rc |-> "error", objs |-> ErrorLabel(f)]
                  [] "module" \in fails -> [rc |-> "abort", objs |-> ErrorLabel(fc)]
                  [] "op" \in fails -> [rc |-> "error", objs |-> ErrorLabel(fc)]
                  [] "plan_add" \in fails -> [rc |-> "error", objs |-> ErrorLabel(all)]
                  [] OTHER -> [rc |-> "ok", objs |-> all]
    IN  /\ Call("add_filter", res.rc)
        /\ alloc' = alloc \cup res.objs
        /\ plan' = IF res.rc = "ok" THEN Append(plan, id) ELSE plan
        /\ UNCHANGED <<status, headerSent, headerOnly, count, contentSent,
                       entered, reqBody, cl, chunk, chunkLen, hdrs, produced, lmTime, dst>>

\* ngx_http_wasm_send_chain_link without a request context: NGX_ERROR
SendNoCtx ==
  /\ Call("send", "error")
  /\ UNCHANGED <<status, headerSent, headerOnly, count, contentSent,
                 entered, reqBody, cl, chunk, chunkLen, hdrs, produced, lmTime, plan, alloc, dst>>

\* ngx_http_copy_escaped: ngx_http_wasm_escape counts the bytes to escape;
\* when there are some, dst->len becomes len + 2 * escape before the
\* pnalloc of the copy, whose failure returns NULL with dst->data NULL
CopyEscaped ==
  \E escape \in 0..1, allocFail \in BOOLEAN :
    /\ dst.data # Nil
    /\ IF escape = 0 THEN Call("copy_escaped", "ok") /\ UNCHANGED dst
       ELSE /\ Call("copy_escaped", IF allocFail THEN "null" ELSE "ok")
            /\ dst' = [len |-> dst.len + 2 * escape,
                       data |-> IF allocFail THEN Nil ELSE "escaped"]
    /\ UNCHANGED <<status, headerSent, headerOnly, count, contentSent,
                   entered, reqBody, cl, chunk, chunkLen, hdrs, produced, lmTime, plan, alloc>>

-----------------------------------------------------------------------------

Lens3 == Lens \X Lens \X Lens

Next ==
  \/ ReadClientRequestBody
  \/ \E in \in BOOLEAN : SendChainLink(in)
  \/ SendNoCtx
  \/ CopyEscaped
  \/ ProduceRespHeaders
  \/ \E op \in {"set", "prepend"}, x \in Lens3 : ReqBody(op, x[1], x[2], x[3])
  \/ \E op \in {"set_resp", "prepend_resp"}, x \in Lens3 : RespBody(op, x[1], x[2], x[3])
  \/ \E c \in BOOLEAN : AddFilter(c)
  \/ BodyFilter \/ ChunkPassed \/ HeaderFilter

Spec == Init /\ [][Next]_vars

-----------------------------------------------------------------------------
(* Properties                                                              *)

Range(f) == {f[i] : i \in DOMAIN f}

\* Over repeated produce_resp_headers, including retries after a failed
\* ngx_http_wasm_set_resp_header, each default header is produced at most
\* once.
DefaultsOnce == \A h \in DefaultHeaders : produced[h] <= 1

\* After any sequence of ops_add_filter, complete or failed at any step, a
\* filter or a config copy is left allocated only for a filter of the plan,
\* and every filter of the plan is allocated.
NoOrphanFilter ==
  /\ \A o \in alloc : o.kind \in {"filter", "config"} => o.id \in Range(plan)
  /\ \A id \in Range(plan) : Obj(id, "filter") \in alloc

\* The assertion at done: send_chain_link returns NGX_OK or NGX_DONE unless
\* it returns NGX_ERROR.
SendResultContract == last.op = "send" => last.rc \in {"ok", "done", "error"}
=============================================================================
