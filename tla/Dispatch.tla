------------------------------ MODULE Dispatch ------------------------------
(***************************************************************************)
(* The HTTP calls a proxy-wasm filter dispatches from one request, in      *)
(* http/proxy_wasm/ngx_http_proxy_wasm_dispatch.c, and the buffer chain    *)
(* links they take from and give back to the request's shared free list    *)
(* rctx->free_bufs.                                                        *)
(*                                                                         *)
(* A chain link is a number in Links.  Per link:                           *)
(*   next[l]  its cl->next;                                                *)
(*   size[l]  b->end - b->start of its buffer, 0 while never allocated;    *)
(*   mem[l]   the pool whose memory holds the bytes of its buffer: "r"     *)
(*            (the request pool) or a call, whose pool (and socket         *)
(*            buffers) dispatch_destroy releases.                          *)
(* Each call runs the resume handler on events; the response reader is     *)
(* abstracted to what it does to the free list: it takes one link per      *)
(* body chunk (ngx_chain_get_free_buf), appends it to in_ctx->chunks, and  *)
(* takes one for the assembled body (ngx_wasm_chain_get_free_buf).         *)
(***************************************************************************)
EXTENDS Integers, Sequences, SequencesExt, FiniteSetsExt

CONSTANTS
    Calls,        \* the calls the filter dispatches
    NLinks,       \* chain links the pools can hand out; more is an allocation failure
    ReqLen,       \* length of a serialised request (dispatch_request's len)
    BodyLens,     \* request body lengths a filter may pass (0: no body)
    RespBodyLen,  \* length of a response body
    SockBufSize,  \* size of the socket buffer a chunk view points into
    MaxAgain,     \* NGX_AGAIN results of one call before its timer has fired
    MaxChunks,    \* body chunks of one response
    IdWidth,      \* bits of the static callout_ids counter (32 in the code)
    Nil           \* NULL

ASSUME NLinks \in Nat \ {0} /\ MaxAgain \in Nat /\ MaxChunks \in Nat \ {0}
ASSUME ReqLen > 0 /\ RespBodyLen > 0 /\ SockBufSize > 0 /\ BodyLens \subseteq Nat

VARIABLES
    cstate,    \* call->state, plus "idle" (not dispatched), "posted",
               \* "done" (destroyed) and "rejected" (dispatch returned NULL)
    cid,       \* call->id
    calloutIds,\* the static counter in ngx_http_proxy_wasm_dispatch
    cbody,     \* call->body
    creq,      \* the request chain nl handed to the socket while sending
    chunks,    \* call->http_reader.chunks
    rbody,     \* call->http_reader.body
    nchunks,   \* chunks the reader took (bounded by MaxChunks)
    nagain,    \* NGX_AGAIN results seen (bounded by MaxAgain)
    free,      \* rctx->free_bufs
    next, size, mem,
    hung,      \* the worker loops forever walking a cyclic chain
    cb,        \* runs of proxy_on_http_call_response for the call
    resumed,   \* runs of ngx_proxy_wasm_resume_main for the call
    ecode      \* fctx->ecode of the dispatching filter

vars == <<cstate, cid, calloutIds, cbody, creq, chunks, rbody, nchunks, nagain,
          free, next, size, mem, hung, cb, resumed, ecode>>

Links == 1..NLinks
Live == {"posted", "start", "connected", "receiving"}
Pools == {"r"} \cup Calls

\* The state as one record, so that the handler can be written as a
\* composition of the C functions it calls.
World == [cstate |-> cstate, cid |-> cid, calloutIds |-> calloutIds,
          cbody |-> cbody, creq |-> creq, chunks |-> chunks, rbody |-> rbody,
          nchunks |-> nchunks, nagain |-> nagain, free |-> free, next |-> next,
          size |-> size, mem |-> mem, hung |-> hung, cb |-> cb,
          resumed |-> resumed, ecode |-> ecode]

SetWorld(w) ==
    /\ cstate' = w.cstate /\ cid' = w.cid /\ calloutIds' = w.calloutIds
    /\ cbody' = w.cbody /\ creq' = w.creq /\ chunks' = w.chunks
    /\ rbody' = w.rbody /\ nchunks' = w.nchunks /\ nagain' = w.nagain
    /\ free' = w.free /\ next' = w.next /\ size' = w.size /\ mem' = w.mem
    /\ hung' = w.hung /\ cb' = w.cb /\ resumed' = w.resumed /\ ecode' = w.ecode

\* Binds a value once (TLC re-evaluates a LET name at each use inside ENABLED).
Apply(F(_), x) == CHOOSE y \in {F(v) : v \in {x}} : TRUE

-----------------------------------------------------------------------------
(* Chains *)

\* The links reached from h by following next, at most k of them; a chain
\* longer than NLinks is cyclic.
RECURSIVE ChainFrom(_, _, _)
ChainFrom(w, h, k) ==
    IF h = Nil \/ k = 0 THEN <<>> ELSE <<h>> \o ChainFrom(w, w.next[h], k - 1)

Chain(w, h) == ChainFrom(w, h, NLinks + 1)
Cyclic(w, h) == Len(Chain(w, h)) > NLinks
LinksOf(w, h) == ToSet(Chain(w, h))

\* A result: the new world and the link obtained (Nil on failure).
Got(w, l) == [w |-> w, l |-> l]

\* ngx_alloc_chain_link + ngx_create_temp_buf(pool, len): a link never
\* handed out before, or NULL when the pools are exhausted.
Alloc(w, len, pool) ==
    LET fresh == {l \in Links : w.size[l] = 0} IN
    IF fresh = {} THEN Got(w, Nil)
    ELSE LET l == Min(fresh) IN
         Got([w EXCEPT !.size[l] = len, !.mem[l] = pool, !.next[l] = Nil], l)

\* ngx_wasm_chain_get_free_buf(pool, &free_bufs, len, tag, 1): unlink the
\* first free link whose buffer holds len bytes, else allocate one.  The
\* search walks the list, and loops forever on a cyclic list with no fit.
GetFreeBuf(w, len, pool) ==
    LET fl   == Chain(w, w.free)
        fits == {i \in 1..Len(fl) : w.size[fl[i]] >= len}
    IN  IF fits = {} /\ Len(fl) > NLinks THEN Got([w EXCEPT !.hung = TRUE], Nil)
        ELSE IF fits = {} THEN Alloc(w, len, pool)
        ELSE LET i == Min(fits)
                 l == fl[i]
                 w1 == IF i = 1 THEN [w EXCEPT !.free = w.next[l]]
                       ELSE [w EXCEPT !.next[fl[i - 1]] = w.next[l]]
             IN  Got([w1 EXCEPT !.next[l] = Nil], l)

\* Mutant: the link is handed out without being unlinked from the list.
ChainGetFreeBuf_NoUnlink(w) ==
    IF w.free # Nil THEN Got(w, w.free) ELSE Alloc(w, 1, "r")

\* ngx_chain_get_free_buf(pool, &free_bufs): pop the head of the free list,
\* else a new link with a zeroed buffer.
ChainGetFreeBuf(w) ==
    IF w.free # Nil
    THEN Got([w EXCEPT !.free = w.next[w.free], !.next[w.free] = Nil], w.free)
    ELSE Alloc(w, 1, "r")

\* ngx_chain_update_chains(p, &free_bufs, &busy_bufs, &out, tag) after a
\* complete send: every buffer of out is empty, so each link in turn moves
\* from busy to the head of the free list.
RECURSIVE PushFree(_, _)
PushFree(w, s) ==
    IF s = <<>> THEN w
    ELSE PushFree([w EXCEPT !.next[Head(s)] = w.free, !.free = Head(s)], Tail(s))

UpdateChains(w, out) ==
    IF Cyclic(w, out) THEN [w EXCEPT !.hung = TRUE] ELSE PushFree(w, Chain(w, out))

-----------------------------------------------------------------------------
(* The call *)

\* ngx_http_proxy_wasm_dispatch_destroy: empty every buffer of the chain
\* from call->body (a walk that never ends on a cyclic chain), make that
\* chain the request's free list, and release the call's pool.
Destroy(w, c) ==
    LET h == w.cbody[c] IN
    IF h # Nil /\ Cyclic(w, h) THEN [w EXCEPT !.hung = TRUE]
    ELSE [w EXCEPT !.free = IF h # Nil THEN h ELSE @, !.cstate[c] = "done"]

\* The error label of the resume handler: a background error, destroy,
\* then resume the filter chain.
ErrorPath(w, c) ==
    LET w1 == Destroy([w EXCEPT !.ecode = "failed"], c) IN
    [w1 EXCEPT !.resumed[c] = @ + 1]

\* A break on NGX_AGAIN: the call waits for its next event.
Wait(w, c) == [w EXCEPT !.nagain[c] = @ + 1]

\* ngx_http_proxy_wasm_dispatch_request: a buffer of len bytes for the
\* request line and headers, followed by call->body when there is one.
DispatchRequest(w, c) ==
    LET r == GetFreeBuf(w, ReqLen, "r") IN
    IF r.l = Nil \/ w.cbody[c] = Nil THEN r
    ELSE Got([r.w EXCEPT !.next[r.l] = w.cbody[c]], r.l)

\* The reader appends a chunk link to in_ctx->chunks, walking to its tail.
AppendChunk(w, c, l) ==
    LET ch == Chain(w, w.chunks[c]) IN
    IF w.chunks[c] = Nil THEN [w EXCEPT !.chunks[c] = l]
    ELSE IF Len(ch) > NLinks THEN [w EXCEPT !.hung = TRUE]
    ELSE [w EXCEPT !.next[ch[Len(ch)]] = l]

\* One body round of the reader: a link for the incoming chunk, whose
\* buffer is pointed at the socket buffer of the call's pool.
TakeChunk(w, c) ==
    LET r == ChainGetFreeBuf(w) IN
    IF r.l = Nil THEN r
    ELSE Got(AppendChunk([r.w EXCEPT !.size[r.l] = SockBufSize, !.mem[r.l] = c,
                                     !.nchunks[c] = @ + 1], c, r.l), r.l)

\* The end of the reader: the last chunk, then the body copied out of the
\* chunks (a walk of in_ctx->chunks) into a buffer of body_len bytes.
FinishBody(w, c) ==
    LET r == TakeChunk(w, c)
        b == IF r.l = Nil \/ r.w.hung THEN r ELSE GetFreeBuf(r.w, RespBodyLen, "r")
    IN  IF b.l = Nil \/ b.w.hung THEN b
        ELSE IF Cyclic(b.w, b.w.chunks[c]) THEN Got([b.w EXCEPT !.hung = TRUE], Nil)
        ELSE Got([b.w EXCEPT !.rbody[c] = b.l], b.l)

\* Mutant: a trapped callback takes the error label, as the rc != NGX_ABORT
\* test there suggests it might.
Received_AbortToError(w, c, cbrc) ==
    LET w1 == [w EXCEPT !.cb[c] = @ + 1,
                        !.ecode = IF cbrc = "abort" THEN "trapped" ELSE @]
    IN  IF cbrc = "abort" THEN [Destroy(w1, c) EXCEPT !.resumed[c] = @ + 1]
        ELSE Destroy(w1, c)

\* The RECEIVED case: close, run proxy_on_http_call_response, record a
\* trap, destroy.
Received(w, c, cbrc) ==
    Destroy([w EXCEPT !.cb[c] = @ + 1,
                      !.ecode = IF cbrc = "abort" THEN "trapped" ELSE @], c)

\* The RECEIVING case: ngx_wasm_socket_tcp_read over the reader, whose
\* outcome is o.read.
Receiving(w, c, o) ==
    CASE o.read = "error" -> ErrorPath(w, c)
      [] o.read = "again" -> Wait(w, c)
      [] o.read = "chunk" ->
            LET r == TakeChunk(w, c) IN
            IF r.l = Nil THEN ErrorPath(r.w, c) ELSE Wait(r.w, c)
      [] o.read = "nobody" -> Received(w, c, o.cb)
      [] o.read = "body" ->
            LET r == FinishBody(w, c) IN
            IF r.w.hung THEN r.w
            ELSE IF r.l = Nil THEN ErrorPath(r.w, c) ELSE Received(r.w, c, o.cb)

\* The CONNECTED case: build the request and send it; on a complete send
\* the request chain goes to the free list.
Connected(w, c, o) ==
    LET r == DispatchRequest(w, c) IN
    CASE r.w.hung -> r.w
      [] r.l = Nil \/ o.send = "error" -> ErrorPath(r.w, c)
      [] o.send = "again" -> Wait([r.w EXCEPT !.creq[c] = r.l], c)
      [] OTHER -> LET w1 == UpdateChains(r.w, r.l) IN
                  IF w1.hung THEN w1
                  ELSE Receiving([w1 EXCEPT !.creq[c] = Nil,
                                            !.cstate[c] = "receiving"], c, o)

\* ngx_http_proxy_wasm_dispatch_resume_handler without sock->err, from
\* the START case (also the first run, from the posted event).
ResumeHandler(w, c, o) ==
    CASE w.cstate[c] \in {"posted", "start"} ->
            CASE o.connect = "error" -> ErrorPath(w, c)
              [] o.connect = "again" -> Wait([w EXCEPT !.cstate[c] = "start"], c)
              [] OTHER -> Connected([w EXCEPT !.cstate[c] = "connected"], c, o)
      [] w.cstate[c] = "connected" -> Connected(w, c, o)
      [] OTHER -> Receiving(w, c, o)

-----------------------------------------------------------------------------
(* Actions *)

Init ==
    /\ cstate = [c \in Calls |-> "idle"]
    /\ cid = [c \in Calls |-> 0]
    /\ calloutIds = 0
    /\ cbody = [c \in Calls |-> Nil]
    /\ creq = [c \in Calls |-> Nil]
    /\ chunks = [c \in Calls |-> Nil]
    /\ rbody = [c \in Calls |-> Nil]
    /\ nchunks = [c \in Calls |-> 0]
    /\ nagain = [c \in Calls |-> 0]
    /\ free = Nil
    /\ next = [l \in Links |-> Nil]
    /\ size = [l \in Links |-> 0]
    /\ mem = [l \in Links |-> "r"]
    /\ hung = FALSE
    /\ cb = [c \in Calls |-> 0]
    /\ resumed = [c \in Calls |-> 0]
    /\ ecode = "none"

\* Mutant: the counter does not wrap at 2^IdWidth.
NextCalloutId_NoWrap(n) == n + 1

\* call->id = callout_ids++ on a uint32_t of IdWidth bits.
NextCalloutId(n) == (n + 1) % (2 ^ IdWidth)

\* The error label of ngx_http_proxy_wasm_dispatch: destroy, return NULL.
Reject(w, c) == [Destroy(w, c) EXCEPT !.cstate[c] = "rejected"]

\* ngx_http_proxy_wasm_dispatch, called from the filter: take the id;
\* "invalid" is a failure before the body (host copy, unmarshalling, a
\* missing :method, :path or :authority); then copy the body into a free
\* buffer; "late" is a failure after it (socket init, event allocation);
\* else post the event.
DispatchCall(w, c, fail, blen) ==
    LET w1 == [w EXCEPT !.cid[c] = w.calloutIds,
                        !.calloutIds = NextCalloutId(w.calloutIds)]
        r  == IF blen = 0 THEN Got(w1, Nil) ELSE GetFreeBuf(w1, blen, "r")
        w2 == [r.w EXCEPT !.cbody[c] = r.l]
    IN  CASE fail = "invalid" -> Reject(w1, c)
          [] r.w.hung -> r.w
          [] (blen > 0 /\ r.l = Nil) \/ fail = "late" -> Reject(w2, c)
          [] OTHER -> [w2 EXCEPT !.cstate[c] = "posted"]

Dispatch(c) ==
    /\ ~hung /\ cstate[c] = "idle"
    /\ \E fail \in {"none", "invalid", "late"}, blen \in BodyLens :
          \E w \in {DispatchCall(World, c, fail, blen)} : SetWorld(w)

\* The outcomes of the transport and of the filter's callback for one run of
\* the resume handler; NGX_AGAIN only while the call's timer has not fired.
Outcomes(c) ==
    LET rc == {"ok", "error"} \cup (IF nagain[c] < MaxAgain THEN {"again"} ELSE {})
        rd == {"error", "body"}
              \cup (IF nagain[c] < MaxAgain THEN {"again"} ELSE {})
              \cup (IF nagain[c] < MaxAgain /\ nchunks[c] + 1 < MaxChunks
                    THEN {"chunk"} ELSE {})
              \cup (IF nchunks[c] = 0 THEN {"nobody"} ELSE {})
    IN  [connect : rc, send : rc, read : rd, cb : {"ok", "abort"}]

\* ngx_http_proxy_wasm_dispatch_handler: the posted event runs the resume
\* handler in the START state.
Posted(c) ==
    /\ ~hung /\ cstate[c] = "posted"
    /\ \E o \in Outcomes(c) : \E w \in {ResumeHandler(World, c, o)} : SetWorld(w)

\* A socket event for a call waiting after NGX_AGAIN.
Resume(c) ==
    /\ ~hung /\ cstate[c] \in {"start", "connected", "receiving"}
    /\ \E o \in Outcomes(c) : \E w \in {ResumeHandler(World, c, o)} : SetWorld(w)

\* Mutant: sock->read_timeout is left unset, so a reading call has no timer.
TimerArmed_NoReadTimer(st) == st \in {"start", "connected"}

\* sock->connect_timeout, send_timeout and read_timeout are all set to
\* call->timeout: the states in which a waiting call has a timer.
TimerArmed(st) == st \in {"start", "connected", "receiving"}

\* The timer of a waiting call fires: the socket sets sock->err and runs the
\* resume handler, which takes the error label.
Timeout(c) ==
    /\ ~hung /\ TimerArmed(cstate[c])
    /\ \E w \in {ErrorPath(World, c)} : SetWorld(w)

Next == \E c \in Calls : Dispatch(c) \/ Posted(c) \/ Resume(c) \/ Timeout(c)

\* Posted events and timers are run by the event loop; the peer may never
\* answer, so socket events are not fair.
Spec == Init /\ [][Next]_vars
        /\ \A c \in Calls : WF_vars(Posted(c)) /\ WF_vars(Timeout(c))

-----------------------------------------------------------------------------
(* Properties *)

LinkOrNil == Links \cup {Nil}

TypeOK ==
    /\ cstate \in [Calls -> {"idle", "rejected", "done"} \cup Live]
    /\ cid \in [Calls -> 0..(2 ^ IdWidth - 1)]
    /\ calloutIds \in 0..(2 ^ IdWidth - 1)
    /\ cbody \in [Calls -> LinkOrNil] /\ creq \in [Calls -> LinkOrNil]
    /\ chunks \in [Calls -> LinkOrNil] /\ rbody \in [Calls -> LinkOrNil]
    /\ nchunks \in [Calls -> 0..MaxChunks] /\ nagain \in [Calls -> 0..MaxAgain]
    /\ free \in LinkOrNil /\ next \in [Links -> LinkOrNil]
    /\ size \in [Links -> Nat] /\ mem \in [Links -> Pools]
    /\ hung \in BOOLEAN
    /\ cb \in [Calls -> Nat] /\ resumed \in [Calls -> Nat]
    /\ ecode \in {"none", "failed", "trapped"}

\* The links a live call is using: its body and request chain until the
\* request is sent, then the reader's chunks and body.
Held(c) ==
    IF cstate[c] \notin Live THEN {}
    ELSE ((IF cstate[c] = "receiving" THEN {}
           ELSE {cbody[c]} \cup LinksOf(World, creq[c]))
          \cup LinksOf(World, chunks[c]) \cup {rbody[c]}) \ {Nil}

FreeLinks == LinksOf(World, free)

\* A chain link is owned by one stage at a time, and only while its memory
\* lives: no link a live call uses is on rctx->free_bufs or used by another
\* live call, and none points into the socket buffer of a destroyed call's
\* pool, whatever order the calls of the request send, read and are
\* destroyed in (destroy makes call->body's chain the free list and
\* releases the pool; the reader and dispatch_request take from the list).
BufferOwnership ==
    \A c \in Calls :
        /\ Held(c) \cap FreeLinks = {}
        /\ \A d \in Calls \ {c} : Held(c) \cap Held(d) = {}
        /\ \A l \in Held(c) : mem[l] \in Calls => cstate[mem[l]] \notin {"done", "rejected"}

\* The resume handler completes a dispatched call exactly once: a call that
\* was destroyed after being posted had either its on_http_call_response or
\* one ngx_proxy_wasm_resume_main, never both and never twice; a refused or
\* live call had neither.
CompletesOnce ==
    \A c \in Calls :
        cb[c] + resumed[c] = IF cstate[c] = "done" THEN 1 ELSE 0

\* The refinement mapping to the lifecycle a filter sees.
LifecycleStatus ==
    [c \in Calls |->
        CASE cstate[c] = "idle" -> "idle"
          [] cstate[c] = "rejected" -> "rejected"
          [] cstate[c] = "done" /\ resumed[c] = 0 -> "responded"
          [] cstate[c] = "done" -> "failed"
          [] OTHER -> "pending"]

Lifecycle == INSTANCE DispatchLifecycle WITH status <- LifecycleStatus

\* Every call either is refused or ends in exactly one response or failure,
\* and no posted call waits forever (timers and posted events run).
LifecycleSpec == Lifecycle!Spec

=============================================================================
