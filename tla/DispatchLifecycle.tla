-------------------------- MODULE DispatchLifecycle --------------------------
(***************************************************************************)
(* What ngx_http_proxy_wasm_dispatch promises the filter that calls it: a  *)
(* call is refused at once (NULL), or it is pending until exactly one of   *)
(* two things happens, the filter's on_http_call_response runs or the      *)
(* filter chain is resumed with an error; and a pending call does not stay *)
(* pending forever.                                                        *)
(***************************************************************************)
CONSTANTS Calls

VARIABLES status

Status == {"idle", "pending", "rejected", "responded", "failed"}

TypeOK == status \in [Calls -> Status]

Init == status = [c \in Calls |-> "idle"]

Issue(c) ==
    /\ status[c] = "idle"
    /\ \E s \in {"pending", "rejected"} : status' = [status EXCEPT ![c] = s]

Respond(c) ==
    /\ status[c] = "pending"
    /\ status' = [status EXCEPT ![c] = "responded"]

Fail(c) ==
    /\ status[c] = "pending"
    /\ status' = [status EXCEPT ![c] = "failed"]

Next == \E c \in Calls : Issue(c) \/ Respond(c) \/ Fail(c)

Spec == Init /\ [][Next]_status /\ \A c \in Calls : WF_status(Respond(c) \/ Fail(c))

=============================================================================
