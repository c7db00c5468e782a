----------------------------- MODULE Connection -----------------------------
(***************************************************************************)
(* What onyxup promises of one client connection (spec.md 4.5 and its     *)
(* error table), without buffers, queues, stamps or threads.  A connection *)
(* is free, receiving a request, waiting for the pool to answer it, or     *)
(* replying.  A reply is the pool's answer to the request that was handed  *)
(* to it, the reactor's own answer (404, 503, 413), or a final one (the    *)
(* 413 of an overflowing request, the 408 of the sweep) after which the    *)
(* connection is not reused.  After a reply that is not final the same     *)
(* connection may carry a new request; at any time it may be dropped.      *)
(***************************************************************************)
CONSTANTS
    Conns,      \* connection slots
    ReqIds,     \* identities of requests
    NoReq       \* no request

VARIABLES
    phase,      \* "free", "recv", "work" or "reply"
    req,        \* the request the connection carries
    answer      \* "none", "pool", "reactor" or "final"

vars == <<phase, req, answer>>

Fresh == ReqIds \ {req[c] : c \in Conns}

Init ==
    /\ phase = [c \in Conns |-> "free"]
    /\ req = [c \in Conns |-> NoReq]
    /\ answer = [c \in Conns |-> "none"]

(* A client connects and starts a request. *)
Open(c) ==
    /\ phase[c] = "free"
    /\ \E r \in Fresh : req' = [req EXCEPT ![c] = r]
    /\ phase' = [phase EXCEPT ![c] = "recv"]
    /\ UNCHANGED answer

(* The complete request is handed to the pool. *)
Hand(c) ==
    /\ phase[c] = "recv"
    /\ phase' = [phase EXCEPT ![c] = "work"]
    /\ UNCHANGED <<req, answer>>

(* The pool's answer to that request is queued (or, when it does not fit,  *)
(* the reactor's).                                                         *)
Answer(c) ==
    /\ phase[c] = "work"
    /\ phase' = [phase EXCEPT ![c] = "reply"]
    /\ \E a \in {"pool", "reactor"} : answer' = [answer EXCEPT ![c] = a]
    /\ UNCHANGED req

(* The reactor answers the request itself. *)
Reject(c) ==
    /\ phase[c] = "recv"
    /\ phase' = [phase EXCEPT ![c] = "reply"]
    /\ \E a \in {"reactor", "final"} : answer' = [answer EXCEPT ![c] = a]
    /\ UNCHANGED req

(* The request takes too long: a final answer, whatever was under way. *)
Expire(c) ==
    /\ phase[c] \in {"recv", "work", "reply"}
    /\ phase' = [phase EXCEPT ![c] = "reply"]
    /\ answer' = [answer EXCEPT ![c] = "final"]
    /\ UNCHANGED req

(* The reply is delivered and the connection carries a new request. *)
Reuse(c) ==
    /\ phase[c] = "reply" /\ answer[c] # "final"
    /\ \E r \in Fresh : req' = [req EXCEPT ![c] = r]
    /\ phase' = [phase EXCEPT ![c] = "recv"]
    /\ answer' = [answer EXCEPT ![c] = "none"]

(* The connection ends. *)
Drop(c) ==
    /\ phase[c] # "free"
    /\ phase' = [phase EXCEPT ![c] = "free"]
    /\ req' = [req EXCEPT ![c] = NoReq]
    /\ answer' = [answer EXCEPT ![c] = "none"]

Next == \E c \in Conns : Open(c) \/ Hand(c) \/ Answer(c) \/ Reject(c)
                         \/ Expire(c) \/ Reuse(c) \/ Drop(c)

Spec == Init /\ [][Next]_vars

=============================================================================
