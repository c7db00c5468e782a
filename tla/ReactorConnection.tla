-------------------------- MODULE ReactorConnection --------------------------
(***************************************************************************)
(* The reactor implements the connection protocol of Connection: each     *)
(* descriptor slot, read through its allocation, epoll interest, request  *)
(* flags and queued bytes, moves only as Connection allows.  The stamp    *)
(* check of the drain loop is what keeps a completion of an earlier       *)
(* request from answering the request now on a reused descriptor.         *)
(***************************************************************************)
EXTENDS Reactor

(* The phase of a slot: free when deallocated; receiving while it reads    *)
(* (EPOLLIN); with the pool while only errors are of interest; replying    *)
(* while it waits to send (EPOLLOUT).                                      *)
PhaseOf(fd) ==
  IF ~live[fd] THEN "free"
  ELSE CASE interest[fd] = "IN"  -> "recv"
         [] interest[fd] = "ERR" -> "work"
         [] interest[fd] = "OUT" -> "reply"
         [] OTHER                -> "free"

(* The reply queued on a slot: final once the connection is marked         *)
(* closing, the pool's when a handler's bytes are pending, else the        *)
(* reactor's own.                                                          *)
AnswerOf(fd) ==
  IF ~live[fd] \/ expect[fd] = <<>> THEN "none"
  ELSE IF closing[fd] THEN "final"
  ELSE IF \E k \in 1 .. Len(expect[fd]) : expect[fd][k].code = "200" THEN "pool"
  ELSE "reactor"

Conn == INSTANCE Connection WITH
          Conns <- FDs,
          phase <- [fd \in FDs |-> PhaseOf(fd)],
          req <- curReq,
          answer <- [fd \in FDs |-> AnswerOf(fd)]

(* Every behaviour of the reactor, pool and queues is a behaviour of the   *)
(* connection protocol: a handler's response reaches only a connection    *)
(* whose current request was handed to the pool, a final 413 or 408 ends  *)
(* the connection, and keep-alive starts a new request only after a reply. *)
ConnectionRefined == Conn!Spec

=============================================================================
